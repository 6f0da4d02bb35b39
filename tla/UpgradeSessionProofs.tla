------------------------ MODULE UpgradeSessionProofs ------------------------
(***************************************************************************)
(* Proofs about one upgrade session for any command, shell, terminal and   *)
(* connection: the password is never echoed, an Exit frame that has been   *)
(* read means the host's lock is free, the session keeps the promise of    *)
(* UpgradePromise, and the log of the panel is the command's output.       *)
(***************************************************************************)
EXTENDS UpgradeSession, SequenceTheorems, TLAPS

---------------------------------------------------------------------------
\* The kinds of the pieces that the shell says.
LEMMA PieceKinds ==
  /\ \A k \in Markers \cup {"noise", "password", "leftover"} :
       Mark(k) \in Pieces /\ Mark(k).kind = k
  /\ \A i \in 1..MaxOut : OutOf(i) \in Pieces /\ OutOf(i).kind = "out"
  /\ \A p \in Pieces : p.kind \in Markers \cup Forwarded /\ p.n \in Nat
<1>1. MaxOut \in Nat
  BY ChildAssumption
<1>2. \A k \in Markers \cup {"noise", "password", "leftover"} :
        Mark(k) \in Pieces /\ Mark(k).kind = k
  BY DEF Pieces, Mark
<1>3. \A i \in 1..MaxOut : OutOf(i) \in Pieces /\ OutOf(i).kind = "out"
  BY DEF Pieces, OutOf
<1>4. \A p \in Pieces : p.kind \in Markers \cup Forwarded /\ p.n \in Nat
  BY <1>1 DEF Pieces, Mark, OutOf, Forwarded
<1> QED
  BY <1>2, <1>3, <1>4

\* Kept pieces as frames.
LEMMA FramesOfKept ==
  ASSUME NEW S \in SUBSET Pieces, NEW s \in Seq(S), \A p \in S : p.kind \in Forwarded
  PROVE  AsFrames(s) \in Seq({f \in Frames : f.kind \in {p.kind : p \in S}})
<1> DEFINE T == {f \in Frames : f.kind \in {p.kind : p \in S}}
<1>1. /\ Len(s) \in Nat /\ DOMAIN s = 1..Len(s) /\ \A i \in 1..Len(s) : s[i] \in S
  BY LenProperties
<1>2. \A p \in S : Frame(p.kind, p.n) \in T
  BY PieceKinds DEF Frame, Frames
<1>3. AsFrames(s) \in [1..Len(s) -> T]
  BY <1>1, <1>2 DEF AsFrames
<1> QED
  BY <1>1, <1>3, SeqDef

---------------------------------------------------------------------------
\* The steps of the shell keep the types.
LEMMA ChildTypeStep ==
  ASSUME ChildTypeOK, ChildStep
  PROVE  ChildTypeOK'
<1> USE DEF ChildTypeOK, Stages, Waiting
<1>0. /\ CmdCodes \subseteq 0..255 /\ RcCodes \subseteq 0..255
      /\ MaxOut \in Nat /\ MaxErr \in Nat /\ MaxNoise \in Nat /\ PtyCap \in Nat
  BY ChildAssumption
<1>1. ASSUME NEW piece \in Pieces, Say(piece)
      PROVE  pty' \in Seq(Pieces) /\ Len(pty') <= PtyCap
  <2>1. CASE "master" \in fds
    BY <1>0, <1>1, <2>1 DEF Say
  <2>2. CASE "master" \notin fds
    BY <1>1, <2>2 DEF Say
  <2> QED
    BY <2>1, <2>2
<1>2. CASE Ask
  BY <1>1, <1>2, PieceKinds DEF Ask, Markers
<1>3. CASE ReadPw
  BY <1>3 DEF ReadPw
<1>4. CASE Sudo
  <2>1. CASE stage' = "boot" /\ UNCHANGED <<status, pty>>
    BY <1>4, <2>1 DEF Sudo
  <2>2. CASE Say(Mark("SudoFailed")) /\ status' = SudoFailedCode /\ stage' = "exiting"
    BY <1>1, <1>4, <2>2, PieceKinds DEF Sudo, Markers, SudoFailedCode
  <2> QED
    BY <1>4, <2>1, <2>2 DEF Sudo
<1>5. CASE MakeNoise
  BY <1>0, <1>1, <1>5, PieceKinds DEF MakeNoise, Noise
<1>6. CASE RcExit
  BY <1>0, <1>6 DEF RcExit
<1>7. CASE Start
  BY <1>1, <1>7, PieceKinds DEF Start, Markers
<1>8. CASE CmdOut
  <2>1. OutOf(Len(said) + 1) \in Pieces
    BY <1>0, <1>8, PieceKinds DEF CmdOut
  <2> QED
    BY <1>0, <1>1, <1>8, <2>1 DEF CmdOut
<1>9. CASE CmdErr
  BY <1>0, <1>9 DEF CmdErr
<1>10. CASE Done
  BY <1>0, <1>1, <1>10, PieceKinds DEF Done, Markers
<1>11. CASE CmdExits
  BY <1>0, <1>11 DEF CmdExits
<1>12. CASE Exit
  BY <1>12 DEF Exit
<1>13. CASE Fork
  BY <1>13 DEF Fork
<1>14. CASE Killed
  BY <1>14 DEF Killed, KilledCode
<1>15. CASE DaemonSpeaks
  BY <1>1, <1>15, PieceKinds DEF DaemonSpeaks, LeftOver
<1>16. CASE DaemonEnds
  BY <1>16 DEF DaemonEnds
<1> QED
  BY <1>2, <1>3, <1>4, <1>5, <1>6, <1>7, <1>8, <1>9, <1>10, <1>11, <1>12, <1>13,
     <1>14, <1>15, <1>16 DEF ChildStep, ScriptStep

\* What is sent is a sequence of frames.
LEMMA SendTypes ==
  ASSUME NEW S, NEW F \in SUBSET S, wire \in Seq(S), NEW frames \in Seq(F), Send(frames)
  PROVE  wire' \in Seq(S)
<1>1. frames \in Seq(S)
  BY SeqMonotonic
<1> QED
  BY <1>1 DEF Send

\* The frames of one piece that is forwarded.
LEMMA ForwardedFrame ==
  ASSUME NEW k \in Forwarded \cup {"err", "SudoFailed", "LockHeld"}, NEW n \in Nat
  PROVE  Frame(k, n) \in Frames /\ Frame(k, n).kind = k /\ Frame(k, n).n = n
BY DEF Frame, Frames

Kept == {p \in Pieces : p.kind \in Forwarded}

\* What is kept back is sent as frames.
LEMMA ReleaseTypes ==
  ASSUME held \in Seq(Kept), wire \in Seq(Frames), ReleaseHeld
  PROVE  wire' \in Seq(Frames) /\ held' = <<>>
<1>1. AsFrames(held) \in Seq({f \in Frames : f.kind \in {p.kind : p \in Kept}})
  BY FramesOfKept DEF Kept
<1> QED
  BY <1>1, SendTypes DEF ReleaseHeld

\* The reader keeps the types.
LEMMA ReadMasterTypes ==
  ASSUME AgentTypeOK, ReadMaster
  PROVE  AgentTypeOK'
<1>0. PtyCap \in Nat /\ HoldLimit \in Nat \ {0} /\ pty # <<>>
  BY ChildAssumption, AgentAssumption DEF ReadMaster
<1>1. /\ pty \in Seq(Pieces) /\ Len(pty) <= PtyCap /\ Len(pty) \in Nat
      /\ held \in Seq(Kept) /\ Len(held) < HoldLimit /\ Len(held) \in Nat
      /\ flags \subseteq {"started", "done", "pwsent", "refused"}
      /\ wire \in Seq(Frames) /\ typed \in BOOLEAN
  BY DEF AgentTypeOK, ChildTypeOK, Kept
<1>2. SUFFICES /\ pty' \in Seq(Pieces) /\ Len(pty') <= PtyCap
               /\ held' \in Seq(Kept) /\ Len(held') < HoldLimit
               /\ flags' \subseteq {"started", "done", "pwsent", "refused"}
               /\ wire' \in Seq(Frames) /\ typed' \in BOOLEAN
  BY <1>2 DEF ReadMaster, Kept, AgentTypeOK, ChildTypeOK
<1> DEFINE piece == Head(pty)
<1>3. piece \in Pieces /\ Tail(pty) \in Seq(Pieces) /\ Len(Tail(pty)) = Len(pty) - 1
  BY <1>0, <1>1, HeadTailProperties
<1>4. Tail(pty) \in Seq(Pieces) /\ Len(Tail(pty)) <= PtyCap
  BY <1>0, <1>1, <1>3
<1> HIDE DEF piece
<1>5. CASE ConsumeOut(piece)
  <2>1. piece \in Kept /\ piece.n \in Nat /\ piece.kind \in Forwarded
    BY <1>3, <1>5, PieceKinds DEF ConsumeOut, Kept
  <2>2. pty' \in Seq(Pieces) /\ Len(pty') <= PtyCap /\ typed' \in BOOLEAN
    BY <1>1, <1>4, <1>5 DEF ConsumeOut
  <2>3. CASE "done" \in flags
    BY <1>1, <1>5, <2>2, <2>3 DEF ConsumeOut
  <2>4. CASE "done" \notin flags /\ ~Holding
    <3>1. <<Frame(piece.kind, piece.n)>> \in Seq(Frames)
      BY <2>1, ForwardedFrame
    <3>2. Send(<<Frame(piece.kind, piece.n)>>) /\ UNCHANGED <<held, flags>>
      BY <1>5, <2>4 DEF ConsumeOut, Stash
    <3>3. wire' \in Seq(Frames)
      BY <1>1, <3>1, <3>2, SendTypes
    <3> QED
      BY <1>1, <2>2, <3>2, <3>3
  <2>5. CASE "done" \notin flags /\ Holding /\ HoldRoom
    <3>1. held' = Append(held, piece) /\ UNCHANGED <<flags, wire>>
      BY <1>5, <2>5 DEF ConsumeOut, Stash
    <3>2. held' \in Seq(Kept) /\ Len(held') = Len(held) + 1
      BY <1>1, <2>1, <3>1
    <3> QED
      BY <1>1, <2>2, <2>5, <3>1, <3>2 DEF HoldRoom
  <2>6. CASE "done" \notin flags /\ Holding /\ ~HoldRoom
    <3>1. /\ Send(AsFrames(Append(held, piece)))
          /\ held' = <<>> /\ flags' = flags \cup {"started"}
      BY <1>5, <2>6 DEF ConsumeOut, Stash
    <3>2. Append(held, piece) \in Seq(Kept)
      BY <1>1, <2>1
    <3>3. AsFrames(Append(held, piece)) \in Seq({f \in Frames : f.kind \in {p.kind : p \in Kept}})
      BY <3>2, FramesOfKept DEF Kept
    <3>4. wire' \in Seq(Frames)
      BY <1>1, <3>1, <3>3, SendTypes
    <3>5. held' \in Seq(Kept) /\ Len(held') < HoldLimit
      BY <1>0, <3>1
    <3> QED
      BY <1>1, <2>2, <3>1, <3>4, <3>5
  <2> QED
    BY <2>3, <2>4, <2>5, <2>6
<1>6. CASE ConsumeBoundary(piece)
  <2>1. held' = held \/ held' = <<>>
    BY <1>6 DEF ConsumeBoundary
  <2>2. held' \in Seq(Kept) /\ Len(held') < HoldLimit
    <3>1. CASE held' = held
      BY <1>1, <3>1
    <3>2. CASE held' = <<>>
      <4>1. Len(held') = 0 /\ HoldLimit \in Nat \ {0}
        BY <1>0, <3>2
      <4> QED
        BY <3>2, <4>1
    <3> QED
      BY <2>1, <3>1, <3>2
  <2> QED
    BY <1>1, <1>4, <1>6, <2>2 DEF ConsumeBoundary
<1>7. CASE ConsumePwReady(piece)
  <2>1. Append(Tail(pty), Password) \in Seq(Pieces) /\ Len(Append(Tail(pty), Password)) <= PtyCap
    BY <1>0, <1>1, <1>3, PieceKinds DEF Password
  <2>2. pty' \in Seq(Pieces) /\ Len(pty') <= PtyCap
    BY <1>4, <1>7, <2>1 DEF ConsumePwReady
  <2> QED
    BY <1>1, <1>7, <2>2 DEF ConsumePwReady
<1>8. CASE ConsumeSudoFailed(piece)
  <2>1. <<Frame("SudoFailed", 0)>> \in Seq(Frames)
    <3>1. Frame("SudoFailed", 0) \in Frames
      BY ForwardedFrame
    <3> QED
      BY <3>1
  <2>2. wire' \in Seq(Frames)
    BY <1>1, <1>8, <2>1, SendTypes DEF ConsumeSudoFailed
  <2> QED
    BY <1>1, <1>4, <1>8, <2>2 DEF ConsumeSudoFailed
<1> QED
  BY <1>5, <1>6, <1>7, <1>8 DEF ReadMaster, piece

\* One frame is sent.
LEMMA SendOneTypes ==
  ASSUME wire \in Seq(Frames), NEW f \in Frames, Send(<<f>>)
  PROVE  wire' \in Seq(Frames)
<1>1. <<f>> \in Seq(Frames)
  OBVIOUS
<1> QED
  BY <1>1, SendTypes

\* The other steps of the agent keep the types.
LEMMA AgentTypeStep ==
  ASSUME AgentTypeOK, AgentStep \/ KillAgent \/ HangAgent \/ OtherEnds
  PROVE  AgentTypeOK'
<1>0. /\ PtyCap \in Nat /\ HoldLimit \in Nat \ {0} /\ MaxErr \in Nat
      /\ <<>> \in Seq(Pieces) /\ <<>> \in Seq(Kept) /\ Len(<<>>) = 0
  BY ChildAssumption, AgentAssumption
<1>00. /\ \A n \in Nat : Frame("err", n) \in Frames
       /\ Frame("LockHeld", 0) \in Frames
       /\ \A n \in 0..255 : Frame("Exit", n) \in Frames
  BY DEF Frame, Frames
<1>000. /\ wire \in Seq(Frames) /\ outcome \in 0..255 /\ held \in Seq(Kept)
        /\ Len(held) < HoldLimit /\ lk \in {"free", "mine", "other"}
        /\ stage \in Stages /\ fds \subseteq {"master", "errpipe"}
  BY DEF AgentTypeOK, ChildTypeOK, Kept
<1>1. CASE ReadRequest
  <2>1. <<Frame("err", 0), Frame("Exit", 1)>> \in Seq(Frames)
    BY <1>00
  <2>2. wire' \in Seq(Frames)
    BY <1>1, <1>000, <2>1, SendTypes DEF ReadRequest
  <2> QED
    BY <1>1, <2>2 DEF ReadRequest, childVars, AgentTypeOK, ChildTypeOK, Gone
<1>2. CASE AcquireLock
  <2>1. wire' \in Seq(Frames)
    BY <1>00, <1>000, <1>2, SendOneTypes DEF AcquireLock
  <2>2. outcome' \in 0..255 /\ lk' \in {"free", "mine", "other"} /\ apc' \in {"spawn", "exit"}
    <3>1. lk \in {"free", "mine", "other"} /\ outcome \in 0..255
      BY <1>000
    <3> QED
      BY <3>1, <1>2 DEF AcquireLock, LockHeldCode, childVars
  <2> QED
    BY <1>2, <2>1, <2>2 DEF AcquireLock, childVars, AgentTypeOK, ChildTypeOK
<1>3. CASE SpawnShell
  <2>1. wire' \in Seq(Frames)
    BY <1>00, <1>000, <1>3, SendOneTypes DEF SpawnShell
  <2>2. /\ outcome' \in 0..255 /\ apc' \in {"release", "pump"}
        /\ stage' \in Stages /\ fds' \subseteq {"master", "errpipe"}
    <3>1. outcome \in 0..255 /\ stage \in Stages /\ fds \subseteq {"master", "errpipe"}
      BY <1>000
    <3>2. /\ outcome' \in {1, NoShellCode, outcome} /\ apc' \in {"release", "pump"}
          /\ stage' \in {"ask", "boot", stage} /\ fds' \in {fds, {"master", "errpipe"}}
      BY <1>3 DEF SpawnShell
    <3> QED
      BY <3>1, <3>2 DEF NoShellCode, Stages
  <2> QED
    BY <1>3, <2>1, <2>2 DEF SpawnShell, AgentTypeOK, ChildTypeOK
<1>4. CASE ReadMaster
  BY <1>4, ReadMasterTypes
<1>5. CASE MasterEnds
  <2>1. wire' \in Seq(Frames) /\ held' = <<>>
    BY <1>000, <1>5, ReleaseTypes DEF MasterEnds
  <2> QED
    BY <1>0, <1>5, <2>1 DEF MasterEnds, Kept, AgentTypeOK, ChildTypeOK
<1>6. CASE ReadErr
  <2>0. erred - errpty + 1 \in Nat
    BY <1>0 DEF AgentTypeOK, ChildTypeOK
  <2>1. wire' \in Seq(Frames)
    BY <1>00, <1>000, <1>6, <2>0, SendOneTypes DEF ReadErr
  <2>2. errpty' \in 0..erred /\ fds' \subseteq fds
    BY <1>0, <1>6 DEF ReadErr, AgentTypeOK, ChildTypeOK
  <2> QED
    BY <1>6, <2>1, <2>2 DEF ReadErr, AgentTypeOK, ChildTypeOK
<1>7. CASE TryWait
  BY <1>7 DEF TryWait, childVars, AgentTypeOK, ChildTypeOK
<1>8. CASE EndDrain
  <2>1. CASE "master" \in fds
    <3>1. wire' \in Seq(Frames) /\ held' = <<>>
      BY <1>000, <1>8, <2>1, ReleaseTypes DEF EndDrain
    <3> QED
      BY <1>0, <1>8, <3>1 DEF EndDrain, Kept, AgentTypeOK, ChildTypeOK
  <2>2. CASE "master" \notin fds
    BY <1>0, <1>8, <2>2 DEF EndDrain, Kept, AgentTypeOK, ChildTypeOK
  <2> QED
    BY <2>1, <2>2
<1>9. CASE Wait
  BY <1>9 DEF Wait, childVars, AgentTypeOK, ChildTypeOK
<1>10. CASE Settle
  BY <1>10 DEF Settle, childVars, SudoFailedCode, AgentTypeOK, ChildTypeOK
<1>11. CASE DropGuard
  BY <1>11 DEF DropGuard, childVars, AgentTypeOK, ChildTypeOK
<1>12. CASE SendExit
  <2>1. wire' \in Seq(Frames)
    BY <1>00, <1>000, <1>12, SendOneTypes DEF SendExit
  <2> QED
    BY <1>12, <2>1 DEF SendExit, childVars, AgentTypeOK, ChildTypeOK, Gone
<1>13. CASE KillAgent
  BY <1>0, <1>13 DEF KillAgent, AgentTypeOK, ChildTypeOK, Gone
<1>14. CASE HangAgent
  BY <1>14 DEF HangAgent, childVars, AgentTypeOK, ChildTypeOK
<1>15. CASE OtherEnds
  BY <1>15 DEF OtherEnds, childVars, AgentTypeOK, ChildTypeOK
<1> QED
  BY <1>1, <1>2, <1>3, <1>4, <1>5, <1>6, <1>7, <1>8, <1>9, <1>10, <1>11, <1>12, <1>13,
     <1>14, <1>15 DEF AgentStep

---------------------------------------------------------------------------
Logged == [kind : Forwarded \cup {"err"}, n : Nat]

\* What a frame is.
LEMMA FrameKinds ==
  ASSUME NEW f \in Frames
  PROVE  /\ f.kind = "Exit" => f.n \in 0..255
         /\ f.kind \in Forwarded \cup {"err"} => f \in Logged
         /\ f.kind \in Forwarded \cup {"err", "SudoFailed", "LockHeld", "Exit"}
BY DEF Frames, Logged, Forwarded

\* What is left of the wire when the connection breaks.
LEMMA PrefixTypes ==
  ASSUME NEW S, NEW s \in Seq(S), NEW t \in Prefixes(s)
  PROVE  t \in Seq(S)
<1>1. PICK n \in 0..Len(s) : t = SubSeq(s, 1, n)
  BY DEF Prefixes
<1>2. Len(s) \in Nat /\ \A i \in 1..n : s[i] \in S
  BY LenProperties, ElementOfSeq
<1> QED
  BY <1>1, <1>2, SubSeqProperties

\* Reading a frame keeps the types.
LEMMA ReadFrameTypes ==
  ASSUME TypeOK, ReadFrame
  PROVE  TypeOK'
<1>1. /\ wire \in Seq(Frames) /\ wire # <<>> /\ log \in Seq(Logged)
      /\ exit \in 0..256 /\ signs \subseteq {"sudo", "lock", "need", "stalled"}
  BY DEF TypeOK, AgentTypeOK, ReadFrame, Logged, NoExit
<1> DEFINE f == Head(wire)
<1>2. f \in Frames /\ Tail(wire) \in Seq(Frames)
  BY <1>1, HeadTailProperties
<1>3. wire' \in Seq(Frames)
  BY <1>2 DEF ReadFrame
<1>4. exit' \in 0..256 /\ cpc' \in {"stderr", "frames"}
  <2>1. f.kind = "Exit" => f.n \in 0..255
    BY <1>2, FrameKinds
  <2>2. exit' \in {exit, f.n} /\ (exit' # exit => f.kind = "Exit" /\ exit' = f.n)
    BY DEF ReadFrame
  <2> QED
    BY <1>1, <2>1, <2>2 DEF ReadFrame
<1>5. signs' \subseteq {"sudo", "lock", "need", "stalled"}
  BY <1>1 DEF ReadFrame, Heard
<1>6. log' \in Seq(Logged)
  <2>1. CASE f.kind \in Forwarded \cup {"err"}
    <3>1. log' = Append(log, f) /\ f \in Logged
      BY <1>2, <2>1, FrameKinds DEF ReadFrame
    <3> QED
      BY <1>1, <3>1
  <2>2. CASE f.kind \notin Forwarded \cup {"err"}
    BY <1>1, <2>2 DEF ReadFrame
  <2> QED
    BY <2>1, <2>2
<1>7. AgentTypeOK'
  <2>1. /\ UNCHANGED <<apc, held, flags, outcome, lk, link>> /\ UNCHANGED childVars
    BY DEF ReadFrame
  <2>2. ChildTypeOK'
    BY <2>1 DEF TypeOK, AgentTypeOK, ChildTypeOK, childVars
  <2> QED
    BY <1>3, <2>1, <2>2 DEF TypeOK, AgentTypeOK
<1>8. UNCHANGED <<attempt, installed, verdict>>
  BY DEF ReadFrame
<1> QED
  BY <1>4, <1>5, <1>6, <1>7, <1>8 DEF TypeOK, Logged, NoExit

\* The session's variables keep their types.
LEMMA TypeStep ==
  ASSUME TypeOK, [Next]_vars
  PROVE  TypeOK'
<1> USE DEF childVars, agentVars, clientVars
<1>1. CASE ChildStep /\ UNCHANGED <<agentVars, clientVars>>
  BY <1>1, ChildTypeStep DEF TypeOK, AgentTypeOK
<1>2. CASE (AgentStep \/ KillAgent \/ HangAgent \/ OtherEnds) /\ UNCHANGED clientVars
  BY <1>2, AgentTypeStep DEF TypeOK
<1>3. CASE Dial
  <2>1. apc' \in {"request", "missing", apc}
    BY <1>3 DEF Dial
  <2>2. wire' \in Seq(Frames)
    <3>1. wire' = wire \/ wire' = <<>>
      BY <1>3 DEF Dial
    <3>2. wire \in Seq(Frames) /\ <<>> \in Seq(Frames)
      BY DEF TypeOK, AgentTypeOK
    <3> QED
      BY <3>1, <3>2
  <2>3. link' \in {"up", link} /\ cpc' \in {"frames", "judge"} /\ exit' = NoExit /\ signs' = {}
    BY <1>3 DEF Dial
  <2>4. UNCHANGED <<attempt, log, installed, verdict, held, flags, outcome, lk, childVars>>
    BY <1>3 DEF Dial
  <2> QED
    BY <2>1, <2>2, <2>3, <2>4 DEF TypeOK, AgentTypeOK, ChildTypeOK, NoExit, Gone
<1>4. CASE ReadFrame
  BY <1>4, ReadFrameTypes
<1>5. CASE EndOfFrames
  BY <1>5 DEF EndOfFrames, TypeOK, AgentTypeOK, ChildTypeOK
<1>6. CASE Stall
  BY <1>6 DEF Stall, TypeOK, AgentTypeOK, ChildTypeOK
<1>7. CASE EndOfStderr
  BY <1>7 DEF EndOfStderr, TypeOK, AgentTypeOK, ChildTypeOK
<1>8. CASE Install
  <2>1. installed' \in BOOLEAN
    BY <1>8, Zenon DEF Install, TypeOK
  <2>2. /\ attempt' \in {2, attempt} /\ cpc' \in {"dial", "told"}
        /\ verdict' \in {"noagent", verdict}
        /\ UNCHANGED <<exit, signs, log, agentVars, childVars>>
    BY <1>8 DEF Install
  <2> QED
    BY <2>1, <2>2 DEF TypeOK, AgentTypeOK, ChildTypeOK
<1>9. CASE Judge
  BY <1>9 DEF Judge, Verdict, TypeOK, AgentTypeOK, ChildTypeOK
<1>10. CASE Banner
  BY <1>10 DEF Banner, TypeOK, AgentTypeOK, ChildTypeOK
<1>11. CASE Abort
  BY <1>11 DEF Abort, TypeOK, AgentTypeOK, ChildTypeOK
<1>12. CASE Cut
  <2>1. wire' \in Seq(Frames)
    BY <1>12, PrefixTypes DEF Cut, TypeOK, AgentTypeOK
  <2> QED
    BY <1>12, <2>1 DEF Cut, TypeOK, AgentTypeOK, ChildTypeOK
<1>13. CASE GiveUp
  BY <1>13 DEF GiveUp, TypeOK, AgentTypeOK, ChildTypeOK
<1>14. CASE Sweep
  <2>1. installed' \in BOOLEAN
    BY <1>14, Zenon DEF Sweep
  <2>2. UNCHANGED <<cpc, attempt, exit, signs, log, verdict, agentVars, childVars>>
    BY <1>14 DEF Sweep
  <2> QED
    BY <2>1, <2>2 DEF TypeOK, AgentTypeOK, ChildTypeOK
<1>15. CASE UNCHANGED vars
  BY <1>15 DEF vars, TypeOK, AgentTypeOK, ChildTypeOK
<1> QED
  BY <1>1, <1>2, <1>3, <1>4, <1>5, <1>6, <1>7, <1>8, <1>9, <1>10, <1>11, <1>12, <1>13,
     <1>14, <1>15 DEF Next, ClientStep

\* Every reachable state of a session is one of its types: what is read back
\* of the shell is never longer than STARTUP_HOLD_LIMIT, the terminal never
\* fuller than it can be.
THEOREM SessionTypeCorrect == Spec => []TypeOK
<1>1. Init => TypeOK
  <2> SUFFICES ASSUME Init PROVE TypeOK
    OBVIOUS
  <2>1. ChildTypeOK
    <3>1. /\ MaxOut \in Nat /\ MaxErr \in Nat /\ MaxNoise \in Nat /\ PtyCap \in Nat
          /\ <<>> \in Seq(Pieces) /\ Len(<<>>) = 0
      BY ChildAssumption
    <3>2. pty = <<>> /\ said = <<>>
      BY DEF Init, ChildInit
    <3>3. /\ pty \in Seq(Pieces) /\ Len(pty) <= PtyCap
          /\ said \in Seq(Pieces) /\ Len(said) <= MaxOut
      BY <3>1, <3>2
    <3>4. echo \in BOOLEAN /\ typed \in BOOLEAN /\ daemon \in BOOLEAN /\ bracketed \in BOOLEAN
      BY DEF Init, ChildInit
    <3>5. /\ stage \in Stages /\ status \in 0..255 /\ erred \in 0..MaxErr /\ errpty \in 0..erred
          /\ fds \subseteq {"master", "errpipe"} /\ noise \in 0..(MaxNoise + 1) /\ ran \in Nat
      BY <3>1 DEF Init, ChildInit, Stages, Waiting
    <3> QED
      BY <3>3, <3>4, <3>5 DEF ChildTypeOK
  <2>2. AgentTypeOK
    BY <2>1, AgentAssumption DEF Init, AgentInit, AgentTypeOK, Gone
  <2> QED
    BY <2>2 DEF Init, ClientInit, TypeOK, NoExit
<1> QED
  BY <1>1, TypeStep, PTL DEF Spec

---------------------------------------------------------------------------
\* sudo has refused the password: the script is on its way out, and has not
\* started the command.
SudoRefused == ran = 0 /\ stage \in {"exiting", "closed", "exited"}

\* The lock was another run's: the agent is on its way out without a shell.
LockRefused == stage = "none" /\ apc \in {"exit", "over", "hung", "dead"}

\* What the agent reports of a run that is over.
Reported(n) ==
  \/ stage = "exited" /\ (n = status \/ (n = SudoFailedCode /\ ran = 0))
  \/ stage = "none" /\ n \in {1, LockHeldCode, NoShellCode}

\* What may be on the way from the shell to the log.
CleanPieces ==
  {p \in Pieces : /\ p.kind # "password"
                  /\ p.kind = "PwReady" /\ "pwsent" \notin flags => ~echo
                  /\ p.kind = "SudoFailed" => SudoRefused}
CleanKept == {p \in Kept : p.kind # "password"}
CleanFrames ==
  {f \in Frames : /\ f.kind # "password"
                  /\ f.kind = "Exit" => apc = "over" /\ Reported(f.n)
                  /\ f.kind = "SudoFailed" => SudoRefused
                  /\ f.kind = "LockHeld" => LockRefused}
CleanLog == {f \in Logged : f.kind # "password"}

CleanStreams ==
  /\ pty \in Seq(CleanPieces) /\ held \in Seq(CleanKept)
  /\ wire \in Seq(CleanFrames) /\ log \in Seq(CleanLog)
  /\ typed => "pwsent" \in flags

\* Where the script is, and what it has done.
ScriptInv ==
  /\ stage \in {"none", "ask", "pwread", "sudo", "boot"} => ran = 0 /\ status = 0
  /\ stage \in {"cmd", "unwind"} => ran = 1
  /\ ran \in {0, 1}
  /\ "refused" \in flags => SudoRefused

\* Where the agent is, and what it has in hand.
AgentInv ==
  /\ apc \in {"off", "missing", "request", "lock", "spawn"} => stage = "none"
  /\ apc \in {"off", "missing", "request", "lock", "exit", "over"} => lk # "mine"
  /\ apc \in {"drain", "settle", "release", "exit"} => Reported(outcome)

\* What the client has read is true of the host.
ClientInv ==
  /\ cpc = "dial" => apc \in {"off", "missing"}
  /\ "need" \in signs => apc = "missing"
  /\ "sudo" \in signs => SudoRefused
  /\ "lock" \in signs => LockRefused
  /\ exit # NoExit => apc = "over" /\ Reported(exit)

SessionInv == CleanStreams /\ ScriptInv /\ AgentInv /\ ClientInv

\* The statuses that stand for something else: 111 and 125 for a command that
\* did not run, 0 of an rc file for one that ended well.
PlainCodes == CmdCodes \cap {SudoFailedCode, LockHeldCode} = {} /\ 0 \notin RcCodes

\* A command that has not started is not going to.
NeverStarts ==
  \/ stage \in {"exiting", "closed", "exited"}
  \/ stage = "none" /\ apc \notin {"request", "lock", "spawn"}

\* What the operator was told is true, and stays so.
ToldInv ==
  /\ ran > 0 => status \notin {SudoFailedCode, LockHeldCode}
  /\ SudoRefused => status # 0
  /\ cpc = "told" <=> verdict # "nothing"
  /\ verdict \in {"ok", "failed", "sudo", "lock", "noagent"} => NeverStarts
  /\ verdict \in {"sudo", "lock", "noagent"} => ran = 0
  /\ verdict = "ok" => Host = "ok"

\* What the script does to what is known of it.
LEMMA ScriptStepFacts ==
  ASSUME TypeOK, ScriptInv, typed => "pwsent" \in flags, ChildStep, UNCHANGED agentVars
  PROVE  /\ ScriptInv'
         /\ SudoRefused => SudoRefused'
         /\ stage = "none" => stage' = "none" /\ ran' = ran
         /\ stage = "exited" => stage' = "exited" /\ status' = status /\ ran' = ran
         /\ "pwsent" \notin flags /\ ~echo => ~echo'
<1> USE DEF ScriptInv, SudoRefused, agentVars, Waiting
<1>1. CASE Ask
  BY <1>1 DEF Ask
<1>2. CASE ReadPw
  BY <1>2 DEF ReadPw
<1>3. CASE Sudo
  BY <1>3 DEF Sudo, SudoFailedCode
<1>4. CASE MakeNoise \/ CmdOut \/ CmdErr \/ Fork \/ DaemonSpeaks \/ DaemonEnds
  BY <1>4 DEF MakeNoise, CmdOut, CmdErr, Fork, DaemonSpeaks, DaemonEnds
<1>5. CASE RcExit
  BY <1>5 DEF RcExit
<1>6. CASE Start
  BY <1>6 DEF Start
<1>7. CASE Done \/ CmdExits
  BY <1>7 DEF Done, CmdExits
<1>8. CASE Exit
  BY <1>8 DEF Exit
<1>9. CASE Killed
  BY <1>9 DEF Killed, KilledCode, TypeOK, AgentTypeOK, ChildTypeOK, Stages
<1> QED
  BY <1>1, <1>2, <1>3, <1>4, <1>5, <1>6, <1>7, <1>8, <1>9 DEF ChildStep, ScriptStep

\* What the script says is clean.
LEMMA ScriptSpeaksClean ==
  ASSUME TypeOK, SessionInv, ChildStep, UNCHANGED agentVars
  PROVE  pty' \in Seq(CleanPieces')
<1>1. /\ ScriptInv' /\ (SudoRefused => SudoRefused')
      /\ "pwsent" \notin flags /\ ~echo => ~echo'
  BY ScriptStepFacts DEF SessionInv, CleanStreams
<1>2. CleanPieces \subseteq CleanPieces'
  BY <1>1 DEF CleanPieces, agentVars
<1>3. pty \in Seq(CleanPieces')
  BY <1>2, SeqMonotonic DEF SessionInv, CleanStreams
<1>4. ASSUME NEW piece \in CleanPieces', Say(piece) PROVE pty' \in Seq(CleanPieces')
  BY <1>3, <1>4 DEF Say
<1>5. CASE UNCHANGED pty
  BY <1>3, <1>5
<1>6. ASSUME NEW piece \in Pieces, Say(piece),
             piece.kind \in {"noise", "leftover", "out", "Started", "Done"}
      PROVE  pty' \in Seq(CleanPieces')
  BY <1>4, <1>6 DEF CleanPieces
<1>7. CASE Ask
  <2>1. Mark("PwReady") \in Pieces /\ Mark("PwReady").kind = "PwReady" /\ ~echo'
    BY <1>7, PieceKinds DEF Ask, Markers
  <2>2. Mark("PwReady") \in CleanPieces'
    BY <2>1 DEF CleanPieces
  <2> QED
    BY <1>4, <1>7, <2>2 DEF Ask
<1>8. CASE Sudo /\ Say(Mark("SudoFailed")) /\ stage' = "exiting"
  <2>1. Mark("SudoFailed") \in Pieces /\ Mark("SudoFailed").kind = "SudoFailed"
    BY PieceKinds DEF Markers
  <2>2. SudoRefused'
    BY <1>8 DEF Sudo, SessionInv, ScriptInv, SudoRefused
  <2>3. Mark("SudoFailed") \in CleanPieces'
    BY <2>1, <2>2 DEF CleanPieces
  <2> QED
    BY <1>4, <1>8, <2>3
<1>9. CASE MakeNoise
  BY <1>6, <1>9, PieceKinds DEF MakeNoise, Noise
<1>10. CASE Start
  BY <1>6, <1>10, PieceKinds DEF Start, Markers
<1>11. CASE CmdOut
  <2>1. OutOf(Len(said) + 1) \in Pieces /\ OutOf(Len(said) + 1).kind = "out"
    <3>1. Len(said) + 1 \in 1..MaxOut
      BY <1>11, ChildAssumption DEF CmdOut, TypeOK, AgentTypeOK, ChildTypeOK
    <3> QED
      BY <3>1, PieceKinds
  <2> QED
    BY <1>6, <1>11, <2>1 DEF CmdOut
<1>12. CASE Done
  BY <1>6, <1>12, PieceKinds DEF Done, Markers
<1>13. CASE DaemonSpeaks
  BY <1>6, <1>13, PieceKinds DEF DaemonSpeaks, LeftOver
<1>14. UNCHANGED pty \/ Ask \/ (Sudo /\ Say(Mark("SudoFailed")) /\ stage' = "exiting")
         \/ MakeNoise \/ Start \/ CmdOut \/ Done \/ DaemonSpeaks
  BY DEF ChildStep, ScriptStep, ReadPw, Sudo, RcExit, CmdErr, CmdExits, Exit, Fork, Killed, DaemonEnds
<1> QED
  BY <1>5, <1>7, <1>8, <1>9, <1>10, <1>11, <1>12, <1>13, <1>14

\* The steps of the shell.
LEMMA ChildStepInv ==
  ASSUME TypeOK, SessionInv, ChildStep, UNCHANGED <<agentVars, clientVars>>
  PROVE  SessionInv'
<1>1. /\ ScriptInv' /\ (SudoRefused => SudoRefused')
      /\ stage = "none" => stage' = "none" /\ ran' = ran
      /\ stage = "exited" => stage' = "exited" /\ status' = status /\ ran' = ran
  BY ScriptStepFacts DEF SessionInv, CleanStreams
<1>2. LockRefused => LockRefused'
  BY <1>1 DEF LockRefused, agentVars
<1>3. \A n : Reported(n) => Reported(n)'
  BY <1>1 DEF Reported
<1>4. CleanFrames \subseteq CleanFrames'
  BY <1>1, <1>2, <1>3 DEF CleanFrames, agentVars
<1>5. CleanStreams'
  <2>1. pty' \in Seq(CleanPieces')
    BY ScriptSpeaksClean
  <2>2. wire \in Seq(CleanFrames')
    BY <1>4, SeqMonotonic DEF SessionInv, CleanStreams
  <2>3. UNCHANGED <<held, wire, log, flags>> /\ (typed' => typed)
    BY DEF agentVars, clientVars, ChildStep, ScriptStep, Ask, ReadPw, Sudo, MakeNoise, RcExit,
           Start, CmdOut, CmdErr, Done, CmdExits, Exit, Fork, Killed, DaemonSpeaks, DaemonEnds
  <2> QED
    BY <2>1, <2>2, <2>3 DEF SessionInv, CleanStreams, CleanKept, Kept, CleanLog
<1>6. AgentInv'
  BY <1>1, <1>3 DEF SessionInv, AgentInv, agentVars
<1>7. ClientInv'
  BY <1>1, <1>2, <1>3 DEF SessionInv, ClientInv, agentVars, clientVars
<1> QED
  BY <1>1, <1>5, <1>6, <1>7 DEF SessionInv

\* Sending clean frames keeps the wire clean.
LEMMA SendClean ==
  ASSUME NEW S, NEW T, S \subseteq T, wire \in Seq(S), NEW frames \in Seq(T), Send(frames)
  PROVE  wire' \in Seq(T)
<1>1. wire \in Seq(T)
  BY SeqMonotonic
<1> QED
  BY <1>1 DEF Send

\* Frames of what is kept back are clean whatever the state is.
LEMMA KeptIsClean ==
  ASSUME NEW s \in Seq(CleanKept)
  PROVE  AsFrames(s) \in Seq(CleanFrames')
<1> DEFINE F == {f \in Frames : f.kind \in {p.kind : p \in CleanKept}}
<1>1. AsFrames(s) \in Seq(F)
  BY FramesOfKept DEF CleanKept, Kept
<1>2. F \subseteq CleanFrames'
  BY DEF CleanKept, Kept, Forwarded, CleanFrames
<1> QED
  BY <1>1, <1>2, SeqMonotonic

\* An agent that takes a step has sent no Exit frame, and its client knows of
\* none and has not dialled anew.
LEMMA AgentAtWork ==
  ASSUME SessionInv, apc \notin Gone
  PROVE  /\ exit = NoExit /\ cpc # "dial" /\ "need" \notin signs
         /\ \A f \in CleanFrames : f.kind # "Exit"
BY DEF SessionInv, ClientInv, CleanFrames, Gone

\* Reading one piece keeps the streams clean.
LEMMA ReadMasterInv ==
  ASSUME TypeOK, SessionInv, ReadMaster, UNCHANGED clientVars
  PROVE  SessionInv'
<1>0. /\ apc \in {"pump", "drain"} /\ pty # <<>>
      /\ UNCHANGED <<apc, outcome, lk, link, stage, status, echo, ran>>
  BY DEF ReadMaster, Reading
<1>1. /\ pty \in Seq(CleanPieces) /\ held \in Seq(CleanKept) /\ wire \in Seq(CleanFrames)
      /\ log \in Seq(CleanLog) /\ (typed => "pwsent" \in flags)
  BY DEF SessionInv, CleanStreams
<1>2. CleanFrames \subseteq CleanFrames'
  BY <1>0 DEF CleanFrames, SudoRefused, LockRefused, Reported
<1> DEFINE piece == Head(pty)
<1>3. piece \in CleanPieces /\ Tail(pty) \in Seq(CleanPieces)
  BY <1>0, <1>1, HeadTailProperties
<1>4. ASSUME NEW frame \in CleanFrames', Send(<<frame>>) PROVE wire' \in Seq(CleanFrames')
  <2>1. <<frame>> \in Seq(CleanFrames')
    OBVIOUS
  <2> QED
    BY <1>1, <1>2, <1>4, <2>1, SendClean
<1>5. UNCHANGED wire => wire' \in Seq(CleanFrames')
  BY <1>1, <1>2, SeqMonotonic
<1>6. "pwsent" \in flags => "pwsent" \in flags'
  BY DEF ReadMaster, ConsumeOut, Stash, ConsumeBoundary, ConsumePwReady, ConsumeSudoFailed
<1>7. CleanPieces \subseteq CleanPieces'
  BY <1>0, <1>6 DEF CleanPieces, SudoRefused
<1>8. Tail(pty) \in Seq(CleanPieces')
  BY <1>3, <1>7, SeqMonotonic
<1> HIDE DEF piece
<1>9. /\ pty' \in Seq(CleanPieces') /\ held' \in Seq(CleanKept) /\ wire' \in Seq(CleanFrames')
      /\ typed' => "pwsent" \in flags'
      /\ "refused" \in flags' => SudoRefused
  <2>0. "refused" \in flags => SudoRefused
    BY DEF SessionInv, ScriptInv
  <2>1. CASE ConsumeOut(piece)
    <3>1. piece \in CleanKept /\ piece.n \in Nat
      BY <1>3, <2>1, PieceKinds DEF ConsumeOut, CleanPieces, CleanKept, Kept
    <3>2. pty' \in Seq(CleanPieces') /\ (typed' => "pwsent" \in flags')
      BY <1>1, <1>6, <1>8, <2>1 DEF ConsumeOut, piece
    <3>3. "refused" \in flags' => "refused" \in flags
      BY <2>1 DEF ConsumeOut, Stash
    <3>4. held' \in Seq(CleanKept) /\ wire' \in Seq(CleanFrames')
      <4>1. CASE "done" \in flags
        BY <1>1, <1>5, <2>1, <4>1 DEF ConsumeOut
      <4>2. CASE "done" \notin flags /\ ~Holding
        <5>1. Frame(piece.kind, piece.n) \in CleanFrames'
          BY <3>1, ForwardedFrame DEF CleanKept, Kept, CleanFrames, Forwarded
        <5> QED
          BY <1>1, <1>4, <2>1, <4>2, <5>1 DEF ConsumeOut, Stash
      <4>3. CASE "done" \notin flags /\ Holding /\ HoldRoom
        <5>1. held' = Append(held, piece) /\ UNCHANGED wire
          BY <2>1, <4>3 DEF ConsumeOut, Stash
        <5> QED
          BY <1>1, <1>5, <3>1, <5>1
      <4>4. CASE "done" \notin flags /\ Holding /\ ~HoldRoom
        <5>1. Send(AsFrames(Append(held, piece))) /\ held' = <<>>
          BY <2>1, <4>4 DEF ConsumeOut, Stash
        <5>2. Append(held, piece) \in Seq(CleanKept)
          BY <1>1, <3>1
        <5>3. AsFrames(Append(held, piece)) \in Seq(CleanFrames')
          BY <5>2, KeptIsClean
        <5>4. wire' \in Seq(CleanFrames')
          BY <1>1, <1>2, <5>1, <5>3, SendClean
        <5> QED
          BY <5>1, <5>4
      <4> QED
        BY <4>1, <4>2, <4>3, <4>4
    <3> QED
      BY <2>0, <3>2, <3>3, <3>4
  <2>2. CASE ConsumeBoundary(piece)
    <3>1. held' = held \/ held' = <<>>
      BY <2>2 DEF ConsumeBoundary
    <3>4. held \in Seq(CleanKept) /\ <<>> \in Seq(CleanKept)
      BY <1>1
    <3>2. held' \in Seq(CleanKept)
      BY <3>1, <3>4
    <3>3. /\ pty' = Tail(pty) /\ UNCHANGED <<typed, wire>>
          /\ "refused" \in flags' => "refused" \in flags
      BY <2>2 DEF ConsumeBoundary
    <3> QED
      BY <1>1, <1>5, <1>6, <1>8, <2>0, <3>2, <3>3
  <2>3. CASE ConsumePwReady(piece)
    <3>1. UNCHANGED <<held, wire>> /\ ("refused" \in flags' => "refused" \in flags)
      BY <2>3 DEF ConsumePwReady
    <3>2. CASE "pwsent" \in flags
      BY <1>1, <1>5, <1>8, <2>0, <2>3, <3>1, <3>2 DEF ConsumePwReady
    <3>3. CASE "pwsent" \notin flags
      <4>1. ~echo
        BY <1>3, <2>3, <3>3 DEF ConsumePwReady, CleanPieces
      <4>2. pty' = Tail(pty) /\ "pwsent" \in flags'
        BY <2>3, <3>3, <4>1 DEF ConsumePwReady
      <4> QED
        BY <1>1, <1>5, <1>8, <2>0, <3>1, <4>2
    <3> QED
      BY <3>2, <3>3
  <2>4. CASE ConsumeSudoFailed(piece)
    <3>1. SudoRefused
      BY <1>3, <2>4 DEF ConsumeSudoFailed, CleanPieces
    <3>4. Frame("SudoFailed", 0) \in Frames /\ Frame("SudoFailed", 0).kind = "SudoFailed"
      BY ForwardedFrame
    <3>5. SudoRefused'
      BY <1>0, <3>1 DEF SudoRefused
    <3>2. Frame("SudoFailed", 0) \in CleanFrames'
      BY <3>4, <3>5 DEF CleanFrames
    <3>3. wire' \in Seq(CleanFrames')
      BY <1>4, <2>4, <3>2 DEF ConsumeSudoFailed
    <3> QED
      BY <1>1, <1>6, <1>8, <2>4, <3>1, <3>3 DEF ConsumeSudoFailed
  <2> QED
    BY <2>1, <2>2, <2>3, <2>4 DEF ReadMaster, piece
<1>10. CleanStreams'
  BY <1>1, <1>9 DEF CleanStreams, clientVars, CleanKept, Kept, CleanLog
<1>11. ScriptInv'
  BY <1>0, <1>9 DEF SessionInv, ScriptInv, SudoRefused
<1>12. AgentInv' /\ ClientInv'
  BY <1>0 DEF SessionInv, AgentInv, ClientInv, clientVars, Reported, SudoRefused, LockRefused
<1> QED
  BY <1>10, <1>11, <1>12 DEF SessionInv

\* The other steps of the agent.
LEMMA AgentStepInv ==
  ASSUME TypeOK, SessionInv, AgentStep \/ KillAgent \/ HangAgent \/ OtherEnds,
         UNCHANGED clientVars
  PROVE  SessionInv'
<1>0. /\ apc \notin Gone /\ exit = NoExit /\ cpc # "dial" /\ "need" \notin signs
      /\ \A f \in CleanFrames : f.kind # "Exit"
  <2>1. apc \notin Gone
    BY DEF Gone, AgentStep, ReadRequest, AcquireLock, SpawnShell, ReadMaster, MasterEnds, ReadErr,
           TryWait, EndDrain, Wait, Settle, DropGuard, SendExit, KillAgent, HangAgent, OtherEnds,
           Reading
  <2> QED
    BY <2>1, AgentAtWork
<1>1. /\ pty \in Seq(CleanPieces) /\ held \in Seq(CleanKept) /\ wire \in Seq(CleanFrames)
      /\ log \in Seq(CleanLog) /\ (typed => "pwsent" \in flags)
      /\ <<>> \in Seq(CleanKept)
  BY DEF SessionInv, CleanStreams
<1>2. UNCHANGED <<cpc, exit, signs, log>>
  BY DEF clientVars
\* What a step has to show that leaves the script as it is.
<1>3. ASSUME UNCHANGED <<stage, status, echo, ran>>, LockRefused => LockRefused',
             CleanFrames \subseteq CleanFrames' => wire' \in Seq(CleanFrames'),
             pty' \in {pty, <<>>}, held' \in {held, <<>>}, UNCHANGED typed,
             flags' \in {flags, flags \cup {"started"}}, AgentInv'
      PROVE  SessionInv'
  <2>1. SudoRefused' = SudoRefused
    BY <1>3 DEF SudoRefused
  <2>2. CleanFrames \subseteq CleanFrames' /\ CleanPieces \subseteq CleanPieces'
    BY <1>0, <1>3, <2>1 DEF CleanFrames, CleanPieces
  <2>3. pty' \in Seq(CleanPieces')
    <3>1. pty \in Seq(CleanPieces') /\ <<>> \in Seq(CleanPieces')
      BY <1>1, <2>2, SeqMonotonic
    <3> QED
      BY <1>3, <3>1
  <2>4. held' \in Seq(CleanKept')
    <3>1. CleanKept' = CleanKept
      BY DEF CleanKept, Kept
    <3> QED
      BY <1>1, <1>3, <3>1
  <2>5. CleanStreams'
    BY <1>1, <1>2, <1>3, <2>2, <2>3, <2>4 DEF CleanStreams, CleanLog
  <2>6. ScriptInv'
    BY <1>3, <2>1 DEF SessionInv, ScriptInv
  <2>7. ClientInv'
    BY <1>0, <1>2, <1>3, <2>1 DEF SessionInv, ClientInv
  <2> QED
    BY <1>3, <2>5, <2>6, <2>7 DEF SessionInv
<1>4. ASSUME NEW frame \in CleanFrames', Send(<<frame>>), CleanFrames \subseteq CleanFrames'
      PROVE  wire' \in Seq(CleanFrames')
  <2>1. <<frame>> \in Seq(CleanFrames')
    OBVIOUS
  <2> QED
    BY <1>1, <1>4, <2>1, SendClean
<1>5. ASSUME UNCHANGED wire, CleanFrames \subseteq CleanFrames'
      PROVE  wire' \in Seq(CleanFrames')
  BY <1>1, <1>5, SeqMonotonic
<1>6. \A n \in Nat : Frame("err", n) \in CleanFrames'
  BY ForwardedFrame DEF CleanFrames
<1>7. AgentInv /\ (\A n : UNCHANGED <<stage, status, ran>> => Reported(n)' = Reported(n))
  BY DEF SessionInv, Reported
<1>8. CASE ReadRequest
  <2>1. UNCHANGED <<stage, status, echo, ran, pty, held, typed, flags, lk>>
    BY <1>8 DEF ReadRequest, childVars
  <2>2. AgentInv'
    BY <1>8, <2>1, <1>7 DEF ReadRequest, AgentInv
  <2>3. (LockRefused => LockRefused') /\ UNCHANGED wire
    BY <1>8 DEF ReadRequest, LockRefused, Send
  <2> QED
    BY <1>3, <1>5, <2>1, <2>2, <2>3
<1>9. CASE AcquireLock
  <2>1. UNCHANGED <<stage, status, echo, ran, pty, held, typed, flags>> /\ apc = "lock"
    BY <1>9 DEF AcquireLock, childVars
  <2>2. AgentInv'
    BY <1>9, <2>1, <1>7 DEF AcquireLock, AgentInv, Reported
  <2>3. LockRefused => LockRefused'
    BY <2>1 DEF LockRefused
  <2>4. ASSUME apc' = "exit" PROVE Frame("LockHeld", 0) \in CleanFrames'
    <3>1. LockRefused'
      BY <1>7, <2>1, <2>4 DEF LockRefused, AgentInv
    <3>2. Frame("LockHeld", 0) \in Frames /\ Frame("LockHeld", 0).kind = "LockHeld"
      BY ForwardedFrame
    <3> QED
      BY <3>1, <3>2 DEF CleanFrames
  <2>5. CleanFrames \subseteq CleanFrames' => wire' \in Seq(CleanFrames')
    BY <1>4, <1>5, <1>6, <1>9, <2>4 DEF AcquireLock
  <2> QED
    BY <1>3, <2>1, <2>2, <2>3, <2>5
<1>10. CASE SpawnShell
  <2>1. /\ apc = "spawn" /\ UNCHANGED <<status, echo, ran, pty, held, typed, flags, lk>>
        /\ stage = "none" /\ stage' \in {"none", "ask", "boot"}
    BY <1>7, <1>10 DEF SpawnShell, AgentInv
  <2>2. CASE UNCHANGED stage
    <3>1. AgentInv'
      BY <1>7, <1>10, <2>1, <2>2 DEF SpawnShell, AgentInv, Reported
    <3>2. LockRefused => LockRefused'
      BY <2>1 DEF LockRefused
    <3>3. CleanFrames \subseteq CleanFrames' => wire' \in Seq(CleanFrames')
      BY <1>4, <1>5, <1>6, <1>10 DEF SpawnShell
    <3> QED
      BY <1>3, <2>1, <2>2, <3>1, <3>2, <3>3
  <2>3. CASE stage' \in {"ask", "boot"}
    <3>1. apc' = "pump" /\ UNCHANGED wire
      BY <1>10, <2>1, <2>3 DEF SpawnShell
    <3>2. ~SudoRefused /\ ~LockRefused
      BY <2>1 DEF SudoRefused, LockRefused
    <3>3. CleanFrames \subseteq CleanFrames' /\ CleanPieces \subseteq CleanPieces'
      BY <1>0, <2>1, <3>2 DEF CleanFrames, CleanPieces
    <3>4. CleanStreams'
      <4>1. pty \in Seq(CleanPieces') /\ wire \in Seq(CleanFrames')
        BY <1>1, <3>3, SeqMonotonic
      <4> QED
        BY <1>1, <1>2, <2>1, <3>1, <4>1 DEF CleanStreams, CleanKept, Kept, CleanLog
    <3>5. ScriptInv' /\ AgentInv' /\ ClientInv'
      BY <1>0, <1>2, <2>1, <2>3, <3>1, <3>2 DEF SessionInv, ScriptInv, AgentInv, ClientInv
    <3> QED
      BY <3>4, <3>5 DEF SessionInv
  <2> QED
    BY <2>1, <2>2, <2>3
<1>11. CASE ReadMaster
  BY <1>11, ReadMasterInv
<1>12. CASE MasterEnds
  <2>1. /\ UNCHANGED <<stage, status, echo, ran, pty, typed, apc, lk, outcome>> /\ held' = <<>>
        /\ flags' = flags \cup {"started"}
    BY <1>12 DEF MasterEnds, ReleaseHeld
  <2>2. AgentInv' /\ (LockRefused => LockRefused')
    BY <1>7, <2>1 DEF AgentInv, LockRefused
  <2>3. CleanFrames \subseteq CleanFrames' => wire' \in Seq(CleanFrames')
    BY <1>1, <1>12, KeptIsClean, SendClean DEF MasterEnds, ReleaseHeld
  <2> QED
    BY <1>3, <2>1, <2>2, <2>3
<1>13. CASE ReadErr
  <2>1. UNCHANGED <<stage, status, echo, ran, pty, typed, apc, lk, outcome, held, flags>>
    BY <1>13 DEF ReadErr
  <2>2. AgentInv' /\ (LockRefused => LockRefused')
    BY <1>7, <2>1 DEF AgentInv, LockRefused
  <2>3. CleanFrames \subseteq CleanFrames' => wire' \in Seq(CleanFrames')
    <3>1. erred - errpty + 1 \in Nat
      BY ChildAssumption DEF TypeOK, AgentTypeOK, ChildTypeOK
    <3> QED
      BY <1>4, <1>5, <1>6, <1>13, <3>1 DEF ReadErr
  <2> QED
    BY <1>3, <2>1, <2>2, <2>3
<1>14. CASE TryWait \/ Wait
  <2>1. /\ UNCHANGED <<stage, status, echo, ran, pty, typed, lk, held, flags, wire>>
        /\ apc = "pump" /\ apc' \in {"drain", "settle"} /\ stage = "exited" /\ outcome' = status
    BY <1>14 DEF TryWait, Wait, childVars
  <2>2. AgentInv' /\ (LockRefused => LockRefused')
    BY <1>7, <2>1 DEF AgentInv, LockRefused, Reported
  <2> QED
    BY <1>3, <1>5, <2>1, <2>2
<1>15. CASE EndDrain
  <2>1. /\ UNCHANGED <<stage, status, echo, ran, typed, lk, outcome, flags>> /\ pty' = <<>>
        /\ held' \in {held, <<>>} /\ apc = "drain" /\ apc' = "settle"
    BY <1>15 DEF EndDrain, ReleaseHeld
  <2>2. AgentInv' /\ (LockRefused => LockRefused')
    BY <1>7, <2>1 DEF AgentInv, LockRefused
  <2>3. CleanFrames \subseteq CleanFrames' => wire' \in Seq(CleanFrames')
    BY <1>1, <1>5, <1>15, KeptIsClean, SendClean DEF EndDrain, ReleaseHeld
  <2> QED
    BY <1>3, <2>1, <2>2, <2>3
<1>16. CASE Settle
  <2>1. /\ UNCHANGED <<stage, status, echo, ran, pty, typed, lk, held, flags, wire>>
        /\ apc = "settle" /\ apc' = "release"
    BY <1>16 DEF Settle, childVars
  <2>2. Reported(outcome)'
    BY <1>7, <1>16, <2>1 DEF Settle, SessionInv, ScriptInv, AgentInv, Reported, SudoRefused
  <2>3. AgentInv' /\ (LockRefused => LockRefused')
    BY <1>7, <2>1, <2>2 DEF AgentInv, LockRefused
  <2> QED
    BY <1>3, <1>5, <2>1, <2>3
<1>17. CASE DropGuard
  <2>1. /\ UNCHANGED <<stage, status, echo, ran, pty, typed, outcome, held, flags, wire>>
        /\ apc = "release" /\ apc' = "exit" /\ lk' = "free"
    BY <1>17 DEF DropGuard, childVars
  <2>2. AgentInv' /\ (LockRefused => LockRefused')
    BY <1>7, <2>1 DEF AgentInv, LockRefused
  <2> QED
    BY <1>3, <1>5, <2>1, <2>2
<1>18. CASE SendExit
  <2>1. /\ UNCHANGED <<stage, status, echo, ran, pty, typed, lk, outcome, held, flags>>
        /\ apc = "exit" /\ apc' = "over"
    BY <1>18 DEF SendExit, childVars
  <2>2. AgentInv' /\ (LockRefused => LockRefused')
    BY <1>7, <2>1 DEF AgentInv, LockRefused
  <2>3. Frame("Exit", outcome) \in CleanFrames'
    <3>1. Frame("Exit", outcome) \in Frames
      BY DEF TypeOK, AgentTypeOK, Frame, Frames
    <3>2. Reported(outcome)'
      BY <1>7, <2>1 DEF AgentInv
    <3>3. Frame("Exit", outcome).kind = "Exit" /\ Frame("Exit", outcome).n = outcome
      BY DEF Frame
    <3> QED
      BY <2>1, <3>1, <3>2, <3>3 DEF CleanFrames, Reported
  <2>4. CleanFrames \subseteq CleanFrames' => wire' \in Seq(CleanFrames')
    BY <1>4, <1>18, <2>3 DEF SendExit
  <2> QED
    BY <1>3, <2>1, <2>2, <2>4
<1>19. CASE KillAgent
  <2>1. /\ UNCHANGED <<stage, status, echo, ran, typed, lk, outcome, held, flags, wire>>
        /\ pty' = <<>> /\ apc' = "dead"
    BY <1>19 DEF KillAgent
  <2>2. AgentInv' /\ (LockRefused => LockRefused')
    BY <1>7, <2>1 DEF AgentInv, LockRefused
  <2> QED
    BY <1>3, <1>5, <2>1, <2>2
<1>20. CASE HangAgent
  <2>1. /\ UNCHANGED <<stage, status, echo, ran, pty, typed, lk, outcome, held, flags, wire>>
        /\ apc' = "hung"
    BY <1>20 DEF HangAgent, childVars
  <2>2. AgentInv' /\ (LockRefused => LockRefused')
    BY <1>7, <2>1 DEF AgentInv, LockRefused
  <2> QED
    BY <1>3, <1>5, <2>1, <2>2
<1>21. CASE OtherEnds
  <2>1. /\ UNCHANGED <<stage, status, echo, ran, pty, typed, apc, outcome, held, flags, wire>>
        /\ lk' = "free"
    BY <1>21 DEF OtherEnds, childVars
  <2>2. AgentInv' /\ (LockRefused => LockRefused')
    BY <1>7, <2>1 DEF AgentInv, LockRefused
  <2> QED
    BY <1>3, <1>5, <2>1, <2>2
<1> QED
  BY <1>8, <1>9, <1>10, <1>11, <1>12, <1>13, <1>14, <1>15, <1>16, <1>17, <1>18, <1>19,
     <1>20, <1>21 DEF AgentStep

\* The client reads a frame: what it takes from it is true of the host.
LEMMA ReadFrameInv ==
  ASSUME SessionInv, ReadFrame
  PROVE  SessionInv'
<1> DEFINE f == Head(wire)
<1>0. UNCHANGED <<childVars, apc, held, flags, outcome, lk, link>> /\ cpc = "frames" /\ wire # <<>>
  BY DEF ReadFrame
<1>1. /\ wire \in Seq(CleanFrames) /\ log \in Seq(CleanLog)
      /\ \A n : Reported(n)' = Reported(n)
      /\ SudoRefused' = SudoRefused /\ LockRefused' = LockRefused
  BY <1>0 DEF SessionInv, CleanStreams, Reported, SudoRefused, LockRefused, childVars
<1>2. f \in CleanFrames /\ Tail(wire) \in Seq(CleanFrames)
  BY <1>0, <1>1, HeadTailProperties
<1>3. CleanFrames' = CleanFrames /\ CleanPieces' = CleanPieces /\ CleanKept' = CleanKept
  BY <1>0, <1>1 DEF CleanFrames, CleanPieces, CleanKept, Kept, childVars
<1>4. log' \in Seq(CleanLog)
  <2>1. f.kind \in Forwarded \cup {"err"} => f \in CleanLog
    BY <1>2, FrameKinds DEF CleanFrames, CleanLog
  <2>2. log' = (IF f.kind \in Forwarded \cup {"err"} THEN Append(log, f) ELSE log)
    BY DEF ReadFrame
  <2> QED
    BY <1>1, <2>1, <2>2
<1>5. CleanStreams'
  BY <1>0, <1>2, <1>3, <1>4 DEF ReadFrame, SessionInv, CleanStreams, childVars, CleanLog
<1>6. ScriptInv' /\ AgentInv'
  BY <1>0, <1>1 DEF SessionInv, ScriptInv, AgentInv, childVars
<1>7. /\ cpc' # "dial" /\ apc' = apc
      /\ signs' = Heard(f) /\ exit' = (IF f.kind = "Exit" THEN f.n ELSE exit)
  BY DEF ReadFrame
<1>8. /\ f.kind = "SudoFailed" => SudoRefused
      /\ f.kind = "LockHeld" => LockRefused
      /\ f.kind = "Exit" => apc = "over" /\ Reported(f.n)
  BY <1>2 DEF CleanFrames
<1>9. ClientInv'
  <2>1. "need" \in signs' => apc' = "missing"
    BY <1>7 DEF Heard, SessionInv, ClientInv
  <2>2. ("sudo" \in signs' => SudoRefused') /\ ("lock" \in signs' => LockRefused')
    BY <1>1, <1>7, <1>8 DEF Heard, SessionInv, ClientInv
  <2>3. exit' # NoExit => apc' = "over" /\ Reported(exit')
    BY <1>7, <1>8 DEF SessionInv, ClientInv
  <2>4. Reported(exit)' = Reported(exit')
    BY <1>0 DEF Reported, childVars
  <2> QED
    BY <1>7, <2>1, <2>2, <2>3, <2>4 DEF ClientInv
<1> QED
  BY <1>5, <1>6, <1>9 DEF SessionInv

\* A step that leaves the script and the agent as they are, and of the wire at
\* most a part, leaves what is known of them.
LEMMA FarSideUnchanged ==
  ASSUME SessionInv, UNCHANGED <<childVars, apc, held, flags, outcome, lk, log>>,
         wire' \in Seq(CleanFrames)
  PROVE  /\ CleanStreams' /\ ScriptInv' /\ AgentInv'
         /\ SudoRefused' = SudoRefused /\ LockRefused' = LockRefused
         /\ UNCHANGED exit => Reported(exit)' = Reported(exit)
BY DEF SessionInv, CleanStreams, ScriptInv, AgentInv, SudoRefused, LockRefused, Reported,
       CleanFrames, CleanPieces, CleanKept, Kept, CleanLog, childVars

\* Every step of the session keeps what is known of it.
LEMMA SessionStep ==
  ASSUME TypeOK, SessionInv, [Next]_vars
  PROVE  SessionInv'
<1>0. wire \in Seq(CleanFrames) /\ ClientInv /\ AgentInv
  BY DEF SessionInv, CleanStreams
<1>1. CASE ChildStep /\ UNCHANGED <<agentVars, clientVars>>
  BY <1>1, ChildStepInv
<1>2. CASE (AgentStep \/ KillAgent \/ HangAgent \/ OtherEnds) /\ UNCHANGED clientVars
  BY <1>2, AgentStepInv
<1>3. CASE Dial
  <2>1. /\ apc \in {"off", "missing"} /\ stage = "none" /\ lk # "mine"
        /\ \A f \in CleanFrames : f.kind \notin {"Exit", "SudoFailed", "LockHeld"}
    BY <1>0, <1>3 DEF Dial, ClientInv, AgentInv, CleanFrames, SudoRefused, LockRefused
  <2>2. /\ UNCHANGED <<childVars, held, flags, outcome, lk, log>>
        /\ apc' \in {"request", "missing", "off"} /\ cpc' # "dial" /\ exit' = NoExit /\ signs' = {}
    BY <1>3, <2>1 DEF Dial
  <2>3. CleanFrames \subseteq CleanFrames'
    BY <2>1 DEF CleanFrames
  <2>4. wire' \in Seq(CleanFrames')
    <3>1. wire' = wire \/ wire' = <<>>
      BY <1>3 DEF Dial
    <3>2. wire \in Seq(CleanFrames') /\ <<>> \in Seq(CleanFrames')
      BY <1>0, <2>3, SeqMonotonic
    <3> QED
      BY <3>1, <3>2
  <2>5. CleanStreams'
    BY <2>2, <2>4 DEF SessionInv, CleanStreams, CleanPieces, CleanKept, Kept, CleanLog,
       SudoRefused, childVars
  <2>6. ScriptInv' /\ AgentInv' /\ ClientInv'
    BY <2>1, <2>2 DEF SessionInv, ScriptInv, AgentInv, ClientInv, SudoRefused, childVars
  <2> QED
    BY <2>5, <2>6 DEF SessionInv
<1>4. CASE ReadFrame
  BY <1>4, ReadFrameInv
<1>5. ASSUME UNCHANGED <<childVars, apc, held, flags, outcome, lk, log, exit>>,
             wire' \in Seq(CleanFrames), cpc' # "dial",
             signs' \subseteq signs \cup {"stalled", "need"},
             "need" \in signs' => "need" \in signs \/ apc = "missing"
      PROVE  SessionInv'
  <2>1. /\ CleanStreams' /\ ScriptInv' /\ AgentInv'
        /\ SudoRefused' = SudoRefused /\ LockRefused' = LockRefused
        /\ Reported(exit)' = Reported(exit)
    BY <1>5, FarSideUnchanged
  <2> QED
    BY <1>0, <1>5, <2>1 DEF SessionInv, ClientInv
<1>6. CASE EndOfFrames \/ Stall \/ EndOfStderr \/ Judge \/ Banner
  <2>1. UNCHANGED <<childVars, apc, held, flags, outcome, lk, log, exit, wire>> /\ cpc' # "dial"
    BY <1>6 DEF EndOfFrames, Stall, EndOfStderr, Judge, Banner, agentVars
  <2>2. /\ signs' \subseteq signs \cup {"stalled", "need"}
        /\ "need" \in signs' => "need" \in signs \/ apc = "missing"
    BY <1>6 DEF EndOfFrames, Stall, EndOfStderr, Judge, Banner
  <2> QED
    BY <1>0, <1>5, <2>1, <2>2
<1>7. CASE Install
  <2>1. /\ UNCHANGED <<childVars, apc, held, flags, outcome, lk, log, exit, signs, wire>>
        /\ "need" \in signs
    BY <1>7 DEF Install, NeedsAgent, agentVars
  <2>2. /\ CleanStreams' /\ ScriptInv' /\ AgentInv'
        /\ SudoRefused' = SudoRefused /\ LockRefused' = LockRefused
        /\ Reported(exit)' = Reported(exit)
    BY <1>0, <2>1, FarSideUnchanged
  <2> QED
    BY <1>0, <2>1, <2>2 DEF SessionInv, ClientInv
<1>8. CASE Abort
  <2>1. UNCHANGED <<childVars, apc, held, flags, outcome, lk, log, exit, signs>> /\ cpc' # "dial"
    BY <1>8 DEF Abort
  <2>2. wire' \in Seq(CleanFrames)
    BY <1>8 DEF Abort
  <2> QED
    BY <1>5, <2>1, <2>2
<1>9. CASE Cut \/ GiveUp
  <2>1. UNCHANGED <<childVars, apc, held, flags, outcome, lk, log, exit, signs, cpc>>
    BY <1>9 DEF Cut, GiveUp, clientVars
  <2>2. wire' \in Seq(CleanFrames)
    BY <1>0, <1>9, PrefixTypes DEF Cut, GiveUp
  <2>3. /\ CleanStreams' /\ ScriptInv' /\ AgentInv'
        /\ SudoRefused' = SudoRefused /\ LockRefused' = LockRefused
        /\ Reported(exit)' = Reported(exit)
    BY <2>1, <2>2, FarSideUnchanged
  <2> QED
    BY <1>0, <2>1, <2>3 DEF SessionInv, ClientInv
<1>10. CASE Sweep \/ UNCHANGED vars
  <2>1. UNCHANGED <<childVars, apc, held, flags, outcome, lk, log, exit, signs, cpc, wire>>
    BY <1>10 DEF Sweep, vars, agentVars, clientVars
  <2>2. /\ CleanStreams' /\ ScriptInv' /\ AgentInv'
        /\ SudoRefused' = SudoRefused /\ LockRefused' = LockRefused
        /\ Reported(exit)' = Reported(exit)
    BY <1>0, <2>1, FarSideUnchanged
  <2> QED
    BY <1>0, <2>1, <2>2 DEF SessionInv, ClientInv
<1> QED
  BY <1>1, <1>2, <1>3, <1>4, <1>6, <1>7, <1>8, <1>9, <1>10 DEF Next, ClientStep

\* What is known of a session holds throughout it.
THEOREM SessionInvariant == Spec => []SessionInv
<1>1. Init => SessionInv
  <2> SUFFICES ASSUME Init PROVE SessionInv
    OBVIOUS
  <2>1. /\ stage = "none" /\ ran = 0 /\ status = 0 /\ flags = {} /\ apc = "off" /\ typed = FALSE
        /\ lk # "mine" /\ signs = {} /\ exit = NoExit
    BY DEF Init, ChildInit, AgentInit, ClientInit
  <2>2. pty = <<>> /\ held = <<>> /\ wire = <<>> /\ log = <<>>
    BY DEF Init, ChildInit, AgentInit, ClientInit
  <2>3. CleanStreams
    BY <2>1, <2>2 DEF CleanStreams
  <2> QED
    BY <2>1, <2>3 DEF SessionInv, ScriptInv, AgentInv, ClientInv
<1> QED
  BY <1>1, SessionStep, SessionTypeCorrect, PTL DEF Spec

\* A client that has read Exit can start the next upgrade at once: the agent
\* drops its guard before it sends the frame, and no run takes the lock again.
THEOREM ExitMeansTheLockIsFree == Spec => []ExitFreesLock
<1>1. SessionInv => ExitFreesLock
  BY DEF SessionInv, ClientInv, AgentInv, ExitFreesLock
<1> QED
  BY <1>1, SessionInvariant, PTL

\* The password is typed only at a terminal that does not echo it, so that it
\* reaches neither the terminal's output, nor the frames, nor the log.
THEOREM PasswordStaysHidden == Spec => []PasswordNeverEchoed
<1>1. SessionInv => PasswordNeverEchoed
  <2> SUFFICES ASSUME SessionInv, NEW s \in {pty, held, wire, log}, NEW i \in DOMAIN s
               PROVE  s[i].kind # "password"
    BY DEF PasswordNeverEchoed
  <2>1. ASSUME NEW S, s \in Seq(S) PROVE s[i] \in S
    <3>1. DOMAIN s = 1..Len(s) /\ s \in [1..Len(s) -> S]
      BY <2>1, LenProperties
    <3> QED
      BY <3>1
  <2>2. \/ s \in Seq(CleanPieces) \/ s \in Seq(CleanKept)
        \/ s \in Seq(CleanFrames) \/ s \in Seq(CleanLog)
    BY DEF SessionInv, CleanStreams
  <2>3. s[i] \in CleanPieces \cup CleanKept \cup CleanFrames \cup CleanLog
    BY <2>1, <2>2
  <2> QED
    BY <2>3 DEF CleanPieces, CleanKept, CleanFrames, CleanLog
<1> QED
  BY <1>1, SessionInvariant, PTL

---------------------------------------------------------------------------
\* What the host and the operator know, as UpgradePromise has it, changes by
\* the script and by the client alone.
LEMMA HostChanges ==
  ASSUME TypeOK, SessionInv, [Next]_vars
  PROVE  \/ ChildStep /\ UNCHANGED <<apc, cpc, verdict>>
         \/ /\ UNCHANGED <<ran, status, cpc, verdict>>
            /\ \/ UNCHANGED stage
               \/ apc = "spawn" /\ stage = "none" /\ stage' \in {"ask", "boot"}
            /\ apc \notin {"request", "lock", "spawn"} => apc' \notin {"request", "lock", "spawn"}
         \/ cpc = "dial" /\ cpc' # "told" /\ UNCHANGED <<ran, stage, status, verdict>>
         \/ cpc # "told" /\ cpc' # "told" /\ UNCHANGED <<ran, stage, status, apc, verdict>>
         \/ /\ cpc # "told" /\ cpc' = "told" /\ UNCHANGED <<ran, stage, status, apc>>
            /\ \/ Judge
               \/ verdict' = "noagent" /\ "need" \in signs
               \/ verdict' = "aborted"
<1> USE DEF childVars, agentVars, clientVars
<1>1. CASE ChildStep /\ UNCHANGED <<agentVars, clientVars>>
  BY <1>1
<1>2. CASE (AgentStep \/ KillAgent \/ HangAgent \/ OtherEnds) /\ UNCHANGED clientVars
  <2>1. UNCHANGED <<cpc, verdict>>
    BY <1>2
  <2>2. CASE SpawnShell
    BY <2>1, <2>2 DEF SpawnShell, SessionInv, AgentInv
  <2>3. CASE ReadRequest \/ AcquireLock
    BY <2>1, <2>3 DEF ReadRequest, AcquireLock
  <2>4. CASE ReadMaster \/ MasterEnds \/ ReadErr
    BY <2>1, <2>4 DEF ReadMaster, MasterEnds, ReadErr
  <2>5. CASE TryWait \/ EndDrain \/ Wait \/ Settle \/ DropGuard \/ SendExit
    BY <2>1, <2>5 DEF TryWait, EndDrain, Wait, Settle, DropGuard, SendExit
  <2>6. CASE KillAgent \/ HangAgent \/ OtherEnds
    BY <2>1, <2>6 DEF KillAgent, HangAgent, OtherEnds
  <2> QED
    BY <1>2, <2>2, <2>3, <2>4, <2>5, <2>6 DEF AgentStep
<1>3. CASE Dial
  BY <1>3 DEF Dial
<1>4. CASE ReadFrame \/ EndOfFrames \/ Stall \/ EndOfStderr \/ Banner
  BY <1>4 DEF ReadFrame, EndOfFrames, Stall, EndOfStderr, Banner
<1>5. CASE Install
  BY <1>5 DEF Install, NeedsAgent
<1>6. CASE Judge
  BY <1>6 DEF Judge
<1>7. CASE Abort
  BY <1>7 DEF Abort
<1>8. CASE Cut \/ GiveUp \/ Sweep \/ UNCHANGED vars
  BY <1>8 DEF Cut, GiveUp, Sweep, vars
<1> QED
  BY <1>1, <1>2, <1>3, <1>4, <1>5, <1>6, <1>7, <1>8 DEF Next, ClientStep

\* What the client judges from is what happened.
LEMMA JudgedTruly ==
  ASSUME TypeOK, SessionInv, ToldInv, Judge
  PROVE  /\ verdict' \in {"ok", "failed", "sudo", "lock", "noagent"} => NeverStarts
         /\ verdict' \in {"sudo", "lock", "noagent"} => ran = 0
         /\ verdict' = "ok" => Host = "ok"
         /\ verdict' = "failed" => Host \in {"failed", "idle"}
         /\ verdict' \in {"ok", "failed", "sudo", "lock", "noagent", "unfinished", "lost"}
<1>1. verdict' = Verdict
  BY DEF Judge
<1>2. ClientInv /\ AgentInv /\ ScriptInv
  BY DEF SessionInv
<1>3. ran > 0 => status \notin {SudoFailedCode, LockHeldCode}
  BY DEF ToldInv
<1>4. SudoRefused => status # 0
  BY DEF ToldInv
<1>5. "sudo" \in signs => ran = 0 /\ NeverStarts
  BY <1>2 DEF ClientInv, SudoRefused, NeverStarts
<1>6. "lock" \in signs => ran = 0 /\ NeverStarts
  BY <1>2 DEF ClientInv, LockRefused, NeverStarts, ScriptInv
<1>7. "need" \in signs => ran = 0 /\ NeverStarts
  BY <1>2 DEF ClientInv, AgentInv, NeverStarts, ScriptInv
<1>8. ran \in {0, 1}
  BY <1>2 DEF ScriptInv
<1>9. exit # NoExit => Reported(exit) /\ apc = "over"
  BY <1>2 DEF ClientInv
<1>10. exit # NoExit => NeverStarts
  BY <1>9 DEF Reported, NeverStarts
<1>11. exit \in {SudoFailedCode, LockHeldCode} => ran = 0 /\ NeverStarts
  BY <1>2, <1>3, <1>8, <1>9, <1>10
  DEF Reported, ScriptInv, SudoFailedCode, LockHeldCode, NoShellCode, NoExit
<1>12. exit = 0 => Host = "ok"
  BY <1>2, <1>4, <1>8, <1>9
  DEF Reported, ScriptInv, SudoRefused, Host, SudoFailedCode, LockHeldCode, NoShellCode, NoExit
<1>13. exit \notin {0, SudoFailedCode, NoExit} => Host \in {"failed", "idle"}
  BY <1>2, <1>8, <1>9 DEF Reported, ScriptInv, Host
<1> QED
  BY <1>1, <1>5, <1>6, <1>7, <1>10, <1>11, <1>12, <1>13 DEF Verdict

\* What the script does to a verdict that was told.
LEMMA ChildKeepsTold ==
  ASSUME PlainCodes, TypeOK, SessionInv, ToldInv, ChildStep, UNCHANGED <<apc, cpc, verdict>>
  PROVE  ToldInv'
<1>1. ScriptInv /\ status \in 0..255
  BY DEF SessionInv, TypeOK, AgentTypeOK, ChildTypeOK
<1>2. /\ ran' > 0 => status' \notin {SudoFailedCode, LockHeldCode}
      /\ SudoRefused' => status' # 0
      /\ NeverStarts => NeverStarts' /\ ran' = ran
      /\ NeverStarts /\ Host = "ok" => Host' = "ok"
  <2> USE <1>1 DEF ToldInv, ScriptInv, SudoRefused, NeverStarts, Host, Waiting
  <2>1. CASE Ask \/ ReadPw \/ MakeNoise \/ CmdOut \/ CmdErr \/ Fork \/ DaemonSpeaks \/ DaemonEnds
    BY <2>1 DEF Ask, ReadPw, MakeNoise, CmdOut, CmdErr, Fork, DaemonSpeaks, DaemonEnds
  <2>2. CASE Sudo
    BY <2>2 DEF Sudo, SudoFailedCode
  <2>3. CASE RcExit
    BY <2>3 DEF RcExit, PlainCodes
  <2>4. CASE Start
    BY <2>4 DEF Start, SudoFailedCode, LockHeldCode
  <2>5. CASE Done \/ CmdExits
    BY <2>5 DEF Done, CmdExits, PlainCodes
  <2>6. CASE Exit
    BY <2>6 DEF Exit
  <2>7. CASE Killed
    BY <2>7 DEF Killed, KilledCode, SudoFailedCode, LockHeldCode
  <2> QED
    BY <2>1, <2>2, <2>3, <2>4, <2>5, <2>6, <2>7 DEF ChildStep, ScriptStep
<1> QED
  BY <1>2 DEF ToldInv

\* Every step keeps the record of what was told true.
LEMMA ToldStep ==
  ASSUME PlainCodes, TypeOK, SessionInv, ToldInv, [Next]_vars
  PROVE  ToldInv'
<1>1. CASE ChildStep /\ UNCHANGED <<apc, cpc, verdict>>
  BY <1>1, ChildKeepsTold
<1>2. CASE /\ UNCHANGED <<ran, status, cpc, verdict>>
           /\ \/ UNCHANGED stage
              \/ apc = "spawn" /\ stage = "none" /\ stage' \in {"ask", "boot"}
           /\ apc \notin {"request", "lock", "spawn"} => apc' \notin {"request", "lock", "spawn"}
  BY <1>2 DEF ToldInv, NeverStarts, Host, SudoRefused
<1>3. CASE cpc # "told" /\ cpc' # "told" /\ UNCHANGED <<ran, stage, status, verdict>>
  BY <1>3 DEF ToldInv, SudoRefused
<1>4. CASE /\ cpc # "told" /\ cpc' = "told" /\ UNCHANGED <<ran, stage, status, apc>>
           /\ \/ Judge
              \/ verdict' = "noagent" /\ "need" \in signs
              \/ verdict' = "aborted"
  <2>1. UNCHANGED <<NeverStarts, Host, SudoRefused>>
    BY <1>4 DEF NeverStarts, Host, SudoRefused
  <2>2. CASE Judge
    BY <1>4, <2>1, <2>2, JudgedTruly DEF ToldInv
  <2>3. CASE verdict' = "noagent" /\ "need" \in signs
    <3>1. ran = 0 /\ NeverStarts
      BY <2>3 DEF SessionInv, ClientInv, AgentInv, ScriptInv, NeverStarts
    <3> QED
      BY <1>4, <2>1, <2>3, <3>1 DEF ToldInv
  <2>4. CASE verdict' = "aborted"
    BY <1>4, <2>1, <2>4 DEF ToldInv
  <2> QED
    BY <1>4, <2>2, <2>3, <2>4
<1> QED
  BY <1>1, <1>2, <1>3, <1>4, HostChanges

\* A verdict that says something of the host is true of it, for as long as the
\* host lives.
THEOREM ToldIsTrue == ASSUME PlainCodes PROVE Spec => []ToldInv
<1>1. Init => ToldInv
  BY DEF Init, ChildInit, ClientInit, ToldInv, SudoRefused
<1> QED
  BY <1>1, ToldStep, SessionTypeCorrect, SessionInvariant, PTL DEF Spec

\* Every step of a session is a step of the promise, or none.
LEMMA StepKeepsPromise ==
  ASSUME PlainCodes, TypeOK, SessionInv, ToldInv, ToldInv', [Next]_vars
  PROVE  [Abstract!Next]_Abstract!vars
<1> USE DEF Abstract!vars, Abstract!Next, Abstract!Start, Abstract!End, Abstract!Tell, Abstract!Allowed
<1>1. CASE ChildStep /\ UNCHANGED <<apc, cpc, verdict>>
  <2>1. UNCHANGED Told
    BY <1>1 DEF Told
  <2>2. CASE Start
    <3>1. ran = 0 /\ ran' = 1 /\ stage' = "cmd" /\ stage = "boot"
      BY <2>2 DEF Start, SessionInv, ScriptInv
    <3>2. ~NeverStarts
      BY <3>1 DEF NeverStarts
    <3>3. Host = "idle" /\ Host' = "running"
      BY <3>1 DEF Host
    <3>4. Told \in {"nothing", "unsure"}
      BY <3>2 DEF Told, ToldInv, TypeOK
    <3> QED
      BY <2>1, <3>3, <3>4
  <2>3. CASE ~Start
    <3>1. /\ UNCHANGED ran
          /\ stage \in {"closed", "exited"} => stage' \in {"closed", "exited"} /\ UNCHANGED status
      BY <1>1, <2>3 DEF ChildStep, ScriptStep, Ask, ReadPw, Sudo, MakeNoise, RcExit, CmdOut, CmdErr,
         Done, CmdExits, Exit, Fork, Killed, DaemonSpeaks, DaemonEnds, Waiting
    <3>2. UNCHANGED Host \/ (Host = "running" /\ Host' \in {"ok", "failed"})
      BY <3>1 DEF Host
    <3> QED
      BY <2>1, <3>2
  <2> QED
    BY <2>2, <2>3
<1>2. CASE /\ UNCHANGED <<ran, status, cpc, verdict>>
           /\ \/ UNCHANGED stage
              \/ apc = "spawn" /\ stage = "none" /\ stage' \in {"ask", "boot"}
  <2>1. UNCHANGED <<Host, Told>>
    BY <1>2 DEF Host, Told, SessionInv, ScriptInv
  <2> QED
    BY <2>1
<1>3. CASE UNCHANGED <<ran, stage, status, verdict>>
  <2>1. UNCHANGED <<Host, Told>>
    BY <1>3 DEF Host, Told
  <2> QED
    BY <2>1
<1>4. CASE /\ cpc # "told" /\ cpc' = "told" /\ UNCHANGED <<ran, stage, status, apc>>
           /\ \/ Judge
              \/ verdict' = "noagent" /\ "need" \in signs
              \/ verdict' = "aborted"
  <2>1. UNCHANGED Host /\ Told = "nothing"
    BY <1>4 DEF Host, Told, ToldInv
  <2>2. CASE Judge
    <3>1. /\ verdict' \in {"sudo", "lock", "noagent"} => Host = "idle"
          /\ verdict' = "ok" => Host = "ok"
          /\ verdict' = "failed" => Host \in {"failed", "idle"}
          /\ verdict' \in {"ok", "failed", "sudo", "lock", "noagent", "unfinished", "lost"}
      BY <2>2, JudgedTruly DEF Host
    <3> QED
      BY <2>1, <3>1 DEF Told
  <2>3. CASE verdict' = "noagent" /\ "need" \in signs
    <3>1. Host = "idle" /\ Told' = "never"
      BY <2>3 DEF Host, Told, SessionInv, ClientInv, AgentInv, ScriptInv
    <3> QED
      BY <2>1, <3>1
  <2>4. CASE verdict' = "aborted"
    <3>1. Told' = "unsure"
      BY <2>4 DEF Told
    <3> QED
      BY <2>1, <3>1
  <2> QED
    BY <1>4, <2>2, <2>3, <2>4
<1> QED
  BY <1>1, <1>2, <1>3, <1>4, HostChanges

\* The session keeps the promise of UpgradePromise for every command, shell,
\* terminal and connection, as long as no command ends with 111 or 125 and no
\* rc file with 0: the command runs at most once, `ok` is said only of one that
\* ended with 0, and `never` only of one that has not run and will not.
THEOREM SessionKeepsPromise == ASSUME PlainCodes PROVE Spec => KeepsPromise
<1>1. Init => Abstract!Init
  BY DEF Init, ChildInit, ClientInit, Abstract!Init, Host, Told
<1>2. PlainCodes
  OBVIOUS
<1> QED
  BY <1>1, <1>2, StepKeepsPromise, SessionTypeCorrect, SessionInvariant, ToldIsTrue, PTL
  DEF Spec, KeepsPromise, Abstract!Spec
---------------------------------------------------------------------------
\* The reader will have seen the opening, or the closing, marker when it comes
\* to the i-th piece in the terminal.
StartedBy(i) == "started" \in flags \/ \E j \in 1..(i - 1) : pty[j].kind = "Started"
DoneBy(i)    == "done" \in flags \/ \E j \in 1..(i - 1) : pty[j].kind = "Done"
End          == Len(pty) + 1

\* Which terminals are open, and where there can be nothing.
OpenInv ==
  /\ stage = "none" => /\ fds = {} /\ pty = <<>> /\ said = <<>>
                       /\ erred = 0 /\ errpty = 0 /\ noise = 0 /\ ~bracketed /\ ~daemon
  /\ bracketed => stage \in {"unwind", "exiting", "closed", "exited"}
  /\ stage \notin Waiting /\ apc # "dead" => fds = {"master", "errpipe"}
  /\ "master" \notin fds => pty = <<>>
  /\ "errpipe" \notin fds => errpty = 0
  /\ apc \in {"settle", "release", "exit"} => fds = {}
  /\ apc \in {"off", "missing", "request", "lock", "spawn"} =>
       log = <<>> /\ wire = <<>> /\ held = <<>> /\ flags = {}

\* Before the login shell starts, the terminal holds the question at most.
EarlyInv ==
  /\ stage \in {"ask", "pwread", "sudo"} => noise = 0 /\ held = <<>> /\ flags \subseteq {"pwsent"}
  /\ stage = "ask" => pty = <<>> /\ ~typed
  /\ stage = "pwread" => pty = <<>> \/ (pty = <<Mark("PwReady")>> /\ ~typed)
  /\ stage = "sudo" => pty = <<>>

\* The command's output is between the markers, and none of it is kept back.
MarkInv ==
  /\ \A i \in 1..Len(held) : held[i].kind # "out"
  /\ "started" \in flags => held = <<>>
  /\ "master" \in fds =>
       /\ \A i \in 1..Len(pty) : pty[i].kind = "out" => StartedBy(i) /\ ~DoneBy(i)
       /\ stage = "cmd" => StartedBy(End)
       /\ bracketed <=> DoneBy(End)
       /\ bracketed => StartedBy(End)

\* The command's output is on its way in order, as long as the way is whole.
Whole    == cpc = "frames" /\ link = "up" /\ stage # "none"
              /\ apc \in {"pump", "drain", "settle", "release", "exit"}
ExitSent == cpc = "frames" /\ stage = "exited" /\ \E i \in 1..Len(wire) : wire[i].kind = "Exit"

OnTheWay(kind, a, b) == Counts(log, kind, 0, a) /\ Counts(wire, kind, a, b)

FlowInv ==
  /\ cpc = "frames" => exit = NoExit
  /\ \A i \in 1..Len(wire) : wire[i].kind = "Exit" => i = Len(wire)
  /\ Whole => /\ \E a, b \in Nat : OnTheWay("out", a, b) /\ Counts(pty, "out", b, Len(said))
                                   /\ a <= b /\ b <= Len(said)
              /\ \E a \in Nat : OnTheWay("err", a, erred - errpty) /\ a <= erred - errpty
  /\ ExitSent => /\ \E a \in Nat : OnTheWay("out", a, Len(said)) /\ a <= Len(said)
                 /\ \E a \in Nat : OnTheWay("err", a, erred) /\ a <= erred
  /\ exit # NoExit /\ stage = "exited" =>
       Counts(log, "out", 0, Len(said)) /\ Counts(log, "err", 0, erred)

\* The login shell's noise is outside the markers, and is kept back until the
\* opening one, if the command is bracketed, or may still be.
Noises == {"noise", "leftover"}
Tidy   == stage \in {"ask", "pwread", "sudo", "boot", "cmd"} \/ bracketed

Spotless(s) == \A i \in 1..Len(s) : s[i].kind \notin Noises

NoiseInv ==
  Tidy /\ noise < HoldLimit =>
    /\ Spotless(log) /\ Spotless(wire)
    /\ "master" \in fds =>
         /\ \A i \in 1..Len(pty) : pty[i].kind \in Noises => ~StartedBy(i) \/ DoneBy(i)
         /\ "started" \notin flags =>
              \A i \in 1..Len(pty) : pty[i].kind = "Started" => Len(held) + i - 1 <= noise
         /\ stage = "boot" => ~StartedBy(End) /\ Len(held) + Len(pty) <= noise

LogInv == OpenInv /\ EarlyInv /\ MarkInv /\ FlowInv /\ NoiseInv
---------------------------------------------------------------------------
\* What Counts says, piece by piece.
Counted(s, k, a, b) ==
  /\ \A i, j \in 1..Len(s) : s[i].kind = k /\ s[j].kind = k /\ i < j => s[i].n < s[j].n
  /\ \A i \in 1..Len(s) : s[i].kind = k => s[i].n \in (a + 1)..b
  /\ \A m \in (a + 1)..b : \E i \in 1..Len(s) : s[i].kind = k /\ s[i].n = m

\* The two are the same.
LEMMA CountsMeans ==
  ASSUME NEW S, NEW s \in Seq(S), NEW k, NEW a, NEW b
  PROVE  Counts(s, k, a, b) <=> Counted(s, k, a, b)
<1>1. DOMAIN s = 1..Len(s)
  BY LenProperties
<1> DEFINE K == {i \in DOMAIN s : s[i].kind = k}
<1>2. Counts(s, k, a, b) <=> /\ \A i, j \in K : i < j => s[i].n < s[j].n
                             /\ {s[i].n : i \in K} = (a + 1)..b
  BY DEF Counts
<1>3. \A i : i \in K <=> i \in 1..Len(s) /\ s[i].kind = k
  BY <1>1
<1> HIDE DEF K
<1>4. {s[i].n : i \in K} = (a + 1)..b <=> /\ \A i \in K : s[i].n \in (a + 1)..b
                                          /\ \A m \in (a + 1)..b : \E i \in K : s[i].n = m
  OBVIOUS
<1> QED
  BY <1>2, <1>3, <1>4 DEF Counted

\* Nothing has been counted in nothing.
LEMMA CountsEmpty ==
  ASSUME NEW k, NEW a \in Nat
  PROVE  Counts(<<>>, k, a, a)
BY DEF Counts

\* The next piece of the kind is written.
LEMMA CountsNext ==
  ASSUME NEW S, NEW s \in Seq(S), NEW x \in S, NEW k, NEW a \in Nat, NEW b \in Nat, a <= b,
         Counts(s, k, a, b), x.kind = k, x.n = b + 1
  PROVE  Counts(Append(s, x), k, a, b + 1)
<1>0. Counted(s, k, a, b)
  BY CountsMeans
<1>2. /\ \A i, j \in 1..Len(s) : s[i].kind = k /\ s[j].kind = k /\ i < j => s[i].n < s[j].n
      /\ \A i \in 1..Len(s) : s[i].kind = k => s[i].n \in (a + 1)..b
      /\ \A m \in (a + 1)..b : \E i \in 1..Len(s) : s[i].kind = k /\ s[i].n = m
  BY <1>0 DEF Counted
<1> DEFINE t == Append(s, x)
<1>1. /\ t \in Seq(S) /\ Len(t) = Len(s) + 1 /\ Len(s) \in Nat
      /\ \A i \in 1..Len(s) : t[i] = s[i]
      /\ t[Len(s) + 1] = x
  BY AppendProperties, LenProperties
<1> HIDE DEF t
<1>3. ASSUME NEW i \in 1..Len(t), NEW j \in 1..Len(t), t[i].kind = k, t[j].kind = k, i < j
      PROVE  t[i].n < t[j].n
  <2>1. i \in 1..Len(s) /\ t[i] = s[i]
    BY <1>1, <1>3
  <2>2. CASE j \in 1..Len(s)
    BY <1>1, <1>2, <1>3, <2>1, <2>2
  <2>3. CASE j = Len(s) + 1
    <3>1. t[i].n \in (a + 1)..b /\ t[j].n = b + 1
      BY <1>1, <1>2, <1>3, <2>1, <2>3
    <3> QED
      BY <3>1
  <2> QED
    BY <1>1, <2>2, <2>3
<1>4. ASSUME NEW i \in 1..Len(t), t[i].kind = k
      PROVE  t[i].n \in (a + 1)..(b + 1)
  <2>1. CASE i \in 1..Len(s)
    <3>1. t[i].n \in (a + 1)..b
      BY <1>1, <1>2, <1>4, <2>1
    <3> QED
      BY <3>1
  <2>2. CASE i = Len(s) + 1
    BY <1>1, <2>2
  <2> QED
    BY <1>1, <2>1, <2>2
<1>5. ASSUME NEW m \in (a + 1)..(b + 1)
      PROVE  \E i \in 1..Len(t) : t[i].kind = k /\ t[i].n = m
  <2>1. CASE m = b + 1
    <3>1. Len(s) + 1 \in 1..Len(t)
      BY <1>1
    <3> QED
      BY <1>1, <2>1, <3>1
  <2>2. CASE m \in (a + 1)..b
    <3>1. PICK i \in 1..Len(s) : s[i].kind = k /\ s[i].n = m
      BY <1>2, <2>2
    <3>2. i \in 1..Len(t)
      BY <1>1
    <3> QED
      BY <1>1, <3>1, <3>2
  <2> QED
    BY <2>1, <2>2
<1>6. Counts(t, k, a, b + 1)
  <2>1. Counted(t, k, a, b + 1)
    BY <1>1, <1>3, <1>4, <1>5 DEF Counted
  <2> QED
    BY <1>1, <2>1, CountsMeans
<1> QED
  BY <1>6 DEF t

\* Something that is not of the kind is written.
LEMMA CountsPast ==
  ASSUME NEW S, NEW s \in Seq(S), NEW t \in Seq(S), NEW k, NEW a \in Nat, NEW b \in Nat,
         Counts(s, k, a, b), \A i \in 1..Len(t) : t[i].kind # k
  PROVE  Counts(s \o t, k, a, b)
<1>0. Counted(s, k, a, b)
  BY CountsMeans
<1>2. /\ \A i, j \in 1..Len(s) : s[i].kind = k /\ s[j].kind = k /\ i < j => s[i].n < s[j].n
      /\ \A i \in 1..Len(s) : s[i].kind = k => s[i].n \in (a + 1)..b
      /\ \A m \in (a + 1)..b : \E i \in 1..Len(s) : s[i].kind = k /\ s[i].n = m
  BY <1>0 DEF Counted
<1> DEFINE u == s \o t
<1>1. /\ u \in Seq(S) /\ Len(u) = Len(s) + Len(t) /\ Len(s) \in Nat /\ Len(t) \in Nat
      /\ \A i \in 1..Len(s) : u[i] = s[i]
      /\ \A i \in 1..Len(u) : i > Len(s) => u[i] = t[i - Len(s)] /\ i - Len(s) \in 1..Len(t)
  BY ConcatProperties, LenProperties
<1> HIDE DEF u
<1>3. \A i \in 1..Len(u) : u[i].kind = k => i \in 1..Len(s) /\ u[i] = s[i]
  <2> SUFFICES ASSUME NEW i \in 1..Len(u), u[i].kind = k PROVE i \in 1..Len(s)
    BY <1>1
  <2>1. ~(i > Len(s))
    BY <1>1
  <2> QED
    BY <1>1, <2>1
<1>4. \A m \in (a + 1)..b : \E i \in 1..Len(u) : u[i].kind = k /\ u[i].n = m
  <2> SUFFICES ASSUME NEW m \in (a + 1)..b
               PROVE  \E i \in 1..Len(u) : u[i].kind = k /\ u[i].n = m
    OBVIOUS
  <2>1. PICK i \in 1..Len(s) : s[i].kind = k /\ s[i].n = m
    BY <1>2
  <2>2. i \in 1..Len(u) /\ u[i] = s[i]
    BY <1>1
  <2> QED
    BY <2>1, <2>2
<1>5. \A i, j \in 1..Len(u) : u[i].kind = k /\ u[j].kind = k /\ i < j => u[i].n < u[j].n
  BY <1>2, <1>3
<1>6. \A i \in 1..Len(u) : u[i].kind = k => u[i].n \in (a + 1)..b
  BY <1>2, <1>3
<1>7. Counts(u, k, a, b)
  <2>1. Counted(u, k, a, b)
    BY <1>1, <1>4, <1>5, <1>6 DEF Counted
  <2> QED
    BY <1>1, <2>1, CountsMeans
<1> QED
  BY <1>7 DEF u

\* One piece that is not of the kind is written.
LEMMA CountsBeside ==
  ASSUME NEW S, NEW s \in Seq(S), NEW x \in S, NEW k, NEW a \in Nat, NEW b \in Nat,
         Counts(s, k, a, b), x.kind # k
  PROVE  Counts(Append(s, x), k, a, b) /\ Counts(s \o <<x>>, k, a, b)
<1>1. <<x>> \in Seq(S) /\ \A i \in 1..Len(<<x>>) : <<x>>[i].kind # k
  OBVIOUS
<1>2. Counts(s \o <<x>>, k, a, b)
  BY <1>1, CountsPast
<1>3. Append(s, x) = s \o <<x>>
  OBVIOUS
<1> QED
  BY <1>2, <1>3

\* The first piece is read: it is the next of its kind, or of another kind.
LEMMA CountsRead ==
  ASSUME NEW S, NEW s \in Seq(S), s # <<>>, NEW k, NEW a \in Nat, NEW b \in Nat,
         Counts(s, k, a, b)
  PROVE  /\ Head(s).kind # k => Counts(Tail(s), k, a, b)
         /\ Head(s).kind = k => Head(s).n = a + 1 /\ a < b /\ Counts(Tail(s), k, a + 1, b)
<1>0. Counted(s, k, a, b)
  BY CountsMeans
<1>2. /\ \A i, j \in 1..Len(s) : s[i].kind = k /\ s[j].kind = k /\ i < j => s[i].n < s[j].n
      /\ \A i \in 1..Len(s) : s[i].kind = k => s[i].n \in (a + 1)..b
      /\ \A m \in (a + 1)..b : \E i \in 1..Len(s) : s[i].kind = k /\ s[i].n = m
  BY <1>0 DEF Counted
<1> DEFINE t == Tail(s)
<1>1. /\ t \in Seq(S) /\ Len(t) = Len(s) - 1 /\ Len(s) \in Nat \ {0}
      /\ \A i \in 1..Len(t) : t[i] = s[i + 1] /\ i + 1 \in 1..Len(s)
      /\ s[1] = Head(s) /\ 1 \in 1..Len(s)
      /\ \A i \in 1..Len(s) : i # 1 => i - 1 \in 1..Len(t) /\ t[i - 1] = s[i]
  BY HeadTailProperties, LenProperties
<1> HIDE DEF t
<1>3. \A i, j \in 1..Len(t) : t[i].kind = k /\ t[j].kind = k /\ i < j => t[i].n < t[j].n
  <2> SUFFICES ASSUME NEW i \in 1..Len(t), NEW j \in 1..Len(t),
                      t[i].kind = k, t[j].kind = k, i < j
               PROVE  t[i].n < t[j].n
    OBVIOUS
  <2>1. i + 1 < j + 1 /\ i + 1 \in 1..Len(s) /\ j + 1 \in 1..Len(s)
    BY <1>1
  <2>2. t[i] = s[i + 1] /\ t[j] = s[j + 1]
    BY <1>1
  <2>3. s[i + 1].n < s[j + 1].n
    BY <1>2, <2>1, <2>2
  <2> QED
    BY <2>2, <2>3
<1>4. \A i \in 1..Len(t) : t[i].kind = k => t[i].n \in (a + 1)..b
  BY <1>1, <1>2
<1>5. ASSUME Head(s).kind # k PROVE Counts(t, k, a, b)
  <2>1. \A m \in (a + 1)..b : \E i \in 1..Len(t) : t[i].kind = k /\ t[i].n = m
    <3> SUFFICES ASSUME NEW m \in (a + 1)..b
                 PROVE  \E i \in 1..Len(t) : t[i].kind = k /\ t[i].n = m
      OBVIOUS
    <3>1. PICK i \in 1..Len(s) : s[i].kind = k /\ s[i].n = m
      BY <1>2
    <3>2. i # 1
      BY <1>1, <1>5, <3>1
    <3> QED
      BY <1>1, <3>1, <3>2
  <2> QED
    BY <1>1, <1>3, <1>4, <2>1, CountsMeans DEF Counted
<1>6. ASSUME Head(s).kind = k
      PROVE  Head(s).n = a + 1 /\ a < b /\ Counts(t, k, a + 1, b)
  <2>1. Head(s).n \in (a + 1)..b
    BY <1>1, <1>2, <1>6
  <2>2. a < b /\ a + 1 \in (a + 1)..b
    BY <2>1
  <2>3. \A i \in 1..Len(t) : t[i].kind = k => t[i].n > Head(s).n
    <3> SUFFICES ASSUME NEW i \in 1..Len(t), t[i].kind = k PROVE t[i].n > Head(s).n
      OBVIOUS
    <3>1. 1 < i + 1 /\ i + 1 \in 1..Len(s) /\ s[i + 1].kind = k /\ t[i].n = s[i + 1].n
      BY <1>1
    <3>2. s[1].n < s[i + 1].n
      BY <1>1, <1>2, <1>6, <3>1
    <3>3. t[i].n \in (a + 1)..b
      BY <1>4
    <3> QED
      BY <1>1, <2>1, <3>1, <3>2, <3>3
  <2>4. Head(s).n = a + 1
    <3>1. PICK i \in 1..Len(s) : s[i].kind = k /\ s[i].n = a + 1
      BY <1>2, <2>2
    <3>2. CASE i = 1
      BY <1>1, <3>1, <3>2
    <3>3. CASE i # 1
      <4>1. i - 1 \in 1..Len(t) /\ t[i - 1].kind = k /\ t[i - 1].n = a + 1
        BY <1>1, <3>1, <3>3
      <4>2. a + 1 > Head(s).n
        BY <2>3, <4>1
      <4> QED
        BY <2>1, <4>2
    <3> QED
      BY <3>2, <3>3
  <2>5. \A i \in 1..Len(t) : t[i].kind = k => t[i].n \in (a + 1 + 1)..b
    <3> SUFFICES ASSUME NEW i \in 1..Len(t), t[i].kind = k PROVE t[i].n \in (a + 1 + 1)..b
      OBVIOUS
    <3>1. t[i].n \in (a + 1)..b /\ t[i].n > a + 1
      BY <1>4, <2>3, <2>4
    <3> QED
      BY <3>1
  <2>6. \A m \in (a + 1 + 1)..b : \E i \in 1..Len(t) : t[i].kind = k /\ t[i].n = m
    <3> SUFFICES ASSUME NEW m \in (a + 1 + 1)..b
                 PROVE  \E i \in 1..Len(t) : t[i].kind = k /\ t[i].n = m
      OBVIOUS
    <3>1. m \in (a + 1)..b /\ m # a + 1
      OBVIOUS
    <3>2. PICK i \in 1..Len(s) : s[i].kind = k /\ s[i].n = m
      BY <1>2, <3>1
    <3>3. i # 1
      BY <1>1, <2>4, <3>1, <3>2
    <3> QED
      BY <1>1, <3>2, <3>3
  <2> QED
    BY <1>1, <1>3, <2>2, <2>4, <2>5, <2>6, CountsMeans DEF Counted
<1> QED
  BY <1>5, <1>6 DEF t

\* What holds none of a kind has counted none of it.
LEMMA CountsNone ==
  ASSUME NEW S, NEW s \in Seq(S), NEW k, NEW a \in Nat, NEW b \in Nat, a <= b,
         Counts(s, k, a, b), \A i \in 1..Len(s) : s[i].kind # k
  PROVE  a = b
<1>1. \A m \in (a + 1)..b : \E i \in 1..Len(s) : s[i].kind = k /\ s[i].n = m
  <2>1. Counted(s, k, a, b)
    BY CountsMeans
  <2> QED
    BY <2>1 DEF Counted
<1>2. CASE a < b
  <2>1. a + 1 \in (a + 1)..b
    BY <1>2
  <2> QED
    BY <1>1, <2>1
<1> QED
  BY <1>2

\* Of nothing there is no beginning but nothing.
LEMMA NoPrefix == Prefixes(<<>>) = {<<>>}
<1>1. Len(<<>>) = 0 /\ 0..0 = {0} /\ SubSeq(<<>>, 1, 0) = <<>>
  OBVIOUS
<1>2. Prefixes(<<>>) = {SubSeq(<<>>, 1, n) : n \in {0}}
  BY <1>1 DEF Prefixes
<1> QED
  BY <1>1, <1>2

\* The steps of the script open nothing and close nothing.
LEMMA OpenChild ==
  ASSUME TypeOK, OpenInv, ChildStep, UNCHANGED <<agentVars, clientVars>>
  PROVE  OpenInv'
<1> USE DEF OpenInv, Waiting, agentVars, clientVars
<1>1. ASSUME NEW piece, Say(piece), "master" \notin fds PROVE pty' = <<>>
  BY <1>1 DEF Say
<1>2. CASE Ask
  BY <1>1, <1>2 DEF Ask
<1>3. CASE ReadPw
  BY <1>3 DEF ReadPw
<1>4. CASE Sudo
  BY <1>1, <1>4 DEF Sudo
<1>5. CASE MakeNoise
  BY <1>1, <1>5 DEF MakeNoise
<1>6. CASE RcExit
  BY <1>6 DEF RcExit
<1>7. CASE Start
  BY <1>1, <1>7 DEF Start
<1>8. CASE CmdOut
  BY <1>1, <1>8 DEF CmdOut
<1>9. CASE CmdErr
  BY <1>9 DEF CmdErr
<1>10. CASE Done
  BY <1>1, <1>10 DEF Done
<1>11. CASE CmdExits
  BY <1>11 DEF CmdExits
<1>12. CASE Exit
  BY <1>12 DEF Exit
<1>13. CASE Fork
  BY <1>13 DEF Fork
<1>14. CASE Killed
  BY <1>14 DEF Killed
<1>15. CASE DaemonSpeaks
  BY <1>1, <1>15 DEF DaemonSpeaks
<1>16. CASE DaemonEnds
  BY <1>16 DEF DaemonEnds
<1> QED
  BY <1>2, <1>3, <1>4, <1>5, <1>6, <1>7, <1>8, <1>9, <1>10, <1>11, <1>12, <1>13,
     <1>14, <1>15, <1>16 DEF ChildStep, ScriptStep

\* The agent opens both terminals with the shell, and closes one when nothing
\* is in it and the shell is gone.
LEMMA OpenAgent ==
  ASSUME TypeOK, SessionInv, OpenInv, AgentStep \/ KillAgent \/ HangAgent \/ OtherEnds,
         UNCHANGED clientVars
  PROVE  OpenInv'
<1> USE DEF OpenInv, Waiting, clientVars
<1>0. AgentInv /\ errpty \in Nat /\ erred \in Nat /\ stage \in Stages
  BY ChildAssumption DEF SessionInv, TypeOK, AgentTypeOK, ChildTypeOK
<1>1. CASE ReadRequest
  BY <1>0, <1>1 DEF ReadRequest, AgentInv, childVars, Send
<1>2. CASE AcquireLock
  BY <1>0, <1>2 DEF AcquireLock, AgentInv, childVars
<1>3. CASE SpawnShell
  BY <1>0, <1>3 DEF SpawnShell, AgentInv
<1>4. CASE ReadMaster
  <2>1. /\ "master" \in fds /\ apc \in {"pump", "drain"}
        /\ UNCHANGED <<apc, stage, errpty, fds, daemon, said, erred, noise, bracketed, log>>
    BY <1>4 DEF ReadMaster, Reading
  <2> QED
    BY <2>1
<1>5. CASE MasterEnds
  <2>1. /\ pty = <<>> /\ stage \in {"closed", "exited"} /\ apc \in {"pump", "drain"}
        /\ fds' = fds \ {"master"}
        /\ UNCHANGED <<apc, stage, pty, errpty, daemon, said, erred, noise, bracketed, log>>
    BY <1>5 DEF MasterEnds, Reading, SlaveOpen
  <2> QED
    BY <2>1
<1>6. CASE ReadErr
  <2>1. /\ apc \in {"pump", "drain"} /\ "errpipe" \in fds
        /\ UNCHANGED <<apc, stage, pty, daemon, said, erred, noise, bracketed, log>>
        /\ \/ UNCHANGED fds
           \/ /\ fds' = fds \ {"errpipe"} /\ stage \in {"closed", "exited"} /\ errpty = 0
              /\ errpty' = 0
    BY <1>0, <1>6 DEF ReadErr, ErrReady, Reading, SlaveOpen
  <2> QED
    BY <2>1
<1>7. CASE TryWait \/ Wait
  BY <1>7 DEF TryWait, Wait, childVars
<1>8. CASE EndDrain
  <2>1. /\ apc' = "settle" /\ fds' = {} /\ pty' = <<>> /\ stage \in {"none", "exited"}
        /\ UNCHANGED <<stage, errpty, daemon, said, erred, noise, bracketed, log>>
    BY <1>0, <1>8 DEF EndDrain, AgentInv, Reported
  <2>2. errpty = 0
    BY <1>0, <1>8 DEF EndDrain, Drained, ErrReady
  <2> QED
    BY <2>1, <2>2
<1>9. CASE Settle \/ DropGuard
  BY <1>9 DEF Settle, DropGuard, childVars
<1>10. CASE SendExit
  BY <1>10 DEF SendExit, childVars
<1>11. CASE KillAgent
  BY <1>11 DEF KillAgent
<1>12. CASE HangAgent \/ OtherEnds
  BY <1>12 DEF HangAgent, OtherEnds, childVars, Gone
<1> QED
  BY <1>1, <1>2, <1>3, <1>4, <1>5, <1>6, <1>7, <1>8, <1>9, <1>10, <1>11, <1>12 DEF AgentStep

\* What the client and the connection do to what the agent has in hand.
LEMMA ClientMoves ==
  ASSUME TypeOK, [Next]_vars,
         ~(ChildStep /\ UNCHANGED <<agentVars, clientVars>>),
         ~((AgentStep \/ KillAgent \/ HangAgent \/ OtherEnds) /\ UNCHANGED clientVars)
  PROVE  /\ UNCHANGED <<childVars, held, flags>>
         /\ \/ /\ cpc = "dial" /\ exit' = NoExit /\ log' = log
               /\ \/ cpc' = "frames" /\ wire' = <<>> /\ apc' \in {"request", "missing"}
                  \/ cpc' = "judge" /\ UNCHANGED <<wire, apc>>
            \/ ReadFrame
            \/ /\ UNCHANGED <<apc, log, exit>>
               /\ \/ UNCHANGED <<cpc, link, wire>>
                  \/ cpc' # "frames" /\ UNCHANGED <<link, wire>>
                  \/ cpc' # "frames" /\ wire' = <<>>
                  \/ UNCHANGED cpc /\ link' # "up" /\ wire' \in Prefixes(wire)
<1> USE DEF agentVars, clientVars
<1>1. CASE Dial
  BY <1>1 DEF Dial
<1>2. CASE ReadFrame
  BY <1>2 DEF ReadFrame
<1>3. CASE EndOfFrames \/ Stall \/ EndOfStderr \/ Judge \/ Banner
  BY <1>3 DEF EndOfFrames, Stall, EndOfStderr, Judge, Banner
<1>4. CASE Install
  BY <1>4 DEF Install
<1>5. CASE Abort
  BY <1>5 DEF Abort
<1>6. CASE Cut
  BY <1>6 DEF Cut
<1>7. CASE GiveUp
  <2>1. UNCHANGED <<cpc, wire>> /\ link' # "up" /\ wire \in Seq(Frames)
    BY <1>7 DEF GiveUp, TypeOK, AgentTypeOK
  <2>2. wire = SubSeq(wire, 1, Len(wire)) /\ Len(wire) \in 0..Len(wire)
    BY <2>1
  <2>3. wire' \in Prefixes(wire)
    BY <2>1, <2>2 DEF Prefixes
  <2> QED
    BY <1>7, <2>1, <2>3 DEF GiveUp
<1>8. CASE Sweep \/ UNCHANGED vars
  BY <1>8 DEF Sweep, vars
<1> QED
  BY <1>1, <1>2, <1>3, <1>4, <1>5, <1>6, <1>7, <1>8 DEF Next, ClientStep

\* The client reads what there is, and throws away no more than that.
LEMMA OpenClient ==
  ASSUME TypeOK, SessionInv, OpenInv, [Next]_vars,
         ~(ChildStep /\ UNCHANGED <<agentVars, clientVars>>),
         ~((AgentStep \/ KillAgent \/ HangAgent \/ OtherEnds) /\ UNCHANGED clientVars)
  PROVE  OpenInv'
<1>0. UNCHANGED <<childVars, held, flags>> /\ (cpc = "dial" => apc \in {"off", "missing"})
  BY ClientMoves DEF SessionInv, ClientInv
<1>1. apc' \in {"off", "missing", "request", "lock", "spawn"} =>
        /\ log' = <<>> /\ wire' = <<>>
        /\ apc \in {"off", "missing", "request", "lock", "spawn"}
  <2>1. CASE cpc = "dial" /\ exit' = NoExit /\ log' = log
             /\ \/ cpc' = "frames" /\ wire' = <<>> /\ apc' \in {"request", "missing"}
                \/ cpc' = "judge" /\ UNCHANGED <<wire, apc>>
    BY <1>0, <2>1 DEF OpenInv
  <2>2. CASE ReadFrame
    BY <2>2 DEF ReadFrame, OpenInv
  <2>3. CASE UNCHANGED <<apc, log>> /\ (UNCHANGED wire \/ wire' = <<>> \/ wire' \in Prefixes(wire))
    BY <2>3, NoPrefix DEF OpenInv
  <2> QED
    BY <2>1, <2>2, <2>3, ClientMoves
<1>2. apc' = apc \/ apc' \in {"request", "missing"}
  BY ClientMoves DEF ReadFrame
<1>3. apc' # apc => apc \in {"off", "missing"}
  BY <1>0, ClientMoves DEF ReadFrame
<1> QED
  BY <1>0, <1>1, <1>2, <1>3 DEF OpenInv, childVars

\* The terminals are opened and closed together with the shell.
LEMMA OpenStep ==
  ASSUME TypeOK, SessionInv, OpenInv, [Next]_vars
  PROVE  OpenInv'
<1>1. CASE ChildStep /\ UNCHANGED <<agentVars, clientVars>>
  BY <1>1, OpenChild
<1>2. CASE (AgentStep \/ KillAgent \/ HangAgent \/ OtherEnds) /\ UNCHANGED clientVars
  BY <1>2, OpenAgent
<1> QED
  BY <1>1, <1>2, OpenClient
---------------------------------------------------------------------------
\* What reading one piece of the terminal does.
ReadOne(piece) ==
  /\ pty' = Tail(pty)
  /\ "started" \in flags \/ piece.kind = "Started" => "started" \in flags'
  /\ "done" \in flags' <=> "done" \in flags \/ piece.kind = "Done"
  /\ UNCHANGED <<apc, outcome, lk, link, stage, status, echo, errpty, fds,
                 daemon, said, erred, noise, bracketed, ran>>

\* A piece is dropped, forwarded, kept back, forwarded with all that was kept
\* back, or a marker.
Dropped(piece)   == piece.kind \in Forwarded /\ "done" \in flags /\ UNCHANGED <<held, flags, wire>>
Passed(piece)    == /\ piece.kind \in Forwarded /\ "done" \notin flags /\ "started" \in flags
                    /\ Send(<<Frame(piece.kind, piece.n)>>) /\ UNCHANGED <<held, flags>>
KeptBack(piece)  == /\ piece.kind \in Forwarded /\ "done" \notin flags /\ "started" \notin flags
                    /\ HoldRoom /\ held' = Append(held, piece) /\ UNCHANGED <<flags, wire>>
SpiltOver(piece) == /\ piece.kind \in Forwarded /\ "done" \notin flags /\ "started" \notin flags
                    /\ ~HoldRoom /\ Send(AsFrames(Append(held, piece)))
                    /\ held' = <<>> /\ flags' = flags \cup {"started"}
Opening(piece)   == /\ piece.kind = "Started" /\ held' = <<>> /\ UNCHANGED wire
                    /\ flags' = flags \cup {"started"}
Marked(piece)    == /\ piece.kind \in {"Done", "PwReady", "SudoFailed"} /\ UNCHANGED held
                    /\ "started" \in flags' <=> "started" \in flags
                    /\ UNCHANGED wire \/ Send(<<Frame("SudoFailed", 0)>>)

\* One of these six is what happens.
LEMMA ReadMasterMeans ==
  ASSUME TypeOK, SessionInv, ReadMaster
  PROVE  /\ pty # <<>> /\ "master" \in fds /\ Head(pty) \in Pieces /\ apc \in {"pump", "drain"}
         /\ ReadOne(Head(pty))
         /\ \/ Dropped(Head(pty)) \/ Passed(Head(pty)) \/ KeptBack(Head(pty))
            \/ SpiltOver(Head(pty)) \/ Opening(Head(pty)) \/ Marked(Head(pty))
<1> DEFINE piece == Head(pty)
<1>1. pty # <<>> /\ "master" \in fds /\ apc \in {"pump", "drain"} /\ pty \in Seq(CleanPieces)
  BY DEF ReadMaster, Reading, SessionInv, CleanStreams
<1>2. piece \in CleanPieces
  BY <1>1, HeadTailProperties
<1>3. piece \in Pieces
  BY <1>2 DEF CleanPieces
<1>4. UNCHANGED <<apc, outcome, lk, link, stage, status, echo, errpty, fds,
                  daemon, said, erred, noise, bracketed, ran>>
  BY DEF ReadMaster
<1> HIDE DEF piece
<1>5. CASE ConsumeOut(piece)
  <2>1. piece.kind \in Forwarded /\ pty' = Tail(pty) /\ piece.kind \notin {"Started", "Done"}
    BY <1>5 DEF ConsumeOut, Forwarded
  <2>2. CASE "done" \in flags
    <3>1. ReadOne(piece) /\ Dropped(piece)
      BY <1>4, <1>5, <2>1, <2>2 DEF ConsumeOut, ReadOne, Dropped
    <3> QED
      BY <1>1, <1>3, <3>1 DEF piece
  <2>3. CASE "done" \notin flags /\ "started" \in flags
    <3>1. ReadOne(piece) /\ Passed(piece)
      BY <1>4, <1>5, <2>1, <2>3 DEF ConsumeOut, Stash, Holding, ReadOne, Passed
    <3> QED
      BY <1>1, <1>3, <3>1 DEF piece
  <2>4. CASE "done" \notin flags /\ "started" \notin flags /\ HoldRoom
    <3>1. ReadOne(piece) /\ KeptBack(piece)
      BY <1>4, <1>5, <2>1, <2>4 DEF ConsumeOut, Stash, Holding, ReadOne, KeptBack
    <3> QED
      BY <1>1, <1>3, <3>1 DEF piece
  <2>5. CASE "done" \notin flags /\ "started" \notin flags /\ ~HoldRoom
    <3>1. ReadOne(piece) /\ SpiltOver(piece)
      BY <1>4, <1>5, <2>1, <2>5 DEF ConsumeOut, Stash, Holding, ReadOne, SpiltOver
    <3> QED
      BY <1>1, <1>3, <3>1 DEF piece
  <2> QED
    BY <2>2, <2>3, <2>4, <2>5
<1>6. CASE ConsumeBoundary(piece)
  <2>1. CASE piece.kind = "Started"
    <3>1. ReadOne(piece) /\ Opening(piece)
      BY <1>4, <1>6, <2>1 DEF ConsumeBoundary, ReadOne, Opening
    <3> QED
      BY <1>1, <1>3, <3>1 DEF piece
  <2>2. CASE piece.kind = "Done"
    <3>1. ReadOne(piece) /\ Marked(piece)
      BY <1>4, <1>6, <2>2 DEF ConsumeBoundary, ReadOne, Marked
    <3> QED
      BY <1>1, <1>3, <3>1 DEF piece
  <2> QED
    BY <1>6, <2>1, <2>2 DEF ConsumeBoundary
<1>7. CASE ConsumePwReady(piece)
  <2>1. piece.kind = "PwReady" /\ UNCHANGED <<held, wire>>
    BY <1>7 DEF ConsumePwReady
  <2>2. "pwsent" \notin flags => ~echo
    BY <1>2, <2>1 DEF CleanPieces
  <2>3. pty' = Tail(pty) /\ flags' \in {flags, flags \cup {"pwsent"}}
    BY <1>7, <2>2 DEF ConsumePwReady
  <2>4. ReadOne(piece) /\ Marked(piece)
    BY <1>4, <2>1, <2>3 DEF ReadOne, Marked
  <2> QED
    BY <1>1, <1>3, <2>4 DEF piece
<1>8. CASE ConsumeSudoFailed(piece)
  <2>1. ReadOne(piece) /\ Marked(piece)
    BY <1>4, <1>8 DEF ConsumeSudoFailed, ReadOne, Marked
  <2> QED
    BY <1>1, <1>3, <2>1 DEF piece
<1> QED
  BY <1>5, <1>6, <1>7, <1>8 DEF ReadMaster, piece

\* What the other steps of the agent leave of the terminal.
LEMMA AgentMoves ==
  ASSUME TypeOK, SessionInv, OpenInv, AgentStep \/ KillAgent \/ HangAgent \/ OtherEnds,
         UNCHANGED clientVars
  PROVE  /\ UNCHANGED <<said, erred, noise, bracketed, status>>
         /\ \/ ReadMaster
            \/ SpawnShell
            \/ MasterEnds /\ pty = <<>> /\ stage \in {"closed", "exited"}
            \/ EndDrain /\ pty = <<>> /\ errpty = 0 /\ stage \in {"none", "exited"}
            \/ KillAgent
            \/ ReadErr /\ UNCHANGED <<stage, typed, pty, held, flags, noise>>
                 /\ fds' \subseteq fds /\ ("master" \in fds' <=> "master" \in fds)
            \/ UNCHANGED <<stage, typed, pty, errpty, held, flags, fds, noise>>
                 /\ (wire' = wire \/ ReadRequest \/ AcquireLock \/ SendExit)
<1>0. AgentInv /\ errpty \in Nat
  BY ChildAssumption DEF SessionInv, TypeOK, AgentTypeOK, ChildTypeOK
<1>1. CASE ReadRequest \/ AcquireLock \/ TryWait \/ Wait \/ Settle \/ DropGuard \/ SendExit
             \/ HangAgent \/ OtherEnds
  BY <1>1 DEF ReadRequest, AcquireLock, TryWait, Wait, Settle, DropGuard, SendExit, HangAgent,
     OtherEnds, childVars
<1>2. CASE ReadErr
  BY <1>2 DEF ReadErr
<1>3. CASE MasterEnds
  BY <1>3 DEF MasterEnds, SlaveOpen
<1>4. CASE EndDrain
  <2>1. stage \in {"none", "exited"}
    BY <1>0, <1>4 DEF EndDrain, AgentInv, Reported
  <2>2. pty = <<>>
    BY <1>4 DEF EndDrain, Drained, MasterReady, OpenInv
  <2>3. errpty = 0
    BY <1>0, <1>4 DEF EndDrain, Drained, ErrReady, OpenInv
  <2> QED
    BY <1>4, <2>1, <2>2, <2>3 DEF EndDrain
<1>5. CASE SpawnShell
  BY <1>5 DEF SpawnShell
<1>6. CASE KillAgent
  BY <1>6 DEF KillAgent
<1>7. CASE ReadMaster
  BY <1>7 DEF ReadMaster
<1> QED
  BY <1>1, <1>2, <1>3, <1>4, <1>5, <1>6, <1>7 DEF AgentStep

\* Until sudo has answered nothing but the question is in the terminal, and
\* the reader has seen no marker of the command.
LEMMA EarlyStep ==
  ASSUME TypeOK, SessionInv, OpenInv, EarlyInv, [Next]_vars
  PROVE  EarlyInv'
<1> USE DEF EarlyInv
<1>1. CASE ChildStep /\ UNCHANGED <<agentVars, clientVars>>
  <2>1. CASE Ask
    <3>1. pty = <<>> /\ (pty' = <<>> \/ pty' = Append(<<>>, Mark("PwReady")))
      BY <2>1 DEF Ask, Say
    <3> QED
      BY <1>1, <2>1, <3>1 DEF Ask, agentVars
  <2>2. CASE ReadPw
    BY <1>1, <2>2 DEF ReadPw, agentVars
  <2>3. CASE stage' \notin {"ask", "pwread", "sudo"}
    BY <2>3
  <2>4. CASE UNCHANGED <<stage, noise, typed, pty>>
    BY <1>1, <2>4 DEF agentVars
  <2>5. CASE stage \notin {"ask", "pwread", "sudo"} /\ UNCHANGED stage
    BY <2>5
  <2> QED
    BY <1>1, <2>1, <2>2, <2>3, <2>4, <2>5
    DEF ChildStep, ScriptStep, Sudo, MakeNoise, RcExit, Start, CmdOut, CmdErr, Done, CmdExits,
        Exit, Fork, Killed, DaemonSpeaks, DaemonEnds
<1>2. CASE (AgentStep \/ KillAgent \/ HangAgent \/ OtherEnds) /\ UNCHANGED clientVars
  <2>1. CASE ReadMaster
    <3>1. /\ pty # <<>> /\ ReadOne(Head(pty)) /\ UNCHANGED <<stage, noise>>
      BY <2>1, ReadMasterMeans DEF ReadOne
    <3>2. CASE stage = "pwread"
      <4>1. pty = <<Mark("PwReady")>> /\ Head(pty).kind = "PwReady"
        BY <3>1, <3>2 DEF Mark
      <4>2. ConsumePwReady(Head(pty))
        BY <2>1, <4>1
        DEF ReadMaster, ConsumeOut, ConsumeBoundary, ConsumeSudoFailed, Forwarded
      <4>3. pty' = <<>>
        BY <3>1, <4>1 DEF ReadOne
      <4> QED
        BY <3>1, <3>2, <4>2, <4>3 DEF ConsumePwReady
    <3>3. CASE stage # "pwread"
      BY <3>1, <3>3
    <3> QED
      BY <3>2, <3>3
  <2>2. CASE SpawnShell
    <3>1. /\ stage = "none" /\ noise = 0 /\ pty = <<>> /\ held = <<>> /\ flags = {} /\ ~typed
          /\ stage' \in {"none", "ask", "boot"}
      BY <2>2 DEF SpawnShell, SessionInv, AgentInv, OpenInv, CleanStreams
    <3> QED
      BY <2>2, <3>1 DEF SpawnShell
  <2>3. CASE (MasterEnds \/ EndDrain) /\ stage \in {"none", "closed", "exited"}
    BY <2>3 DEF MasterEnds, EndDrain
  <2>4. CASE KillAgent
    BY <2>4 DEF KillAgent
  <2>5. CASE UNCHANGED <<stage, typed, pty, held, flags, noise>>
    BY <2>5
  <2> QED
    BY <1>2, <2>1, <2>2, <2>3, <2>4, <2>5, AgentMoves
<1>3. CASE UNCHANGED <<childVars, held, flags>>
  BY <1>3 DEF childVars
<1> QED
  BY <1>1, <1>2, <1>3, ClientMoves
---------------------------------------------------------------------------
\* What the reader will have seen does not change as the terminal is written to.
LEMMA SeenWhenWritten ==
  ASSUME TypeOK, NEW x \in Pieces, pty' = Append(pty, x), flags' = flags
  PROVE  /\ End' = End + 1 /\ End \in 1..End' /\ Len(pty)' = End /\ pty'[End] = x
         /\ \A i \in 1..Len(pty) : pty'[i] = pty[i]
         /\ \A i \in 1..Len(pty)' : i # End => i \in 1..Len(pty)
         /\ \A i \in 1..End : StartedBy(i)' = StartedBy(i) /\ DoneBy(i)' = DoneBy(i)
         /\ StartedBy(End)' <=> StartedBy(End) \/ x.kind = "Started"
         /\ DoneBy(End)' <=> DoneBy(End) \/ x.kind = "Done"
<1>1. pty \in Seq(Pieces) /\ Len(pty) \in Nat /\ End = Len(pty) + 1
  BY DEF TypeOK, AgentTypeOK, ChildTypeOK, End
<1>2. /\ Len(pty)' = Len(pty) + 1 /\ pty'[Len(pty) + 1] = x
      /\ \A i \in 1..Len(pty) : pty'[i] = pty[i]
  BY <1>1
<1>3. End' = Len(pty) + 2
  BY <1>1, <1>2 DEF End
<1>4. \A i \in 1..End : StartedBy(i)' = StartedBy(i) /\ DoneBy(i)' = DoneBy(i)
  <2> SUFFICES ASSUME NEW i \in 1..End
               PROVE  StartedBy(i)' = StartedBy(i) /\ DoneBy(i)' = DoneBy(i)
    OBVIOUS
  <2>1. \A j \in 1..(i - 1) : pty'[j] = pty[j]
    BY <1>1, <1>2
  <2> QED
    BY <2>1 DEF StartedBy, DoneBy
<1>5. ASSUME NEW k
      PROVE  (\E j \in 1..(Len(pty) + 2 - 1) : pty'[j].kind = k)
               <=> (\E j \in 1..(Len(pty) + 1 - 1) : pty[j].kind = k) \/ x.kind = k
  <2>1. 1..(Len(pty) + 2 - 1) = 1..(Len(pty) + 1 - 1) \cup {Len(pty) + 1}
    BY <1>1
  <2>2. \A j \in 1..(Len(pty) + 1 - 1) : pty'[j] = pty[j]
    BY <1>1, <1>2
  <2> QED
    BY <1>2, <2>1, <2>2
<1>6. /\ StartedBy(End)' <=> StartedBy(End) \/ x.kind = "Started"
      /\ DoneBy(End)' <=> DoneBy(End) \/ x.kind = "Done"
  BY <1>1, <1>3, <1>5 DEF StartedBy, DoneBy
<1> QED
  BY <1>1, <1>2, <1>3, <1>4, <1>6

\* Nor as it is read, but that all of it moves up by one.
LEMMA SeenWhenRead ==
  ASSUME TypeOK, pty # <<>>, ReadOne(Head(pty))
  PROVE  /\ pty[1] = Head(pty) /\ 1 \in 1..Len(pty) /\ End = End' + 1
         /\ \A i \in 1..Len(pty)' : pty'[i] = pty[i + 1] /\ i + 1 \in 1..Len(pty)
         /\ \A i \in 1..End' : /\ StartedBy(i + 1) => StartedBy(i)'
                               /\ DoneBy(i)' <=> DoneBy(i + 1)
         /\ StartedBy(1) <=> "started" \in flags
         /\ DoneBy(1) <=> "done" \in flags
<1>1. pty \in Seq(Pieces) /\ Len(pty) \in Nat \ {0} /\ End = Len(pty) + 1
  BY DEF TypeOK, AgentTypeOK, ChildTypeOK, End
<1>2. /\ Len(pty)' = Len(pty) - 1 /\ pty[1] = Head(pty)
      /\ \A i \in 1..(Len(pty) - 1) : pty'[i] = pty[i + 1]
  BY <1>1 DEF ReadOne
<1>3. End' = Len(pty)
  BY <1>1, <1>2 DEF End
<1>4. ASSUME NEW i \in 1..Len(pty), NEW k
      PROVE  (\E j \in 1..(i + 1 - 1) : pty[j].kind = k)
               <=> Head(pty).kind = k \/ (\E j \in 1..(i - 1) : pty'[j].kind = k)
  <2>1. ASSUME NEW j \in 1..(i + 1 - 1), pty[j].kind = k, j # 1
        PROVE  j - 1 \in 1..(i - 1) /\ pty'[j - 1].kind = k
    <3>1. j - 1 \in 1..(i - 1) /\ j - 1 \in 1..(Len(pty) - 1) /\ (j - 1) + 1 = j
      BY <1>1, <2>1
    <3> QED
      BY <1>2, <2>1, <3>1
  <2>2. ASSUME NEW j \in 1..(i - 1), pty'[j].kind = k
        PROVE  j + 1 \in 1..(i + 1 - 1) /\ pty[j + 1].kind = k
    BY <1>1, <1>2, <2>2
  <2>3. 1 \in 1..(i + 1 - 1)
    OBVIOUS
  <2> QED
    BY <1>2, <2>1, <2>2, <2>3
<1>5. \A i \in 1..End' : /\ StartedBy(i + 1) => StartedBy(i)'
                         /\ DoneBy(i)' <=> DoneBy(i + 1)
  <2> SUFFICES ASSUME NEW i \in 1..Len(pty)
               PROVE  /\ StartedBy(i + 1) => StartedBy(i)'
                      /\ DoneBy(i)' <=> DoneBy(i + 1)
    BY <1>3
  <2>1. (\E j \in 1..(i + 1 - 1) : pty[j].kind = "Started")
          <=> Head(pty).kind = "Started" \/ (\E j \in 1..(i - 1) : pty'[j].kind = "Started")
    BY <1>4
  <2>2. (\E j \in 1..(i + 1 - 1) : pty[j].kind = "Done")
          <=> Head(pty).kind = "Done" \/ (\E j \in 1..(i - 1) : pty'[j].kind = "Done")
    BY <1>4
  <2>3. StartedBy(i + 1) => StartedBy(i)'
    BY <2>1 DEF StartedBy, ReadOne
  <2>4. DoneBy(i)' <=> DoneBy(i + 1)
    BY <2>2 DEF DoneBy, ReadOne
  <2> QED
    BY <2>3, <2>4
<1>6. (StartedBy(1) <=> "started" \in flags) /\ (DoneBy(1) <=> "done" \in flags)
  BY DEF StartedBy, DoneBy
<1> QED
  BY <1>1, <1>2, <1>3, <1>5, <1>6

\* What the script writes, and when.
LEMMA ChildWrites ==
  ASSUME TypeOK, ChildStep
  PROVE  \/ UNCHANGED pty
         \/ "master" \in fds /\ pty' = Append(pty, Mark("PwReady")) /\ stage' = "pwread" /\ Ask
         \/ "master" \in fds /\ pty' = Append(pty, Mark("SudoFailed")) /\ stage' = "exiting"
            /\ stage = "sudo" /\ UNCHANGED <<said, noise, bracketed>>
         \/ "master" \in fds /\ pty' = Append(pty, Noise) /\ MakeNoise
         \/ "master" \in fds /\ pty' = Append(pty, Mark("Started")) /\ Start
         \/ "master" \in fds /\ pty' = Append(pty, OutOf(Len(said) + 1)) /\ CmdOut
            /\ Len(said) + 1 \in 1..MaxOut
         \/ "master" \in fds /\ pty' = Append(pty, Mark("Done")) /\ Done
         \/ "master" \in fds /\ pty' = Append(pty, LeftOver) /\ DaemonSpeaks
<1>1. Len(said) \in Nat /\ MaxOut \in Nat
  BY ChildAssumption DEF TypeOK, AgentTypeOK, ChildTypeOK
<1>2. CASE UNCHANGED pty
  BY <1>2
<1>3. CASE Ask
  BY <1>3 DEF Ask, Say
<1>4. CASE Sudo
  BY <1>4 DEF Sudo, Say
<1>5. CASE MakeNoise
  BY <1>5 DEF MakeNoise, Say
<1>6. CASE Start
  BY <1>6 DEF Start, Say
<1>7. CASE CmdOut
  <2>1. Len(said) + 1 \in 1..MaxOut
    BY <1>1, <1>7 DEF CmdOut
  <2> QED
    BY <1>7, <2>1 DEF CmdOut, Say
<1>8. CASE Done
  BY <1>8 DEF Done, Say
<1>9. CASE DaemonSpeaks
  BY <1>9 DEF DaemonSpeaks, Say
<1> QED
  BY <1>2, <1>3, <1>4, <1>5, <1>6, <1>7, <1>8, <1>9
  DEF ChildStep, ScriptStep, ReadPw, RcExit, CmdErr, CmdExits, Exit, Fork, Killed, DaemonEnds

\* The script writes the markers around what the command says.
LEMMA MarkChild ==
  ASSUME TypeOK, SessionInv, OpenInv, MarkInv, ChildStep, UNCHANGED <<agentVars, clientVars>>
  PROVE  MarkInv'
<1>0. /\ UNCHANGED <<held, flags>> /\ fds' = fds
  BY DEF agentVars, ChildStep, ScriptStep, Ask, ReadPw, Sudo, MakeNoise, RcExit, Start, CmdOut,
     CmdErr, Done, CmdExits, Exit, Fork, Killed, DaemonSpeaks, DaemonEnds
<1>1. SUFFICES ASSUME "master" \in fds
               PROVE  /\ \A i \in 1..Len(pty)' : pty'[i].kind = "out" => StartedBy(i)' /\ ~DoneBy(i)'
                      /\ stage' = "cmd" => StartedBy(End)'
                      /\ bracketed' <=> DoneBy(End)'
                      /\ bracketed' => StartedBy(End)'
  BY <1>0 DEF MarkInv
<1>2. /\ \A i \in 1..Len(pty) : pty[i].kind = "out" => StartedBy(i) /\ ~DoneBy(i)
      /\ stage = "cmd" => StartedBy(End)
      /\ bracketed <=> DoneBy(End)
      /\ bracketed => StartedBy(End)
      /\ bracketed => stage \in {"unwind", "exiting", "closed", "exited"}
      /\ End = Len(pty) + 1 /\ Len(pty) \in Nat
  BY <1>1 DEF MarkInv, OpenInv, End, TypeOK, AgentTypeOK, ChildTypeOK
<1>3. ASSUME NEW x \in Pieces, pty' = Append(pty, x),
             x.kind = "out" => StartedBy(End) /\ ~DoneBy(End),
             stage' = "cmd" => StartedBy(End) \/ x.kind = "Started",
             bracketed' <=> DoneBy(End) \/ x.kind = "Done",
             bracketed' => StartedBy(End)
      PROVE  /\ \A i \in 1..Len(pty)' : pty'[i].kind = "out" => StartedBy(i)' /\ ~DoneBy(i)'
             /\ stage' = "cmd" => StartedBy(End)'
             /\ bracketed' <=> DoneBy(End)'
             /\ bracketed' => StartedBy(End)'
  <2>1. ASSUME NEW i \in 1..Len(pty)', pty'[i].kind = "out"
        PROVE  StartedBy(i)' /\ ~DoneBy(i)'
    <3>1. CASE i \in 1..Len(pty)
      <4>1. i \in 1..End /\ pty'[i] = pty[i]
        BY <1>0, <1>2, <1>3, <3>1, SeenWhenWritten
      <4> QED
        BY <1>0, <1>2, <1>3, <2>1, <3>1, <4>1, SeenWhenWritten
    <3>2. CASE i = End
      <4>1. /\ pty'[i] = x /\ End \in 1..End
            /\ StartedBy(i)' = StartedBy(End) /\ DoneBy(i)' = DoneBy(End)
        BY <1>0, <1>2, <1>3, <3>2, SeenWhenWritten
      <4> QED
        BY <1>3, <2>1, <4>1
    <3>3. i \in 1..Len(pty) \/ i = End
      BY <1>0, <1>3, SeenWhenWritten
    <3> QED
      BY <3>1, <3>2, <3>3
  <2>2. /\ StartedBy(End)' <=> StartedBy(End) \/ x.kind = "Started"
        /\ DoneBy(End)' <=> DoneBy(End) \/ x.kind = "Done"
    BY <1>0, <1>3, SeenWhenWritten
  <2> QED
    BY <1>3, <2>1, <2>2
<1>4. CASE UNCHANGED pty
  <2>1. /\ Len(pty)' = Len(pty) /\ End' = End
        /\ \A i : StartedBy(i)' = StartedBy(i) /\ DoneBy(i)' = DoneBy(i)
        /\ StartedBy(End)' = StartedBy(End) /\ DoneBy(End)' = DoneBy(End)
    BY <1>0, <1>4 DEF StartedBy, DoneBy, End
  <2>2. ~Start /\ ~Done
    BY <1>1, <1>4, <1>2 DEF Start, Done, Say
  <2>3. bracketed' = bracketed /\ (stage' = "cmd" => stage = "cmd")
    BY <2>2 DEF ChildStep, ScriptStep, Ask, ReadPw, Sudo, MakeNoise, RcExit, CmdOut,
       CmdErr, CmdExits, Exit, Fork, Killed, DaemonSpeaks, DaemonEnds
  <2> QED
    BY <1>2, <1>4, <2>1, <2>3
<1>5. CASE pty' = Append(pty, Mark("PwReady")) /\ Ask
  <2>1. Mark("PwReady") \in Pieces /\ Mark("PwReady").kind = "PwReady"
    BY PieceKinds DEF Markers
  <2>2. ~bracketed /\ ~bracketed' /\ stage' # "cmd"
    BY <1>2, <1>5 DEF Ask
  <2> QED
    BY <1>2, <1>3, <1>5, <2>1, <2>2
<1>6. CASE pty' = Append(pty, Mark("SudoFailed")) /\ stage' = "exiting" /\ stage = "sudo"
             /\ UNCHANGED bracketed
  <2>1. Mark("SudoFailed") \in Pieces /\ Mark("SudoFailed").kind = "SudoFailed"
    BY PieceKinds DEF Markers
  <2> QED
    BY <1>2, <1>3, <1>6, <2>1
<1>7. CASE pty' = Append(pty, Noise) /\ MakeNoise
  <2>1. Noise \in Pieces /\ Noise.kind = "noise"
    BY PieceKinds DEF Noise
  <2>2. bracketed' = bracketed /\ stage' # "cmd"
    BY <1>7 DEF MakeNoise
  <2> QED
    BY <1>2, <1>3, <1>7, <2>1, <2>2
<1>8. CASE pty' = Append(pty, Mark("Started")) /\ Start
  <2>1. Mark("Started") \in Pieces /\ Mark("Started").kind = "Started"
    BY PieceKinds DEF Markers
  <2>2. ~bracketed /\ ~bracketed'
    BY <1>2, <1>8 DEF Start
  <2> QED
    BY <1>2, <1>3, <1>8, <2>1, <2>2
<1>9. CASE pty' = Append(pty, OutOf(Len(said) + 1)) /\ CmdOut /\ Len(said) + 1 \in 1..MaxOut
  <2>1. OutOf(Len(said) + 1) \in Pieces /\ OutOf(Len(said) + 1).kind = "out"
    BY <1>9, PieceKinds
  <2>2. ~bracketed /\ ~bracketed' /\ stage = "cmd"
    BY <1>2, <1>9 DEF CmdOut
  <2> QED
    BY <1>2, <1>3, <1>9, <2>1, <2>2
<1>10. CASE pty' = Append(pty, Mark("Done")) /\ Done
  <2>1. Mark("Done") \in Pieces /\ Mark("Done").kind = "Done"
    BY PieceKinds DEF Markers
  <2>2. bracketed' /\ stage = "cmd" /\ stage' # "cmd"
    BY <1>10 DEF Done
  <2> QED
    BY <1>2, <1>3, <1>10, <2>1, <2>2
<1>11. CASE pty' = Append(pty, LeftOver) /\ DaemonSpeaks
  <2>1. LeftOver \in Pieces /\ LeftOver.kind = "leftover"
    BY PieceKinds DEF LeftOver
  <2>2. bracketed' = bracketed /\ stage' # "cmd"
    BY <1>11 DEF DaemonSpeaks
  <2> QED
    BY <1>2, <1>3, <1>11, <2>1, <2>2
<1> QED
  BY <1>4, <1>5, <1>6, <1>7, <1>8, <1>9, <1>10, <1>11, ChildWrites

\* The reader takes what is first, and marks what it has passed.
LEMMA MarkRead ==
  ASSUME TypeOK, SessionInv, OpenInv, MarkInv, ReadMaster
  PROVE  MarkInv'
<1> DEFINE piece == Head(pty)
<1>0. /\ pty # <<>> /\ "master" \in fds /\ piece \in Pieces
      /\ ReadOne(piece)
      /\ \/ Dropped(piece) \/ Passed(piece) \/ KeptBack(piece)
         \/ SpiltOver(piece) \/ Opening(piece) \/ Marked(piece)
  BY ReadMasterMeans
<1>1. /\ pty[1] = piece /\ 1 \in 1..Len(pty) /\ End = End' + 1
      /\ \A i \in 1..Len(pty)' : pty'[i] = pty[i + 1] /\ i + 1 \in 1..Len(pty)
      /\ \A i \in 1..End' : /\ StartedBy(i + 1) => StartedBy(i)'
                            /\ DoneBy(i)' <=> DoneBy(i + 1)
      /\ StartedBy(1) <=> "started" \in flags
      /\ End = Len(pty) + 1 /\ End' = Len(pty)' + 1 /\ Len(pty) \in Nat /\ Len(pty)' \in Nat
  <2>1. pty \in Seq(Pieces) /\ pty' \in Seq(Pieces)
    BY <1>0 DEF TypeOK, AgentTypeOK, ChildTypeOK, ReadOne
  <2>2. Len(pty) \in Nat /\ Len(pty)' \in Nat
    BY <2>1
  <2> QED
    BY <1>0, <2>2, SeenWhenRead DEF End
<1>2. UNCHANGED <<stage, fds, bracketed>>
  BY <1>0 DEF ReadOne
<1> HIDE DEF piece
<1>3. /\ \A i \in 1..Len(pty)' : pty'[i].kind = "out" => StartedBy(i)' /\ ~DoneBy(i)'
      /\ stage' = "cmd" => StartedBy(End)'
      /\ bracketed' <=> DoneBy(End)'
      /\ bracketed' => StartedBy(End)'
  <2>1. /\ \A i \in 1..Len(pty) : pty[i].kind = "out" => StartedBy(i) /\ ~DoneBy(i)
        /\ stage = "cmd" => StartedBy(End)
        /\ bracketed <=> DoneBy(End)
        /\ bracketed => StartedBy(End)
    BY <1>0 DEF MarkInv
  <2>2. ASSUME NEW i \in 1..Len(pty)', pty'[i].kind = "out"
        PROVE  StartedBy(i)' /\ ~DoneBy(i)'
    <3>1. i \in 1..End' /\ i + 1 \in 1..Len(pty) /\ pty[i + 1].kind = "out"
      BY <1>1, <2>2
    <3> QED
      BY <1>1, <2>1, <3>1
  <2>3. End' \in 1..End'
    BY <1>1
  <2>4. (StartedBy(End) => StartedBy(End)') /\ (DoneBy(End)' <=> DoneBy(End))
    BY <1>1, <2>3
  <2> QED
    BY <1>2, <2>1, <2>2, <2>4
<1>4. piece.kind = "out" => "started" \in flags
  BY <1>0, <1>1 DEF MarkInv
<1>5. /\ \A i \in 1..Len(held)' : held'[i].kind # "out"
      /\ "started" \in flags' => held' = <<>>
  <2>1. /\ \A i \in 1..Len(held) : held[i].kind # "out"
        /\ "started" \in flags => held = <<>>
        /\ held \in Seq(Kept) /\ piece \in Pieces
    BY <1>0 DEF MarkInv, TypeOK, AgentTypeOK, Kept
  <2>2. CASE Dropped(piece) \/ Passed(piece)
    BY <2>1, <2>2 DEF Dropped, Passed
  <2>3. CASE KeptBack(piece)
    <3>1. held' = Append(held, piece) /\ piece \in Kept /\ flags' = flags /\ "started" \notin flags
      BY <2>1, <2>3 DEF KeptBack, Kept
    <3>2. piece.kind # "out"
      BY <1>4, <3>1
    <3>3. /\ Len(held') = Len(held) + 1 /\ Len(held) \in Nat /\ held'[Len(held) + 1] = piece
          /\ \A i \in 1..Len(held) : held'[i] = held[i]
      BY <2>1, <3>1, AppendProperties, LenProperties
    <3>4. \A i \in 1..Len(held') : i \in 1..Len(held) \/ i = Len(held) + 1
      BY <3>3
    <3> QED
      BY <2>1, <3>1, <3>2, <3>3, <3>4
  <2>4. CASE SpiltOver(piece) \/ Opening(piece)
    <3>1. held' = <<>>
      BY <2>4 DEF SpiltOver, Opening
    <3>2. 1..Len(held') = {}
      BY <3>1
    <3> QED
      BY <3>1, <3>2
  <2>5. CASE Marked(piece)
    BY <2>1, <2>5 DEF Marked
  <2> QED
    BY <1>0, <2>2, <2>3, <2>4, <2>5
<1> QED
  BY <1>3, <1>5 DEF MarkInv

\* The command's output is between its markers, whoever takes a step.
LEMMA MarkStep ==
  ASSUME TypeOK, SessionInv, OpenInv, MarkInv, [Next]_vars
  PROVE  MarkInv'
<1>1. CASE ChildStep /\ UNCHANGED <<agentVars, clientVars>>
  BY <1>1, MarkChild
<1>2. ASSUME UNCHANGED <<stage, pty, held, flags, bracketed>>,
             "master" \in fds' => "master" \in fds
      PROVE  MarkInv'
  <2>1. /\ Len(pty)' = Len(pty) /\ Len(held)' = Len(held)
        /\ \A i : StartedBy(i)' = StartedBy(i) /\ DoneBy(i)' = DoneBy(i)
        /\ StartedBy(End)' = StartedBy(End) /\ DoneBy(End)' = DoneBy(End)
    BY <1>2 DEF StartedBy, DoneBy, End
  <2> QED
    BY <1>2, <2>1 DEF MarkInv
<1>3. CASE (AgentStep \/ KillAgent \/ HangAgent \/ OtherEnds) /\ UNCHANGED clientVars
  <2>1. CASE ReadMaster
    BY <2>1, MarkRead
  <2>2. CASE SpawnShell
    <3>1. /\ stage = "none" /\ pty = <<>> /\ pty' = <<>> /\ held' = <<>> /\ flags' = {}
          /\ ~bracketed' /\ stage' # "cmd"
      BY <2>2 DEF SpawnShell, SessionInv, AgentInv, OpenInv
    <3>2. Len(pty)' = 0 /\ Len(held)' = 0 /\ End' = 1
      BY <3>1 DEF End
    <3>3. ~DoneBy(End)'
      BY <3>1, <3>2 DEF DoneBy
    <3> QED
      BY <3>1, <3>2, <3>3 DEF MarkInv
  <2>3. CASE MasterEnds \/ EndDrain \/ KillAgent
    <3>1. /\ held' \in {held, <<>>} /\ "master" \notin fds'
          /\ "started" \in flags' => "started" \in flags \/ held' = <<>>
      BY <2>3 DEF MasterEnds, EndDrain, KillAgent, ReleaseHeld
    <3>2. \A i \in 1..Len(held)' : held'[i].kind # "out"
      <4>1. CASE held' = held
        BY <4>1 DEF MarkInv
      <4>2. CASE held' = <<>>
        BY <4>2
      <4> QED
        BY <3>1, <4>1, <4>2
    <3>3. "started" \in flags' => held' = <<>>
      BY <3>1 DEF MarkInv
    <3> QED
      BY <3>1, <3>2, <3>3 DEF MarkInv
  <2>4. CASE ReadErr /\ UNCHANGED <<stage, typed, pty, held, flags, noise>>
               /\ fds' \subseteq fds /\ UNCHANGED bracketed
    BY <1>2, <2>4
  <2>5. CASE UNCHANGED <<stage, typed, pty, errpty, held, flags, fds, noise, bracketed>>
    BY <1>2, <2>5
  <2> QED
    BY <1>3, <2>1, <2>2, <2>3, <2>4, <2>5, AgentMoves
<1>4. CASE UNCHANGED <<childVars, held, flags>>
  BY <1>2, <1>4 DEF childVars
<1> QED
  BY <1>1, <1>3, <1>4, ClientMoves
---------------------------------------------------------------------------
\* The types that what is counted has.
LEMMA FlowTypes ==
  ASSUME TypeOK
  PROVE  /\ pty \in Seq(Pieces) /\ wire \in Seq(Frames) /\ log \in Seq(Logged)
         /\ held \in Seq(Kept) /\ Len(said) \in Nat /\ erred \in Nat /\ errpty \in 0..erred
         /\ erred - errpty \in Nat
<1>1. erred \in Nat /\ errpty \in 0..erred /\ said \in Seq(Pieces)
  BY ChildAssumption DEF TypeOK, AgentTypeOK, ChildTypeOK
<1>2. erred - errpty \in Nat /\ Len(said) \in Nat
  BY <1>1
<1> QED
  BY <1>1, <1>2 DEF TypeOK, AgentTypeOK, ChildTypeOK, Logged, Kept

\* Frames that are not of a kind leave what is counted of it.
LEMMA SendsPast ==
  ASSUME wire \in Seq(Frames), NEW frames \in Seq(Frames), Send(frames), NEW k,
         \A i \in 1..Len(frames) : frames[i].kind # k,
         NEW a \in Nat, NEW b \in Nat, Counts(wire, k, a, b)
  PROVE  Counts(wire', k, a, b)
<1>1. CASE link = "up"
  <2>1. Counts(wire \o frames, k, a, b)
    BY CountsPast
  <2> QED
    BY <1>1, <2>1 DEF Send
<1>2. CASE link # "up"
  BY <1>2 DEF Send
<1> QED
  BY <1>1, <1>2

\* One frame that is not of a kind.
LEMMA SendsBeside ==
  ASSUME wire \in Seq(Frames), NEW f \in Frames, Send(<<f>>), NEW k, f.kind # k,
         NEW a \in Nat, NEW b \in Nat, Counts(wire, k, a, b)
  PROVE  Counts(wire', k, a, b)
<1>1. <<f>> \in Seq(Frames) /\ \A i \in 1..Len(<<f>>) : <<f>>[i].kind # k
  OBVIOUS
<1> QED
  BY <1>1, SendsPast

\* The next frame of its kind.
LEMMA SendsNext ==
  ASSUME wire \in Seq(Frames), NEW f \in Frames, Send(<<f>>), link = "up",
         NEW a \in Nat, NEW b \in Nat, a <= b, Counts(wire, f.kind, a, b), f.n = b + 1
  PROVE  Counts(wire', f.kind, a, b + 1)
<1>1. wire' = Append(wire, f)
  <2>1. wire \o <<f>> = Append(wire, f)
    OBVIOUS
  <2> QED
    BY <2>1 DEF Send
<1>2. Counts(Append(wire, f), f.kind, a, b + 1)
  BY CountsNext
<1> QED
  BY <1>1, <1>2

\* What was kept back is neither output of the command nor an end.
LEMMA KeptIsNoOutput ==
  ASSUME NEW s \in Seq(Kept), \A i \in 1..Len(s) : s[i].kind # "out"
  PROVE  /\ AsFrames(s) \in Seq(Frames)
         /\ \A i \in 1..Len(AsFrames(s)) : AsFrames(s)[i].kind \notin {"out", "err", "Exit"}
<1> DEFINE S == {p \in Kept : p.kind # "out"}
           F == {f \in Frames : f.kind \in {p.kind : p \in S}}
<1>1. s \in Seq(S)
  <2>1. /\ Len(s) \in Nat /\ s \in [1..Len(s) -> Kept]
    BY LenProperties
  <2>2. s \in [1..Len(s) -> S]
    BY <2>1
  <2> QED
    BY <2>1, <2>2, SeqDef
<1>2. S \in SUBSET Pieces /\ \A p \in S : p.kind \in Forwarded /\ p.kind # "out"
  BY DEF Kept
<1> HIDE DEF S
<1>3. AsFrames(s) \in Seq(F)
  BY <1>1, <1>2, FramesOfKept
<1>4. \A f \in F : f \in Frames /\ f.kind \notin {"out", "err", "Exit"}
  BY <1>2 DEF Forwarded
<1> HIDE DEF F
<1>5. AsFrames(s) \in Seq(Frames)
  BY <1>3, <1>4, SeqMonotonic
<1>6. \A i \in 1..Len(AsFrames(s)) : AsFrames(s)[i] \in F
  BY <1>3, ElementOfSeq
<1> QED
  BY <1>4, <1>5, <1>6

\* What is said and not read is not touched once the shell is gone.
LEMMA ChildSaysNoMore ==
  ASSUME TypeOK, ChildStep
  PROVE  /\ stage # "cmd" => UNCHANGED <<said, erred, errpty>>
         /\ stage = "none" => stage' = "none" \/ daemon
         /\ stage = "exited" => stage' = "exited"
         /\ stage' = "none" => stage = "none"
BY DEF TypeOK, AgentTypeOK, ChildTypeOK, ChildStep, ScriptStep, Ask, ReadPw, Sudo, MakeNoise,
   RcExit, Start, CmdOut, CmdErr, Done, CmdExits, Exit, Fork, Killed, DaemonSpeaks, DaemonEnds,
   Waiting

\* The script adds to what is counted, one after the other.
LEMMA FlowChild ==
  ASSUME TypeOK, SessionInv, OpenInv, FlowInv, ChildStep, UNCHANGED <<agentVars, clientVars>>
  PROVE  FlowInv'
<1>0. /\ UNCHANGED <<apc, link, wire, cpc, exit, log>>
      /\ pty \in Seq(Pieces) /\ wire \in Seq(Frames) /\ log \in Seq(Logged)
      /\ Len(said) \in Nat /\ erred \in Nat /\ errpty \in Nat /\ said \in Seq(Pieces)
  BY FlowTypes DEF agentVars, clientVars, TypeOK, AgentTypeOK, ChildTypeOK
<1>1. /\ stage = "none" => stage' = "none"
      /\ stage \in {"none", "exited"} => UNCHANGED <<said, erred, errpty>>
  BY ChildSaysNoMore DEF OpenInv
<1>2. ASSUME Whole' PROVE Whole /\ (stage = "cmd" => fds = {"master", "errpipe"})
  BY <1>0, <1>1, <1>2 DEF Whole, OpenInv, Waiting
<1>3. ASSUME Whole'
      PROVE  /\ \E a, b \in Nat : OnTheWay("out", a, b)' /\ Counts(pty, "out", b, Len(said))'
                                   /\ a <= b /\ b <= Len(said)'
             /\ \E a \in Nat : OnTheWay("err", a, erred - errpty)' /\ a <= erred' - errpty'
  <2>1. Whole /\ (stage = "cmd" => fds = {"master", "errpipe"})
    BY <1>2, <1>3
  <2>2. PICK a \in Nat, b \in Nat : /\ OnTheWay("out", a, b) /\ Counts(pty, "out", b, Len(said))
                                    /\ a <= b /\ b <= Len(said)
    BY <2>1 DEF FlowInv
  <2>3. PICK c \in Nat : OnTheWay("err", c, erred - errpty) /\ c <= erred - errpty
    BY <2>1 DEF FlowInv
  <2>4. OnTheWay("out", a, b)'
    BY <1>0, <2>2 DEF OnTheWay
  <2>5. Counts(pty, "out", b, Len(said))' /\ b <= Len(said)'
    <3>1. CASE UNCHANGED pty
      <4>1. UNCHANGED said
        <5>1. CASE CmdOut
          <6>1. pty' = Append(pty, OutOf(Len(said) + 1))
            BY <2>1, <5>1 DEF CmdOut, Say
          <6>2. Append(pty, OutOf(Len(said) + 1)) # pty
            BY <1>0
          <6> QED
            BY <3>1, <6>1, <6>2
        <5>2. CASE ~CmdOut
          BY <5>2 DEF ChildStep, ScriptStep, Ask, ReadPw, Sudo, MakeNoise, RcExit, Start, CmdErr,
             Done, CmdExits, Exit, Fork, Killed, DaemonSpeaks, DaemonEnds
        <5> QED
          BY <5>1, <5>2
      <4> QED
        BY <2>2, <3>1, <4>1
    <3>2. CASE pty' = Append(pty, OutOf(Len(said) + 1)) /\ CmdOut /\ Len(said) + 1 \in 1..MaxOut
      <4>1. /\ OutOf(Len(said) + 1) \in Pieces /\ OutOf(Len(said) + 1).kind = "out"
            /\ OutOf(Len(said) + 1).n = Len(said) + 1
        BY <3>2, PieceKinds DEF OutOf
      <4>2. Counts(pty', "out", b, Len(said) + 1)
        BY <1>0, <2>2, <3>2, <4>1, CountsNext
      <4>3. Len(said') = Len(said) + 1
        BY <1>0, <3>2 DEF CmdOut
      <4> QED
        BY <1>0, <2>2, <4>2, <4>3
    <3>3. ASSUME NEW x \in Pieces, x.kind # "out", pty' = Append(pty, x), UNCHANGED said
          PROVE  Counts(pty, "out", b, Len(said))' /\ b <= Len(said)'
      BY <1>0, <2>2, <3>3, CountsBeside
    <3>4. CASE pty' = Append(pty, Mark("PwReady")) /\ Ask
      BY <3>3, <3>4, PieceKinds DEF Ask, Markers
    <3>5. CASE pty' = Append(pty, Mark("SudoFailed")) /\ UNCHANGED said
      BY <3>3, <3>5, PieceKinds DEF Markers
    <3>6. CASE pty' = Append(pty, Noise) /\ MakeNoise
      BY <3>3, <3>6, PieceKinds DEF MakeNoise, Noise
    <3>7. CASE pty' = Append(pty, Mark("Started")) /\ Start
      BY <3>3, <3>7, PieceKinds DEF Start, Markers
    <3>8. CASE pty' = Append(pty, Mark("Done")) /\ Done
      BY <3>3, <3>8, PieceKinds DEF Done, Markers
    <3>9. CASE pty' = Append(pty, LeftOver) /\ DaemonSpeaks
      BY <3>3, <3>9, PieceKinds DEF DaemonSpeaks, LeftOver
    <3> QED
      BY <3>1, <3>2, <3>4, <3>5, <3>6, <3>7, <3>8, <3>9, ChildWrites
  <2>6. erred' - errpty' = erred - errpty
    <3>1. CASE CmdErr
      <4>1. erred' = erred + 1 /\ errpty' = errpty + 1
        BY <2>1, <3>1 DEF CmdErr
      <4> QED
        BY <1>0, <4>1
    <3>2. CASE ~CmdErr
      BY <3>2 DEF ChildStep, ScriptStep, Ask, ReadPw, Sudo, MakeNoise, RcExit, Start, CmdOut,
         Done, CmdExits, Exit, Fork, Killed, DaemonSpeaks, DaemonEnds
    <3> QED
      BY <3>1, <3>2
  <2>7. OnTheWay("err", c, erred - errpty)' /\ c <= erred' - errpty'
    BY <1>0, <2>3, <2>6 DEF OnTheWay
  <2> QED
    BY <2>2, <2>4, <2>5, <2>7
<1>4. ASSUME ExitSent'
      PROVE  /\ \E a \in Nat : OnTheWay("out", a, Len(said))' /\ a <= Len(said)'
             /\ \E a \in Nat : OnTheWay("err", a, erred)' /\ a <= erred'
  <2>1. PICK i \in 1..Len(wire) : wire[i].kind = "Exit"
    BY <1>0, <1>4 DEF ExitSent
  <2>2. wire[i] \in CleanFrames
    BY <2>1, ElementOfSeq DEF SessionInv, CleanStreams
  <2>3. stage \in {"none", "exited"}
    BY <2>1, <2>2 DEF CleanFrames, Reported
  <2>4. ExitSent /\ UNCHANGED <<said, erred>>
    BY <1>0, <1>1, <1>4, <2>1, <2>3 DEF ExitSent
  <2> QED
    BY <1>0, <2>4 DEF FlowInv, OnTheWay
<1>5. ASSUME exit # NoExit, stage' = "exited"
      PROVE  (Counts(log, "out", 0, Len(said)) /\ Counts(log, "err", 0, erred))'
  <2>1. stage \in {"none", "exited"}
    BY <1>5 DEF SessionInv, ClientInv, Reported
  <2>2. stage = "exited" /\ UNCHANGED <<said, erred>>
    BY <1>1, <1>5, <2>1
  <2> QED
    BY <1>0, <1>5, <2>2 DEF FlowInv
<1>6. /\ cpc' = "frames" => exit' = NoExit
      /\ \A i \in 1..Len(wire)' : wire'[i].kind = "Exit" => i = Len(wire)'
  BY <1>0 DEF FlowInv
<1> QED
  BY <1>0, <1>3, <1>4, <1>5, <1>6 DEF FlowInv

\* What is on the way while the way is whole.
OutFlow(a, b) == OnTheWay("out", a, b) /\ Counts(pty, "out", b, Len(said))
                   /\ a <= b /\ b <= Len(said)
ErrFlow(a)    == OnTheWay("err", a, erred - errpty) /\ a <= erred - errpty

\* The reader passes the command's output on in order, and only that.
LEMMA FlowRead ==
  ASSUME TypeOK, SessionInv, MarkInv, ReadMaster, link = "up", UNCHANGED log,
         NEW a \in Nat, NEW b \in Nat, OutFlow(a, b), NEW c \in Nat, ErrFlow(c)
  PROVE  (\E d \in Nat : OutFlow(a, d)') /\ ErrFlow(c)'
<1> DEFINE piece == Head(pty)
<1>0. /\ pty \in Seq(Pieces) /\ wire \in Seq(Frames) /\ held \in Seq(Kept)
      /\ Len(said) \in Nat /\ erred - errpty \in Nat
  BY FlowTypes
<1>1. /\ pty # <<>> /\ "master" \in fds /\ piece \in Pieces /\ pty' = Tail(pty)
      /\ UNCHANGED <<said, erred, errpty, log>>
      /\ \/ Dropped(piece) \/ Passed(piece) \/ KeptBack(piece)
         \/ SpiltOver(piece) \/ Opening(piece) \/ Marked(piece)
  BY ReadMasterMeans DEF ReadOne
<1>2. piece.kind = "out" => "started" \in flags /\ "done" \notin flags
  <2>1. pty[1] = piece /\ 1 \in 1..Len(pty)
    BY <1>0, <1>1, LenProperties, HeadTailProperties
  <2>2. piece.kind = "out" => StartedBy(1) /\ ~DoneBy(1)
    BY <1>1, <2>1 DEF MarkInv
  <2> QED
    BY <2>2 DEF StartedBy, DoneBy
<1>3. /\ Counts(log, "out", 0, a) /\ Counts(wire, "out", a, b)
      /\ Counts(pty, "out", b, Len(said)) /\ a <= b /\ b <= Len(said)
      /\ Counts(log, "err", 0, c) /\ Counts(wire, "err", c, erred - errpty) /\ c <= erred - errpty
  BY DEF OutFlow, ErrFlow, OnTheWay
<1>4. /\ piece.kind # "out" => Counts(Tail(pty), "out", b, Len(said))
      /\ piece.kind = "out" => /\ piece.n = b + 1 /\ b < Len(said)
                               /\ Counts(Tail(pty), "out", b + 1, Len(said))
  BY <1>0, <1>1, <1>3, CountsRead
<1>5. piece.kind \in Forwarded => /\ Frame(piece.kind, piece.n) \in Frames
                                  /\ Frame(piece.kind, piece.n).kind = piece.kind
                                  /\ Frame(piece.kind, piece.n).n = piece.n
  BY <1>1, PieceKinds, ForwardedFrame
<1> HIDE DEF piece
\* What is left to show: the wire has what it had, or the next piece.
<1>6. ASSUME Counts(wire', "err", c, erred - errpty), NEW d \in Nat, a <= d, d <= Len(said),
             Counts(wire', "out", a, d), Counts(Tail(pty), "out", d, Len(said))
      PROVE  (\E e \in Nat : OutFlow(a, e)') /\ ErrFlow(c)'
  <2>1. OutFlow(a, d)'
    BY <1>1, <1>3, <1>6 DEF OutFlow, OnTheWay
  <2>2. ErrFlow(c)'
    BY <1>1, <1>3, <1>6 DEF ErrFlow, OnTheWay
  <2> QED
    BY <2>1, <2>2
<1>7. ASSUME NEW frames \in Seq(Frames), Send(frames), piece.kind # "out",
             \A i \in 1..Len(frames) : frames[i].kind \notin {"out", "err"}
      PROVE  (\E e \in Nat : OutFlow(a, e)') /\ ErrFlow(c)'
  <2>1. Counts(wire', "out", a, b)
    BY <1>0, <1>3, <1>7, SendsPast
  <2>2. Counts(wire', "err", c, erred - errpty)
    BY <1>0, <1>3, <1>7, SendsPast
  <2> QED
    BY <1>3, <1>4, <1>6, <1>7, <2>1, <2>2
<1>8. CASE UNCHANGED wire /\ piece.kind # "out"
  BY <1>3, <1>4, <1>6, <1>8
<1>9. CASE Passed(piece)
  <2>1. CASE piece.kind = "out"
    <3>1. Send(<<Frame(piece.kind, piece.n)>>) /\ piece.kind \in Forwarded
      BY <1>9 DEF Passed
    <3>2. Counts(wire', "out", a, b + 1)
      BY <1>0, <1>3, <1>4, <1>5, <2>1, <3>1, SendsNext
    <3>3. Counts(wire', "err", c, erred - errpty)
      BY <1>0, <1>3, <1>5, <2>1, <3>1, SendsBeside
    <3>4. b + 1 \in Nat /\ a <= b + 1 /\ b + 1 <= Len(said)
      BY <1>0, <1>3, <1>4, <2>1
    <3> QED
      BY <1>4, <1>6, <2>1, <3>2, <3>3, <3>4
  <2>2. CASE piece.kind # "out"
    <3>1. /\ Send(<<Frame(piece.kind, piece.n)>>)
          /\ Frame(piece.kind, piece.n) \in Frames
          /\ Frame(piece.kind, piece.n).kind \notin {"out", "err"}
      BY <1>5, <1>9, <2>2 DEF Passed, Forwarded
    <3>2. /\ <<Frame(piece.kind, piece.n)>> \in Seq(Frames)
          /\ \A i \in 1..Len(<<Frame(piece.kind, piece.n)>>) :
               <<Frame(piece.kind, piece.n)>>[i].kind \notin {"out", "err"}
      BY <3>1
    <3> QED
      BY <1>7, <2>2, <3>1, <3>2
  <2> QED
    BY <2>1, <2>2
<1>10. CASE SpiltOver(piece)
  <2>1. piece.kind # "out" /\ piece.kind \in Forwarded /\ Send(AsFrames(Append(held, piece)))
    BY <1>2, <1>10 DEF SpiltOver
  <2>2. /\ Append(held, piece) \in Seq(Kept)
        /\ \A i \in 1..Len(Append(held, piece)) : Append(held, piece)[i].kind # "out"
    <3>1. piece \in Kept /\ \A i \in 1..Len(held) : held[i].kind # "out"
      BY <1>1, <2>1 DEF Kept, MarkInv
    <3>2. /\ Append(held, piece) \in Seq(Kept) /\ Len(Append(held, piece)) = Len(held) + 1
          /\ Len(held) \in Nat /\ Append(held, piece)[Len(held) + 1] = piece
          /\ \A i \in 1..Len(held) : Append(held, piece)[i] = held[i]
      BY <1>0, <3>1, AppendProperties, LenProperties
    <3>3. \A i \in 1..Len(Append(held, piece)) : i \in 1..Len(held) \/ i = Len(held) + 1
      BY <3>2
    <3> QED
      BY <2>1, <3>1, <3>2, <3>3
  <2>3. /\ AsFrames(Append(held, piece)) \in Seq(Frames)
        /\ \A i \in 1..Len(AsFrames(Append(held, piece))) :
             AsFrames(Append(held, piece))[i].kind \notin {"out", "err"}
    BY <2>2, KeptIsNoOutput
  <2> QED
    BY <1>7, <2>1, <2>3
<1>11. CASE Dropped(piece)
  BY <1>2, <1>8, <1>11 DEF Dropped
<1>12. CASE KeptBack(piece)
  BY <1>2, <1>8, <1>12 DEF KeptBack
<1>13. CASE Opening(piece)
  BY <1>8, <1>13 DEF Opening
<1>14. CASE Marked(piece)
  <2>1. piece.kind # "out" /\ (UNCHANGED wire \/ Send(<<Frame("SudoFailed", 0)>>))
    BY <1>14 DEF Marked
  <2>2. /\ <<Frame("SudoFailed", 0)>> \in Seq(Frames)
        /\ \A i \in 1..Len(<<Frame("SudoFailed", 0)>>) :
             <<Frame("SudoFailed", 0)>>[i].kind \notin {"out", "err"}
    <3>1. Frame("SudoFailed", 0) \in Frames /\ Frame("SudoFailed", 0).kind = "SudoFailed"
      BY ForwardedFrame
    <3> QED
      BY <3>1
  <2> QED
    BY <1>7, <1>8, <2>1, <2>2
<1> QED
  BY <1>1, <1>9, <1>10, <1>11, <1>12, <1>13, <1>14

\* What is kept back goes out with nothing of the command in it.
LEMMA FlowRelease ==
  ASSUME TypeOK, MarkInv, ReleaseHeld, UNCHANGED <<log, said, erred, errpty>>, pty' = pty,
         NEW a \in Nat, NEW b \in Nat, OutFlow(a, b), NEW c \in Nat, ErrFlow(c)
  PROVE  OutFlow(a, b)' /\ ErrFlow(c)'
<1>0. /\ wire \in Seq(Frames) /\ held \in Seq(Kept) /\ erred - errpty \in Nat
      /\ \A i \in 1..Len(held) : held[i].kind # "out"
  BY FlowTypes DEF MarkInv
<1>1. Send(AsFrames(held))
  BY DEF ReleaseHeld
<1>2. /\ AsFrames(held) \in Seq(Frames)
      /\ \A i \in 1..Len(AsFrames(held)) : AsFrames(held)[i].kind \notin {"out", "err"}
  BY <1>0, KeptIsNoOutput
<1>3. Counts(wire', "out", a, b)
  BY <1>0, <1>1, <1>2, SendsPast DEF OutFlow, OnTheWay
<1>4. Counts(wire', "err", c, erred - errpty)
  BY <1>0, <1>1, <1>2, SendsPast DEF ErrFlow, OnTheWay
<1> QED
  BY <1>3, <1>4 DEF OutFlow, ErrFlow, OnTheWay

\* A piece of stderr goes out as the next of its kind.
LEMMA FlowErr ==
  ASSUME TypeOK, ReadErr, link = "up", UNCHANGED log,
         NEW a \in Nat, NEW b \in Nat, OutFlow(a, b), NEW c \in Nat, ErrFlow(c)
  PROVE  OutFlow(a, b)' /\ ErrFlow(c)'
<1>0. wire \in Seq(Frames) /\ erred \in Nat /\ errpty \in 0..erred /\ erred - errpty \in Nat
  BY FlowTypes
<1>1. UNCHANGED <<pty, said, erred>>
  BY DEF ReadErr
<1>2. CASE errpty > 0
  <2> DEFINE f == Frame("err", erred - errpty + 1)
  <2>1. Send(<<f>>) /\ errpty' = errpty - 1
    BY <1>2 DEF ReadErr
  <2>2. f \in Frames /\ f.kind = "err" /\ f.n = erred - errpty + 1
    <3>1. erred - errpty + 1 \in Nat
      BY <1>0
    <3> QED
      BY <3>1, ForwardedFrame
  <2> HIDE DEF f
  <2>3. Counts(wire', "out", a, b)
    BY <1>0, <2>1, <2>2, SendsBeside DEF OutFlow, OnTheWay
  <2>4. Counts(wire', "err", c, erred - errpty + 1)
    BY <1>0, <2>1, <2>2, SendsNext DEF ErrFlow, OnTheWay
  <2>5. erred' - errpty' = erred - errpty + 1
    BY <1>0, <1>1, <2>1
  <2>6. OutFlow(a, b)'
    BY <1>1, <2>3 DEF OutFlow, OnTheWay
  <2>7. c <= erred - errpty + 1
    BY <1>0 DEF ErrFlow
  <2>8. ErrFlow(c)'
    BY <2>4, <2>5, <2>7 DEF ErrFlow, OnTheWay
  <2> QED
    BY <2>6, <2>8
<1>3. CASE ~(errpty > 0)
  <2>1. UNCHANGED <<wire, errpty>>
    BY <1>3 DEF ReadErr
  <2> QED
    BY <1>1, <2>1 DEF OutFlow, ErrFlow, OnTheWay
<1> QED
  BY <1>2, <1>3

\* The agent sends what it reads, and its Exit last.
LEMMA FlowAgent ==
  ASSUME TypeOK, SessionInv, SessionInv', OpenInv, MarkInv, FlowInv,
         AgentStep \/ KillAgent \/ HangAgent \/ OtherEnds, UNCHANGED clientVars
  PROVE  FlowInv'
<1>0. /\ UNCHANGED <<cpc, exit, log, said, erred>> /\ exit = NoExit
      /\ wire \in Seq(Frames) /\ Len(said) \in Nat /\ erred - errpty \in Nat /\ erred \in Nat
      /\ \A f \in CleanFrames : f.kind # "Exit"
  <2>1. apc \notin Gone
    BY DEF Gone, AgentStep, ReadRequest, AcquireLock, SpawnShell, ReadMaster, MasterEnds, ReadErr,
           TryWait, EndDrain, Wait, Settle, DropGuard, SendExit, KillAgent, HangAgent, OtherEnds,
           Reading
  <2> QED
    BY <2>1, AgentAtWork, AgentMoves, FlowTypes DEF clientVars
<1>1. \A i \in 1..Len(wire) : wire[i].kind # "Exit"
  <2>1. \A i \in 1..Len(wire) : wire[i] \in CleanFrames
    BY ElementOfSeq DEF SessionInv, CleanStreams
  <2> QED
    BY <1>0, <2>1
<1>2. CASE SendExit
  <2> DEFINE f == Frame("Exit", outcome)
  <2>1. /\ apc = "exit" /\ apc' = "over" /\ Send(<<f>>) /\ link' = link
        /\ UNCHANGED <<stage, pty, errpty>>
    BY <1>2 DEF SendExit, childVars
  <2>2. f \in Frames /\ f.kind = "Exit"
    BY DEF TypeOK, AgentTypeOK, Frame, Frames
  <2> HIDE DEF f
  <2>3. CASE link # "up"
    <3>1. wire' = wire
      BY <2>1, <2>3 DEF Send
    <3> QED
      BY <1>0, <1>1, <2>1, <3>1 DEF FlowInv, Whole, ExitSent
  <2>4. CASE link = "up"
    <3>1. wire' = Append(wire, f)
      <4>1. wire \o <<f>> = Append(wire, f)
        BY <1>0, <2>2
      <4> QED
        BY <2>1, <2>4, <4>1 DEF Send
    <3>2. \A i \in 1..Len(wire)' : wire'[i].kind = "Exit" => i = Len(wire)'
      <4>1. /\ Len(wire)' = Len(wire) + 1 /\ Len(wire) \in Nat
            /\ \A i \in 1..Len(wire) : wire'[i] = wire[i]
        BY <1>0, <2>2, <3>1, AppendProperties, LenProperties
      <4>2. \A i \in 1..Len(wire)' : i \in 1..Len(wire) \/ i = Len(wire)'
        BY <4>1
      <4> QED
        BY <1>1, <4>1, <4>2
    <3>3. ASSUME ExitSent'
          PROVE  /\ \E a \in Nat : OnTheWay("out", a, Len(said))' /\ a <= Len(said)'
                 /\ \E a \in Nat : OnTheWay("err", a, erred)' /\ a <= erred'
      <4>1. Whole /\ fds = {} /\ pty = <<>> /\ errpty = 0
        BY <1>0, <2>1, <2>4, <3>3 DEF ExitSent, Whole, OpenInv
      <4>2. PICK a \in Nat, b \in Nat : /\ OnTheWay("out", a, b) /\ Counts(pty, "out", b, Len(said))
                                        /\ a <= b /\ b <= Len(said)
        BY <4>1 DEF FlowInv
      <4>3. PICK c \in Nat : OnTheWay("err", c, erred - errpty) /\ c <= erred - errpty
        BY <4>1 DEF FlowInv
      <4>4. b = Len(said)
        <5>1. pty \in Seq(Pieces) /\ \A i \in 1..Len(pty) : pty[i].kind # "out"
          BY <4>1, FlowTypes
        <5> QED
          BY <1>0, <4>2, <5>1, CountsNone
      <4>5. erred - errpty = erred
        BY <1>0, <4>1
      <4>6. OnTheWay("out", a, Len(said))' /\ a <= Len(said)'
        <5>1. Counts(wire', "out", a, b)
          BY <1>0, <2>1, <2>2, <4>2, SendsBeside DEF OnTheWay
        <5> QED
          BY <1>0, <4>2, <4>4, <5>1 DEF OnTheWay
      <4>7. OnTheWay("err", c, erred)' /\ c <= erred'
        <5>1. Counts(wire', "err", c, erred)
          BY <1>0, <2>1, <2>2, <4>3, <4>5, SendsBeside DEF OnTheWay
        <5> QED
          BY <1>0, <4>3, <4>5, <5>1 DEF OnTheWay
      <4> QED
        BY <4>6, <4>7
    <3> QED
      BY <1>0, <2>1, <3>2, <3>3 DEF FlowInv, Whole
  <2> QED
    BY <2>3, <2>4
<1>3. CASE ~SendExit
  <2>1. \A i \in 1..Len(wire)' : wire'[i].kind # "Exit"
    <3>1. CASE apc' = "over"
      <4>1. wire' = wire
        BY <1>3, <3>1 DEF AgentStep, ReadRequest, AcquireLock, SpawnShell, ReadMaster, MasterEnds,
           ReadErr, TryWait, EndDrain, Wait, Settle, DropGuard, KillAgent, HangAgent, OtherEnds,
           Reading, Send
      <4> QED
        BY <1>1, <4>1
    <3>2. CASE apc' # "over"
      <4>1. \A i \in 1..Len(wire)' : wire'[i] \in CleanFrames'
        BY ElementOfSeq DEF SessionInv, CleanStreams
      <4> QED
        BY <3>2, <4>1 DEF CleanFrames
    <3> QED
      BY <3>1, <3>2
  <2>2. ASSUME Whole'
        PROVE  (\E a, b \in Nat : OutFlow(a, b)') /\ (\E c \in Nat : ErrFlow(c)')
    <3>1. /\ link = "up" /\ link' = "up" /\ cpc = "frames" /\ stage' # "none"
          /\ apc' \in {"pump", "drain", "settle", "release", "exit"}
      BY <1>0, <2>2 DEF Whole, AgentStep, ReadRequest, AcquireLock, SpawnShell, ReadMaster,
         MasterEnds, ReadErr, TryWait, EndDrain, Wait, Settle, DropGuard, SendExit, KillAgent,
         HangAgent, OtherEnds
    <3>2. CASE SpawnShell
      <4>1. /\ log' = <<>> /\ wire' = <<>> /\ pty' = <<>> /\ said' = <<>> /\ erred' = 0 /\ errpty' = 0
        <5>1. apc = "spawn" /\ stage = "none" /\ stage' # "none"
          BY <3>1, <3>2 DEF SpawnShell, SessionInv, AgentInv
        <5>2. UNCHANGED <<wire, pty, errpty>>
          BY <3>2, <5>1 DEF SpawnShell
        <5> QED
          BY <1>0, <5>1, <5>2 DEF OpenInv
      <4>2. Len(said') = 0 /\ erred' - errpty' = 0
        BY <4>1
      <4>3. OutFlow(0, 0)' /\ ErrFlow(0)'
        BY <4>1, <4>2, CountsEmpty DEF OutFlow, ErrFlow, OnTheWay
      <4> QED
        BY <4>3
    <3>3. CASE ReadRequest \/ AcquireLock
      <4>1. stage' = stage /\ apc \in {"request", "lock"}
        BY <3>3 DEF ReadRequest, AcquireLock, childVars
      <4> QED
        BY <3>1, <4>1 DEF SessionInv, AgentInv
    <3>4. CASE ~SpawnShell /\ ~ReadRequest /\ ~AcquireLock
      <4>1. /\ stage' = stage /\ apc \in {"pump", "drain", "settle", "release", "exit"}
            /\ ~KillAgent /\ ~HangAgent /\ ~OtherEnds
        BY <1>3, <3>1, <3>4 DEF AgentStep, ReadMaster, MasterEnds, ReadErr, TryWait, EndDrain, Wait,
           Settle, DropGuard, SendExit, KillAgent, HangAgent, OtherEnds, Reading, childVars
      <4>2. Whole
        BY <3>1, <4>1 DEF Whole
      <4>3. PICK a \in Nat, b \in Nat : OutFlow(a, b)
        BY <4>2 DEF FlowInv, OutFlow
      <4>4. PICK c \in Nat : ErrFlow(c)
        BY <4>2 DEF FlowInv, ErrFlow
      <4>5. CASE ReadMaster
        BY <1>0, <3>1, <4>3, <4>4, <4>5, FlowRead
      <4>6. CASE ReadErr
        BY <1>0, <3>1, <4>3, <4>4, <4>6, FlowErr
      <4>7. CASE MasterEnds
        <5>1. ReleaseHeld /\ UNCHANGED <<log, said, erred, errpty, pty>>
          BY <1>0, <4>7 DEF MasterEnds
        <5> QED
          BY <4>3, <4>4, <5>1, FlowRelease
      <4>8. CASE EndDrain
        <5>1. pty = <<>> /\ pty' = <<>> /\ UNCHANGED <<log, said, erred, errpty>>
          BY <1>0, <4>8 DEF EndDrain, Drained, MasterReady, OpenInv
        <5>2. CASE ReleaseHeld
          BY <4>3, <4>4, <5>1, <5>2, FlowRelease
        <5>3. CASE UNCHANGED wire
          BY <4>3, <4>4, <5>1, <5>3 DEF OutFlow, ErrFlow, OnTheWay
        <5> QED
          BY <4>8, <5>2, <5>3 DEF EndDrain
      <4>9. CASE TryWait \/ Wait \/ Settle \/ DropGuard
        <5>1. UNCHANGED <<log, wire, pty, said, erred, errpty>>
          BY <1>0, <4>9 DEF TryWait, Wait, Settle, DropGuard, childVars
        <5> QED
          BY <4>3, <4>4, <5>1 DEF OutFlow, ErrFlow, OnTheWay
      <4> QED
        BY <1>3, <3>4, <4>1, <4>5, <4>6, <4>7, <4>8, <4>9 DEF AgentStep
    <3> QED
      BY <3>2, <3>3, <3>4
  <2> QED
    BY <1>0, <2>1, <2>2 DEF FlowInv, ExitSent, OutFlow, ErrFlow
<1> QED
  BY <1>2, <1>3

\* The client moves what it reads from the wire to the log.
LEMMA ReadOnTheWay ==
  ASSUME TypeOK, ReadFrame, NEW kind \in {"out", "err"}, NEW a \in Nat, NEW b \in Nat, a <= b,
         OnTheWay(kind, a, b)
  PROVE  \E c \in Nat : c <= b /\ Counts(log', kind, 0, c) /\ Counts(wire', kind, c, b)
<1> DEFINE f == Head(wire)
<1>0. wire \in Seq(Frames) /\ wire # <<>> /\ log \in Seq(Logged) /\ wire' = Tail(wire)
  BY FlowTypes DEF ReadFrame
<1>1. /\ f \in Frames
      /\ log' = IF f.kind \in Forwarded \cup {"err"} THEN Append(log, f) ELSE log
  BY <1>0, HeadTailProperties DEF ReadFrame
<1>2. f.kind \in Forwarded \cup {"err"} => f \in Logged
  BY <1>1, FrameKinds
<1>3. /\ f.kind # kind => Counts(wire', kind, a, b)
      /\ f.kind = kind => f.n = a + 1 /\ a < b /\ Counts(wire', kind, a + 1, b)
  BY <1>0, CountsRead DEF OnTheWay
<1>4. Counts(log, kind, 0, a)
  BY DEF OnTheWay
<1> HIDE DEF f
<1>5. CASE f.kind = kind
  <2>1. log' = Append(log, f) /\ f \in Logged
    BY <1>1, <1>2, <1>5 DEF Forwarded
  <2>2. Counts(log', kind, 0, a + 1)
    BY <1>0, <1>3, <1>4, <1>5, <2>1, CountsNext
  <2>3. a + 1 \in Nat /\ a + 1 <= b
    BY <1>3, <1>5
  <2> QED
    BY <1>3, <1>5, <2>2, <2>3
<1>6. CASE f.kind # kind
  <2>1. Counts(log', kind, 0, a)
    <3>1. CASE f.kind \in Forwarded \cup {"err"}
      BY <1>0, <1>1, <1>2, <1>4, <1>6, <3>1, CountsBeside
    <3>2. CASE f.kind \notin Forwarded \cup {"err"}
      BY <1>1, <1>4, <3>2
    <3> QED
      BY <3>1, <3>2
  <2> QED
    BY <1>3, <1>6, <2>1
<1> QED
  BY <1>5, <1>6

\* A client that reads keeps the order, and has it all when it reads Exit.
LEMMA FlowReadFrame ==
  ASSUME TypeOK, FlowInv, ReadFrame
  PROVE  FlowInv'
<1> DEFINE f == Head(wire)
<1>0. /\ wire \in Seq(Frames) /\ wire # <<>> /\ Len(said) \in Nat /\ erred \in Nat
      /\ erred - errpty \in Nat
      /\ cpc = "frames" /\ exit = NoExit
      /\ UNCHANGED <<stage, pty, said, erred, errpty, apc, link>>
      /\ cpc' = IF f.kind = "Exit" THEN "stderr" ELSE "frames"
      /\ exit' = IF f.kind = "Exit" THEN f.n ELSE exit
  BY FlowTypes DEF ReadFrame, FlowInv, childVars
<1>1. /\ wire' \in Seq(Frames) /\ Len(wire)' = Len(wire) - 1 /\ Len(wire) \in Nat \ {0}
      /\ wire[1] = f /\ 1 \in 1..Len(wire)
      /\ \A i \in 1..Len(wire)' : wire'[i] = wire[i + 1] /\ i + 1 \in 1..Len(wire)
  <2>1. wire' = Tail(wire)
    BY DEF ReadFrame
  <2> QED
    BY <1>0, <2>1, HeadTailProperties, LenProperties
<1> HIDE DEF f
<1>2. \A i \in 1..Len(wire)' : wire'[i].kind = "Exit" => i = Len(wire)'
  <2> SUFFICES ASSUME NEW i \in 1..Len(wire)', wire'[i].kind = "Exit" PROVE i = Len(wire)'
    OBVIOUS
  <2>1. i + 1 \in 1..Len(wire) /\ wire[i + 1].kind = "Exit"
    BY <1>1
  <2>2. i + 1 = Len(wire)
    BY <2>1 DEF FlowInv
  <2> QED
    BY <1>1, <2>2
<1>3. ASSUME NEW kind \in {"out", "err"}, NEW b \in Nat, \E a \in Nat : OnTheWay(kind, a, b) /\ a <= b
      PROVE  \E c \in Nat : c <= b /\ Counts(log', kind, 0, c) /\ Counts(wire', kind, c, b)
  BY <1>3, ReadOnTheWay
<1>4. ASSUME Whole'
      PROVE  /\ \E a, b \in Nat : /\ OnTheWay("out", a, b)' /\ Counts(pty', "out", b, Len(said)')
                                  /\ a <= b /\ b <= Len(said)'
             /\ \E a \in Nat : OnTheWay("err", a, erred - errpty)' /\ a <= erred' - errpty'
  <2>1. Whole
    BY <1>0, <1>4 DEF Whole
  <2>2. PICK a \in Nat, b \in Nat : /\ OnTheWay("out", a, b) /\ Counts(pty, "out", b, Len(said))
                                    /\ a <= b /\ b <= Len(said)
    BY <2>1 DEF FlowInv
  <2>3. PICK c \in Nat : c <= b /\ Counts(log', "out", 0, c) /\ Counts(wire', "out", c, b)
    BY <1>3, <2>2
  <2>4. \E e \in Nat : OnTheWay("err", e, erred - errpty) /\ e <= erred - errpty
    BY <2>1 DEF FlowInv
  <2>5. PICK d \in Nat : /\ d <= erred - errpty /\ Counts(log', "err", 0, d)
                         /\ Counts(wire', "err", d, erred - errpty)
    BY <1>0, <1>3, <2>4
  <2>6. OnTheWay("out", c, b)' /\ Counts(pty', "out", b, Len(said)') /\ b <= Len(said)'
    BY <1>0, <2>2, <2>3 DEF OnTheWay
  <2>7. OnTheWay("err", d, erred - errpty)' /\ d <= erred' - errpty'
    BY <1>0, <2>5 DEF OnTheWay
  <2> QED
    BY <2>3, <2>6, <2>7
<1>5. ASSUME ExitSent
      PROVE  /\ \E c \in Nat : /\ c <= Len(said) /\ Counts(log', "out", 0, c)
                               /\ Counts(wire', "out", c, Len(said))
             /\ \E c \in Nat : /\ c <= erred /\ Counts(log', "err", 0, c)
                               /\ Counts(wire', "err", c, erred)
  <2>1. /\ \E a \in Nat : OnTheWay("out", a, Len(said)) /\ a <= Len(said)
        /\ \E a \in Nat : OnTheWay("err", a, erred) /\ a <= erred
    BY <1>5 DEF FlowInv
  <2> QED
    BY <1>0, <1>3, <2>1
<1>6. ASSUME ExitSent'
      PROVE  /\ \E a \in Nat : OnTheWay("out", a, Len(said))' /\ a <= Len(said)'
             /\ \E a \in Nat : OnTheWay("err", a, erred)' /\ a <= erred'
  <2>1. PICK i \in 1..Len(wire)' : wire'[i].kind = "Exit"
    BY <1>6 DEF ExitSent
  <2>2. i + 1 \in 1..Len(wire) /\ wire[i + 1].kind = "Exit"
    BY <1>1, <2>1
  <2>3. ExitSent
    BY <1>0, <1>6, <2>2 DEF ExitSent
  <2> QED
    BY <1>0, <1>5, <2>3 DEF OnTheWay
<1>7. ASSUME exit' # NoExit, stage' = "exited"
      PROVE  (Counts(log, "out", 0, Len(said)) /\ Counts(log, "err", 0, erred))'
  <2>1. f.kind = "Exit"
    BY <1>0, <1>7
  <2>2. ExitSent
    BY <1>0, <1>1, <1>7, <2>1 DEF ExitSent
  <2>3. \A i \in 1..Len(wire)' : FALSE
    <3>1. 1 = Len(wire)
      BY <1>1, <2>1 DEF FlowInv
    <3>2. Len(wire)' = Len(wire) - 1
      BY <1>1
    <3>3. Len(wire)' = 0
      BY <3>1, <3>2
    <3> QED
      BY <3>3
  <2>4. PICK c \in Nat : /\ c <= Len(said) /\ Counts(log', "out", 0, c)
                         /\ Counts(wire', "out", c, Len(said))
    BY <1>5, <2>2
  <2>5. PICK d \in Nat : d <= erred /\ Counts(log', "err", 0, d) /\ Counts(wire', "err", d, erred)
    BY <1>5, <2>2
  <2>6. c = Len(said)
    BY <1>0, <1>1, <2>3, <2>4, CountsNone
  <2>7. d = erred
    BY <1>0, <1>1, <2>3, <2>5, CountsNone
  <2> QED
    BY <1>0, <2>4, <2>5, <2>6, <2>7
<1>8. cpc' = "frames" => exit' = NoExit
  BY <1>0
<1> QED
  BY <1>2, <1>4, <1>6, <1>7, <1>8 DEF FlowInv

\* A connection that is cut delivers what it does in order.
LEMMA FlowClient ==
  ASSUME TypeOK, SessionInv, OpenInv, FlowInv, [Next]_vars,
         ~(ChildStep /\ UNCHANGED <<agentVars, clientVars>>),
         ~((AgentStep \/ KillAgent \/ HangAgent \/ OtherEnds) /\ UNCHANGED clientVars)
  PROVE  FlowInv'
<1>0. UNCHANGED <<stage, pty, said, erred, errpty>> /\ wire \in Seq(Frames)
  BY ClientMoves, FlowTypes DEF childVars
<1>1. ASSUME \A i \in 1..Len(wire)' : wire'[i].kind = "Exit" => i = Len(wire)',
             cpc' # "frames", exit' = NoExit \/ UNCHANGED <<exit, log>>
      PROVE  FlowInv'
  BY <1>0, <1>1 DEF FlowInv, Whole, ExitSent
<1>2. CASE exit' = NoExit /\ cpc' = "frames" /\ wire' = <<>> /\ apc' \in {"request", "missing"}
  <2>1. ~Whole' /\ ~ExitSent' /\ \A i \in 1..Len(wire)' : FALSE
    BY <1>2 DEF Whole, ExitSent
  <2> QED
    BY <1>2, <2>1 DEF FlowInv
<1>3. CASE exit' = NoExit /\ cpc' = "judge" /\ UNCHANGED wire
  BY <1>1, <1>3 DEF FlowInv
<1>4. CASE ReadFrame
  BY <1>4, FlowReadFrame
<1>5. CASE UNCHANGED <<apc, log, exit, cpc, link, wire>>
  BY <1>0, <1>5 DEF FlowInv, Whole, ExitSent, OnTheWay
<1>6. CASE UNCHANGED <<log, exit>> /\ cpc' # "frames" /\ (UNCHANGED wire \/ wire' = <<>>)
  <2>1. \A i \in 1..Len(wire)' : wire'[i].kind = "Exit" => i = Len(wire)'
    BY <1>6 DEF FlowInv
  <2> QED
    BY <1>1, <1>6, <2>1
<1>7. CASE UNCHANGED <<apc, log, exit, cpc>> /\ link' # "up" /\ wire' \in Prefixes(wire)
  <2>1. PICK n \in 0..Len(wire) : wire' = SubSeq(wire, 1, n)
    BY <1>7 DEF Prefixes
  <2>2. /\ Len(wire)' = n /\ Len(wire) \in Nat
        /\ \A i \in 1..n : wire'[i] = wire[i] /\ i \in 1..Len(wire)
    BY <1>0, <2>1, LenProperties
  <2>3. ASSUME NEW i \in 1..Len(wire)', wire'[i].kind = "Exit"
        PROVE  i = Len(wire)' /\ wire' = wire
    <3>1. i \in 1..Len(wire) /\ wire[i].kind = "Exit" /\ i <= n
      BY <2>2, <2>3
    <3>2. i = Len(wire)
      BY <3>1 DEF FlowInv
    <3>3. n = Len(wire)
      BY <2>2, <3>1, <3>2
    <3>4. SubSeq(wire, 1, Len(wire)) = wire
      BY <1>0
    <3> QED
      BY <2>1, <2>2, <3>2, <3>3, <3>4
  <2>4. ~Whole'
    BY <1>7 DEF Whole
  <2>5. ExitSent' => wire' = wire /\ ExitSent
    BY <1>0, <1>7, <2>3 DEF ExitSent
  <2> QED
    BY <1>0, <1>7, <2>3, <2>4, <2>5 DEF FlowInv, OnTheWay
<1> QED
  BY <1>2, <1>3, <1>4, <1>5, <1>6, <1>7, ClientMoves

\* Nothing of the command's output is lost, repeated or passed on the way.
LEMMA FlowStep ==
  ASSUME TypeOK, SessionInv, OpenInv, MarkInv, FlowInv, [Next]_vars
  PROVE  FlowInv'
<1>1. CASE ChildStep /\ UNCHANGED <<agentVars, clientVars>>
  BY <1>1, FlowChild
<1>2. CASE (AgentStep \/ KillAgent \/ HangAgent \/ OtherEnds) /\ UNCHANGED clientVars
  BY <1>2, FlowAgent, SessionStep
<1> QED
  BY <1>1, <1>2, FlowClient
---------------------------------------------------------------------------
\* What is known of the noise in the terminal while it is open.
NoiseInPty ==
  /\ \A i \in 1..Len(pty) : pty[i].kind \in Noises => ~StartedBy(i) \/ DoneBy(i)
  /\ "started" \notin flags =>
       \A i \in 1..Len(pty) : pty[i].kind = "Started" => Len(held) + i - 1 <= noise
  /\ stage = "boot" => ~StartedBy(End) /\ Len(held) + Len(pty) <= noise

\* The numbers in it.
LEMMA NoiseTypes ==
  ASSUME TypeOK
  PROVE  /\ noise \in Nat /\ HoldLimit \in Nat /\ Len(pty) \in Nat /\ Len(held) \in Nat
         /\ End = Len(pty) + 1
<1>1. /\ pty \in Seq(Pieces) /\ held \in Seq({p \in Pieces : p.kind \in Forwarded})
      /\ noise \in 0..(MaxNoise + 1) /\ MaxNoise \in Nat /\ HoldLimit \in Nat
  BY ChildAssumption, AgentAssumption DEF TypeOK, AgentTypeOK, ChildTypeOK
<1> QED
  BY <1>1, LenProperties DEF End

\* The login shell makes noise before the one marker and after the other.
LEMMA NoiseWritten ==
  ASSUME TypeOK, NoiseInPty, NEW x \in Pieces, pty' = Append(pty, x), UNCHANGED <<held, flags>>,
         noise' \in Nat, noise <= noise',
         x.kind \in Noises => ~StartedBy(End) \/ DoneBy(End),
         x.kind = "Started" => stage = "boot",
         stage' = "boot" => stage = "boot" /\ x.kind # "Started" /\ noise' = noise + 1
  PROVE  NoiseInPty'
<1>0. noise \in Nat /\ Len(pty) \in Nat /\ Len(held) \in Nat /\ End = Len(pty) + 1
  BY NoiseTypes
<1>1. /\ Len(pty)' = Len(pty) + 1 /\ pty'[End] = x
      /\ \A i \in 1..Len(pty) : pty'[i] = pty[i]
      /\ \A i \in 1..Len(pty)' : i \in 1..Len(pty) \/ i = End
      /\ \A i \in 1..End : StartedBy(i)' = StartedBy(i) /\ DoneBy(i)' = DoneBy(i)
      /\ StartedBy(End)' <=> StartedBy(End) \/ x.kind = "Started"
  BY <1>0, SeenWhenWritten
<1>2. \A i \in 1..Len(pty) : i \in 1..End
  BY <1>0
<1>3. ASSUME NEW i \in 1..Len(pty)', pty'[i].kind \in Noises
      PROVE  ~StartedBy(i)' \/ DoneBy(i)'
  <2>1. CASE i \in 1..Len(pty)
    BY <1>1, <1>2, <1>3, <2>1 DEF NoiseInPty
  <2>2. CASE i = End
    <3>1. End \in 1..End
      BY <1>0
    <3>2. StartedBy(i)' = StartedBy(End) /\ DoneBy(i)' = DoneBy(End) /\ x.kind \in Noises
      BY <1>1, <1>3, <2>2, <3>1
    <3> QED
      BY <3>2
  <2> QED
    BY <1>1, <2>1, <2>2
<1>4. ASSUME "started" \notin flags, NEW i \in 1..Len(pty)', pty'[i].kind = "Started"
      PROVE  Len(held) + i - 1 <= noise'
  <2>1. CASE i \in 1..Len(pty)
    <3>1. Len(held) + i - 1 <= noise /\ i \in Nat
      BY <1>1, <1>4, <2>1 DEF NoiseInPty
    <3> QED
      BY <1>0, <3>1
  <2>2. CASE i = End
    <3>1. Len(held) + Len(pty) <= noise
      BY <1>1, <1>4, <2>2 DEF NoiseInPty
    <3> QED
      BY <1>0, <2>2, <3>1
  <2> QED
    BY <1>1, <2>1, <2>2
<1>5. ASSUME stage' = "boot"
      PROVE  ~StartedBy(End)' /\ Len(held) + Len(pty)' <= noise'
  <2>1. ~StartedBy(End)'
    BY <1>1, <1>5 DEF NoiseInPty
  <2>2. Len(held) + Len(pty) <= noise /\ noise' = noise + 1 /\ Len(pty)' = Len(pty) + 1
    BY <1>1, <1>5 DEF NoiseInPty
  <2> QED
    BY <1>0, <2>1, <2>2
<1> QED
  BY <1>3, <1>4, <1>5 DEF NoiseInPty

\* The steps of the script.
LEMMA NoiseChild ==
  ASSUME TypeOK, OpenInv, EarlyInv, MarkInv, NoiseInv, TypeOK',
         ChildStep, UNCHANGED <<agentVars, clientVars>>
  PROVE  NoiseInv'
<1>0. /\ UNCHANGED <<held, flags, log, wire, fds>>
      /\ noise \in Nat /\ noise' \in Nat /\ HoldLimit \in Nat /\ noise <= noise'
      /\ Tidy' => Tidy
  <2>1. UNCHANGED <<held, flags, log, wire, fds>>
    BY DEF agentVars, clientVars, ChildStep, ScriptStep, Ask, ReadPw, Sudo, MakeNoise, RcExit,
       Start, CmdOut, CmdErr, Done, CmdExits, Exit, Fork, Killed, DaemonSpeaks, DaemonEnds
  <2>2. noise \in Nat /\ noise' \in Nat /\ HoldLimit \in Nat
    <3>1. /\ noise \in 0..(MaxNoise + 1) /\ noise' \in 0..(MaxNoise + 1) /\ MaxNoise \in Nat
          /\ HoldLimit \in Nat
      BY ChildAssumption, AgentAssumption DEF TypeOK, AgentTypeOK, ChildTypeOK
    <3> QED
      BY <3>1
  <2>3. noise' \in {noise, noise + 1}
    BY DEF ChildStep, ScriptStep, Ask, ReadPw, Sudo, MakeNoise, RcExit, Start, CmdOut, CmdErr,
       Done, CmdExits, Exit, Fork, Killed, DaemonSpeaks, DaemonEnds
  <2>4. Tidy' => Tidy
    BY DEF Tidy, ChildStep, ScriptStep, Ask, ReadPw, Sudo, MakeNoise, RcExit, Start, CmdOut,
       CmdErr, Done, CmdExits, Exit, Fork, Killed, DaemonSpeaks, DaemonEnds
  <2> QED
    BY <2>1, <2>2, <2>3, <2>4
<1>1. SUFFICES ASSUME Tidy', noise' < HoldLimit, "master" \in fds PROVE NoiseInPty'
  <2>1. ASSUME Tidy', noise' < HoldLimit
        PROVE  Spotless(log)' /\ Spotless(wire)'
    <3>1. noise < HoldLimit
      BY <1>0, <2>1
    <3>2. Spotless(log) /\ Spotless(wire)
      BY <1>0, <2>1, <3>1 DEF NoiseInv
    <3> QED
      BY <1>0, <3>2 DEF Spotless
  <2> QED
    BY <1>0, <2>1 DEF NoiseInv, NoiseInPty
<1>2. Tidy /\ noise < HoldLimit /\ NoiseInPty
  <2>1. Tidy /\ noise < HoldLimit
    BY <1>0, <1>1
  <2> QED
    BY <1>1, <2>1 DEF NoiseInv, NoiseInPty
<1>3. CASE UNCHANGED pty
  <2>1. /\ Len(pty)' = Len(pty) /\ Len(held)' = Len(held)
        /\ \A i : StartedBy(i)' = StartedBy(i) /\ DoneBy(i)' = DoneBy(i)
        /\ StartedBy(End)' = StartedBy(End)
    BY <1>0, <1>3 DEF StartedBy, DoneBy, End
  <2>2. Len(pty) \in Nat /\ Len(held) \in Nat
    BY NoiseTypes
  <2>3. stage' = "boot" => ~StartedBy(End) /\ Len(held) + Len(pty) <= noise
    <3>1. CASE stage = "boot"
      BY <1>2, <3>1 DEF NoiseInPty
    <3>2. CASE stage' = "boot" /\ stage # "boot"
      <4>1. stage = "sudo"
        BY <3>2 DEF ChildStep, ScriptStep, Ask, ReadPw, Sudo, MakeNoise, RcExit, Start, CmdOut,
           CmdErr, Done, CmdExits, Exit, Fork, Killed, DaemonSpeaks, DaemonEnds
      <4>2. pty = <<>> /\ held = <<>> /\ "started" \notin flags
        BY <4>1 DEF EarlyInv
      <4>3. Len(pty) = 0 /\ Len(held) = 0 /\ End = 1
        BY <4>2 DEF End
      <4>4. ~StartedBy(End)
        BY <4>2, <4>3 DEF StartedBy
      <4> QED
        BY <1>0, <4>3, <4>4
    <3> QED
      BY <3>1, <3>2
  <2>4. ASSUME NEW n \in Nat, n <= noise PROVE n <= noise'
    BY <1>0, <2>4
  <2>5. stage' = "boot" => ~StartedBy(End)' /\ Len(held)' + Len(pty)' <= noise'
    <3>1. Len(held) + Len(pty) \in Nat
      BY <2>2
    <3> QED
      BY <2>1, <2>3, <2>4, <3>1
  <2>6. "started" \notin flags' =>
          \A i \in 1..Len(pty)' : pty'[i].kind = "Started" => Len(held)' + i - 1 <= noise'
    <3> SUFFICES ASSUME "started" \notin flags, NEW i \in 1..Len(pty), pty[i].kind = "Started"
                 PROVE  Len(held) + i - 1 <= noise'
      BY <1>0, <1>3, <2>1
    <3>1. Len(held) + i - 1 <= noise
      BY <1>2 DEF NoiseInPty
    <3>2. Len(held) + i - 1 \in Nat
      BY <2>2
    <3> QED
      BY <2>4, <3>1, <3>2
  <2>7. \A i \in 1..Len(pty)' : pty'[i].kind \in Noises => ~StartedBy(i)' \/ DoneBy(i)'
    BY <1>2, <1>3, <2>1 DEF NoiseInPty
  <2> QED
    BY <2>5, <2>6, <2>7 DEF NoiseInPty
<1>4. /\ bracketed => DoneBy(End)
      /\ bracketed => stage \in {"unwind", "exiting", "closed", "exited"}
  BY <1>1 DEF MarkInv, OpenInv
<1>5. CASE pty' = Append(pty, Mark("PwReady")) /\ stage' = "pwread"
  <2>1. Mark("PwReady") \in Pieces /\ Mark("PwReady").kind = "PwReady"
    BY PieceKinds DEF Markers
  <2> QED
    BY <1>0, <1>2, <1>5, <2>1, NoiseWritten DEF Noises
<1>6. CASE pty' = Append(pty, Mark("SudoFailed")) /\ stage' = "exiting"
  <2>1. Mark("SudoFailed") \in Pieces /\ Mark("SudoFailed").kind = "SudoFailed"
    BY PieceKinds DEF Markers
  <2> QED
    BY <1>0, <1>2, <1>6, <2>1, NoiseWritten DEF Noises
<1>7. CASE pty' = Append(pty, Noise) /\ MakeNoise
  <2>1. Noise \in Pieces /\ Noise.kind = "noise"
    BY PieceKinds DEF Noise
  <2>2. noise' = noise + 1 /\ stage' = stage /\ stage \in {"boot", "unwind"}
    BY <1>7 DEF MakeNoise
  <2>3. ~StartedBy(End) \/ DoneBy(End)
    <3>1. CASE stage = "boot"
      BY <1>2, <3>1 DEF NoiseInPty
    <3>2. CASE stage = "unwind"
      BY <1>2, <1>4, <3>2 DEF Tidy
    <3> QED
      BY <2>2, <3>1, <3>2
  <2> QED
    BY <1>0, <1>2, <1>7, <2>1, <2>2, <2>3, NoiseWritten
<1>8. CASE pty' = Append(pty, Mark("Started")) /\ Start
  <2>1. Mark("Started") \in Pieces /\ Mark("Started").kind = "Started"
    BY PieceKinds DEF Markers
  <2>2. stage = "boot" /\ stage' = "cmd"
    BY <1>8 DEF Start
  <2> QED
    BY <1>0, <1>2, <1>8, <2>1, <2>2, NoiseWritten DEF Noises
<1>9. CASE pty' = Append(pty, OutOf(Len(said) + 1)) /\ CmdOut /\ Len(said) + 1 \in 1..MaxOut
  <2>1. OutOf(Len(said) + 1) \in Pieces /\ OutOf(Len(said) + 1).kind = "out"
    BY <1>9, PieceKinds
  <2>2. stage' = "cmd"
    BY <1>9 DEF CmdOut
  <2> QED
    BY <1>0, <1>2, <1>9, <2>1, <2>2, NoiseWritten DEF Noises
<1>10. CASE pty' = Append(pty, Mark("Done")) /\ Done
  <2>1. Mark("Done") \in Pieces /\ Mark("Done").kind = "Done"
    BY PieceKinds DEF Markers
  <2>2. stage' = "unwind"
    BY <1>10 DEF Done
  <2> QED
    BY <1>0, <1>2, <1>10, <2>1, <2>2, NoiseWritten DEF Noises
<1>11. CASE pty' = Append(pty, LeftOver) /\ DaemonSpeaks
  <2>1. LeftOver \in Pieces /\ LeftOver.kind = "leftover"
    BY PieceKinds DEF LeftOver
  <2>2. bracketed /\ stage' = stage /\ stage # "boot"
    BY <1>11 DEF DaemonSpeaks
  <2> QED
    BY <1>0, <1>2, <1>4, <1>11, <2>1, <2>2, NoiseWritten
<1> QED
  BY <1>3, <1>5, <1>6, <1>7, <1>8, <1>9, <1>10, <1>11, ChildWrites

\* Nothing but frames without noise is sent.
LEMMA SendsSpotless ==
  ASSUME wire \in Seq(Frames), NEW frames \in Seq(Frames), Send(frames),
         Spotless(wire), Spotless(frames)
  PROVE  Spotless(wire')
<1>1. CASE link = "up"
  <2>1. /\ wire' = wire \o frames /\ Len(wire) \in Nat /\ Len(frames) \in Nat
        /\ Len(wire') = Len(wire) + Len(frames)
        /\ \A i \in 1..Len(wire) : wire'[i] = wire[i]
        /\ \A i \in 1..Len(wire') : i > Len(wire) => /\ wire'[i] = frames[i - Len(wire)]
                                                     /\ i - Len(wire) \in 1..Len(frames)
    BY <1>1, ConcatProperties, LenProperties DEF Send
  <2> SUFFICES ASSUME NEW i \in 1..Len(wire') PROVE wire'[i].kind \notin Noises
    BY DEF Spotless
  <2>2. CASE i > Len(wire)
    BY <2>1, <2>2 DEF Spotless
  <2>3. CASE ~(i > Len(wire))
    <3>1. i \in 1..Len(wire)
      BY <2>1, <2>3
    <3> QED
      BY <2>1, <3>1 DEF Spotless
  <2> QED
    BY <2>2, <2>3
<1>2. CASE link # "up"
  BY <1>2 DEF Send
<1> QED
  BY <1>1, <1>2

\* One frame that is no noise.
LEMMA SendsOneSpotless ==
  ASSUME wire \in Seq(Frames), NEW f \in Frames, Send(<<f>>), Spotless(wire), f.kind \notin Noises
  PROVE  Spotless(wire')
<1>1. <<f>> \in Seq(Frames) /\ \A i \in 1..Len(<<f>>) : <<f>>[i].kind \notin Noises
  OBVIOUS
<1> QED
  BY <1>1, SendsSpotless DEF Spotless

\* The noise ahead of the opening marker fits in what is held back.
LEMMA NeverSpilt ==
  ASSUME TypeOK, EarlyInv, MarkInv, Tidy, noise < HoldLimit, "master" \in fds, NoiseInPty,
         pty # <<>>, SpiltOver(Head(pty))
  PROVE  FALSE
<1>0. /\ noise \in Nat /\ HoldLimit \in Nat /\ Len(held) \in Nat /\ Len(pty) \in Nat
      /\ End = Len(pty) + 1 /\ pty \in Seq(Pieces)
  BY NoiseTypes, FlowTypes
<1>1. /\ Head(pty).kind \in Forwarded /\ "started" \notin flags /\ ~(Len(held) + 1 < HoldLimit)
      /\ pty[1] = Head(pty) /\ Len(pty) # 0
  BY <1>0 DEF SpiltOver, HoldRoom
<1>2. CASE stage \in {"ask", "pwread", "sudo"}
  <2>1. Head(pty).kind = "PwReady"
    BY <1>1, <1>2 DEF EarlyInv, Mark
  <2> QED
    BY <1>1, <2>1 DEF Forwarded
<1>3. CASE stage = "boot"
  <2>1. Len(held) + Len(pty) <= noise
    BY <1>3 DEF NoiseInPty
  <2> QED
    BY <1>0, <1>1, <2>1
<1>4. CASE stage = "cmd" \/ bracketed
  <2>1. StartedBy(End)
    BY <1>4 DEF MarkInv
  <2>2. PICK j \in 1..(End - 1) : pty[j].kind = "Started"
    BY <1>1, <2>1 DEF StartedBy
  <2>3. j \in 1..Len(pty)
    BY <1>0, <2>2
  <2>4. j # 1
    BY <1>1, <2>2 DEF Forwarded
  <2>5. Len(held) + j - 1 <= noise
    BY <1>1, <2>2, <2>3 DEF NoiseInPty
  <2> QED
    BY <1>0, <1>1, <2>3, <2>4, <2>5
<1> QED
  BY <1>2, <1>3, <1>4 DEF Tidy

\* The reader keeps the noise back, and drops it when it sees the marker.
LEMMA NoiseRead ==
  ASSUME TypeOK, SessionInv, OpenInv, EarlyInv, MarkInv, NoiseInv, ReadMaster, UNCHANGED clientVars
  PROVE  NoiseInv'
<1> DEFINE piece == Head(pty)
<1>0. /\ pty # <<>> /\ "master" \in fds /\ piece \in Pieces /\ ReadOne(piece)
      /\ \/ Dropped(piece) \/ Passed(piece) \/ KeptBack(piece)
         \/ SpiltOver(piece) \/ Opening(piece) \/ Marked(piece)
  BY ReadMasterMeans
<1>1. UNCHANGED <<stage, fds, bracketed, noise, log>>
  BY <1>0 DEF ReadOne, clientVars
<1>2. SUFFICES ASSUME Tidy, noise < HoldLimit
               PROVE  Spotless(log) /\ Spotless(wire') /\ NoiseInPty'
  BY <1>1 DEF NoiseInv, NoiseInPty, Tidy, Spotless
<1>3. Spotless(log) /\ Spotless(wire) /\ NoiseInPty
  BY <1>0, <1>2 DEF NoiseInv, NoiseInPty
<1>4. ~SpiltOver(piece)
  BY <1>0, <1>2, <1>3, NeverSpilt
<1>5. /\ pty[1] = piece /\ 1 \in 1..Len(pty) /\ End = End' + 1
      /\ \A i \in 1..Len(pty)' : pty'[i] = pty[i + 1] /\ i + 1 \in 1..Len(pty)
      /\ \A i \in 1..End' : DoneBy(i)' <=> DoneBy(i + 1)
      /\ StartedBy(1) <=> "started" \in flags
      /\ DoneBy(1) <=> "done" \in flags
  BY <1>0, SeenWhenRead
<1>6. /\ noise \in Nat /\ Len(pty) \in Nat /\ Len(held) \in Nat /\ End = Len(pty) + 1
      /\ Len(pty)' = Len(pty) - 1 /\ Len(pty) # 0 /\ End' = Len(pty)
  <2>1. pty \in Seq(Pieces) /\ pty' = Tail(pty)
    BY <1>0, FlowTypes DEF ReadOne
  <2>2. Len(pty)' = Len(pty) - 1 /\ Len(pty) # 0
    BY <1>0, <2>1
  <2> QED
    BY <2>2, NoiseTypes DEF End
<1>7. "started" \in flags' <=> "started" \in flags \/ piece.kind = "Started"
  <2>1. "started" \in flags \/ piece.kind = "Started" => "started" \in flags'
    BY <1>0 DEF ReadOne
  <2>2. "started" \in flags' => "started" \in flags \/ piece.kind = "Started"
    BY <1>0, <1>4 DEF Dropped, Passed, KeptBack, Opening, Marked
  <2> QED
    BY <2>1, <2>2
<1> HIDE DEF piece
<1>8. ASSUME NEW i \in 1..End', StartedBy(i)' PROVE StartedBy(i + 1)
  <2>1. CASE "started" \in flags
    BY <2>1 DEF StartedBy
  <2>2. CASE piece.kind = "Started"
    <3>1. 1 \in 1..(i + 1 - 1)
      BY <1>6, <1>8
    <3> QED
      BY <1>5, <2>2, <3>1 DEF StartedBy
  <2>3. CASE "started" \notin flags'
    <3>1. PICK j \in 1..(i - 1) : pty'[j].kind = "Started"
      BY <1>8, <2>3 DEF StartedBy
    <3>2. j \in 1..Len(pty)' /\ j + 1 \in 1..(i + 1 - 1)
      BY <1>6, <3>1
    <3>3. pty[j + 1].kind = "Started"
      BY <1>5, <3>1, <3>2
    <3> QED
      BY <3>2, <3>3 DEF StartedBy
  <2> QED
    BY <1>7, <2>1, <2>2, <2>3
<1>9. Len(held)' \in Nat /\ Len(held)' <= Len(held) + 1
  <2>1. held \in Seq(Kept) /\ Len(<<>>) = 0
    BY FlowTypes
  <2>2. held' = held \/ held' = <<>> \/ held' = Append(held, piece)
    BY <1>0, <1>4 DEF Dropped, Passed, KeptBack, Opening, Marked, piece
  <2>3. CASE held' = Append(held, piece)
    <3>1. Len(Append(held, piece)) = Len(held) + 1
      BY <2>1
    <3> QED
      BY <1>6, <2>3, <3>1
  <2> QED
    BY <1>6, <2>1, <2>2, <2>3
<1>10. NoiseInPty'
  <2>1. ASSUME NEW i \in 1..Len(pty)', pty'[i].kind \in Noises
        PROVE  ~StartedBy(i)' \/ DoneBy(i)'
    <3>1. i \in 1..End' /\ i + 1 \in 1..Len(pty) /\ pty[i + 1].kind \in Noises
      BY <1>5, <1>6, <2>1
    <3>2. ~StartedBy(i + 1) \/ DoneBy(i + 1)
      BY <1>3, <3>1 DEF NoiseInPty
    <3> QED
      BY <1>5, <1>8, <3>1, <3>2
  <2>2. ASSUME "started" \notin flags', NEW i \in 1..Len(pty)', pty'[i].kind = "Started"
        PROVE  Len(held)' + i - 1 <= noise
    <3>1. i + 1 \in 1..Len(pty) /\ pty[i + 1].kind = "Started" /\ i \in Nat
      BY <1>5, <1>6, <2>2
    <3>2. Len(held) + (i + 1) - 1 <= noise
      BY <1>3, <1>7, <2>2, <3>1 DEF NoiseInPty
    <3> QED
      BY <1>6, <1>9, <3>1, <3>2
  <2>3. ASSUME stage = "boot"
        PROVE  ~StartedBy(End)' /\ Len(held)' + Len(pty)' <= noise
    <3>1. ~StartedBy(End) /\ Len(held) + Len(pty) <= noise
      BY <1>3, <2>3 DEF NoiseInPty
    <3>2. End' \in 1..End' /\ End' + 1 = End
      BY <1>6
    <3>3. ~StartedBy(End)'
      BY <1>8, <3>1, <3>2
    <3> QED
      BY <1>6, <1>9, <3>1, <3>3
  <2> QED
    BY <1>1, <2>1, <2>2, <2>3 DEF NoiseInPty
<1>11. Spotless(wire')
  <2>0. wire \in Seq(Frames)
    BY FlowTypes
  <2>1. CASE UNCHANGED wire
    BY <1>3, <2>1
  <2>2. CASE Send(<<Frame("SudoFailed", 0)>>)
    <3>1. Frame("SudoFailed", 0) \in Frames /\ Frame("SudoFailed", 0).kind \notin Noises
      BY ForwardedFrame DEF Noises
    <3> QED
      BY <1>3, <2>0, <2>2, <3>1, SendsOneSpotless
  <2>3. CASE Passed(piece)
    <3>1. /\ piece.kind \in Forwarded /\ "done" \notin flags /\ "started" \in flags
          /\ Send(<<Frame(piece.kind, piece.n)>>)
      BY <2>3 DEF Passed
    <3>2. piece.kind \notin Noises
      BY <1>3, <1>5, <3>1 DEF NoiseInPty
    <3>3. piece.n \in Nat
      BY <1>0, PieceKinds DEF piece
    <3>4. Frame(piece.kind, piece.n) \in Frames /\ Frame(piece.kind, piece.n).kind = piece.kind
      BY <3>1, <3>3, ForwardedFrame
    <3> QED
      BY <1>3, <2>0, <3>1, <3>2, <3>4, SendsOneSpotless
  <2>4. UNCHANGED wire \/ Send(<<Frame("SudoFailed", 0)>>) \/ Passed(piece)
    BY <1>0, <1>4 DEF Dropped, KeptBack, Opening, Marked, piece
  <2> QED
    BY <2>1, <2>2, <2>3, <2>4
<1> QED
  BY <1>3, <1>10, <1>11

\* What the agent does besides reading adds no noise.
LEMMA NoiseAgent ==
  ASSUME TypeOK, SessionInv, OpenInv, EarlyInv, MarkInv, NoiseInv,
         AgentStep \/ KillAgent \/ HangAgent \/ OtherEnds, UNCHANGED clientVars
  PROVE  NoiseInv'
<1>0. /\ UNCHANGED <<noise, bracketed, log>> /\ wire \in Seq(Frames)
      /\ noise \in Nat /\ Len(pty) \in Nat /\ Len(held) \in Nat
  BY AgentMoves, FlowTypes, NoiseTypes DEF clientVars
<1>1. CASE ReadMaster
  BY <1>1, NoiseRead
<1>2. CASE SpawnShell
  <2>1. stage = "none" /\ apc = "spawn"
    BY <1>2 DEF SpawnShell, SessionInv, AgentInv
  <2>2. /\ log' = <<>> /\ pty' = <<>> /\ held' = <<>> /\ flags' = {} /\ noise' = 0
        /\ ~bracketed'
    BY <1>0, <1>2, <2>1 DEF SpawnShell, OpenInv
  <2>3. stage' \in {"none", "ask", "boot"} /\ (stage' # "none" => wire' = <<>>)
    BY <1>2, <2>1 DEF SpawnShell, OpenInv
  <2>4. Len(log)' = 0 /\ Len(pty)' = 0 /\ Len(held)' = 0 /\ End' = 1 /\ (stage' # "none" => Len(wire)' = 0)
    BY <2>2, <2>3 DEF End
  <2>5. ~StartedBy(End)'
    BY <2>2, <2>4 DEF StartedBy
  <2>6. stage' # "none" => Spotless(log)' /\ Spotless(wire)'
    BY <2>4 DEF Spotless
  <2>7. Tidy' => stage' # "none"
    BY <2>2 DEF Tidy
  <2> QED
    BY <2>2, <2>4, <2>5, <2>6, <2>7 DEF NoiseInv
<1>3. CASE MasterEnds \/ EndDrain
  <2>1. /\ stage \in {"none", "closed", "exited"} /\ pty = <<>> /\ UNCHANGED stage
        /\ "master" \notin fds'
        /\ wire' = wire \/ ("master" \in fds /\ ReleaseHeld)
    <3>1. CASE MasterEnds
      BY <3>1 DEF MasterEnds, SlaveOpen
    <3>2. CASE EndDrain
      <4>1. apc = "drain" /\ stage \in {"none", "exited"}
        BY <3>2 DEF EndDrain, SessionInv, AgentInv, Reported
      <4>2. pty = <<>>
        BY <3>2 DEF EndDrain, Drained, MasterReady, OpenInv
      <4> QED
        BY <3>2, <4>1, <4>2 DEF EndDrain
    <3> QED
      BY <1>3, <3>1, <3>2
  <2>2. SUFFICES ASSUME Tidy, noise < HoldLimit PROVE Spotless(log) /\ Spotless(wire')
    BY <1>0, <2>1 DEF NoiseInv, Tidy, Spotless
  <2>3. Spotless(log) /\ Spotless(wire) /\ bracketed
    BY <2>1, <2>2 DEF NoiseInv, Tidy
  <2>4. CASE "master" \in fds /\ ReleaseHeld
    <3>1. StartedBy(End) /\ End = 1
      BY <2>1, <2>3, <2>4 DEF MarkInv, End
    <3>2. "started" \in flags
      BY <3>1 DEF StartedBy
    <3>3. held = <<>>
      BY <3>2 DEF MarkInv
    <3>4. AsFrames(held) = <<>>
      BY <3>3 DEF AsFrames
    <3>5. wire' = wire
      BY <1>0, <2>4, <3>4 DEF ReleaseHeld, Send
    <3> QED
      BY <2>3, <3>5
  <2> QED
    BY <2>1, <2>3, <2>4
<1>4. CASE KillAgent
  <2>1. UNCHANGED <<stage, wire>> /\ "master" \notin fds'
    BY <1>4 DEF KillAgent
  <2> QED
    BY <1>0, <2>1 DEF NoiseInv, Tidy, Spotless
<1>5. ASSUME UNCHANGED <<stage, pty, held, flags, noise>>, "master" \in fds' => "master" \in fds,
             Spotless(wire) => Spotless(wire')
      PROVE  NoiseInv'
  <2>1. /\ Len(pty)' = Len(pty) /\ Len(held)' = Len(held)
        /\ \A i : StartedBy(i)' = StartedBy(i) /\ DoneBy(i)' = DoneBy(i)
        /\ StartedBy(End)' = StartedBy(End)
        /\ Spotless(log)' = Spotless(log) /\ Tidy' = Tidy
    BY <1>0, <1>5 DEF StartedBy, DoneBy, End, Spotless, Tidy
  <2>2. Spotless(wire') => Spotless(wire)'
    BY DEF Spotless
  <2> QED
    BY <1>0, <1>5, <2>1, <2>2 DEF NoiseInv
<1>6. ASSUME Spotless(wire), NEW k \in {"err", "LockHeld", "SudoFailed"}, NEW n \in Nat,
             Send(<<Frame(k, n)>>)
      PROVE  Spotless(wire')
  <2>1. Frame(k, n) \in Frames /\ Frame(k, n).kind \notin Noises
    BY ForwardedFrame DEF Noises
  <2> QED
    BY <1>0, <1>6, <2>1, SendsOneSpotless
<1>7. ASSUME Spotless(wire), NEW n \in 0..255, Send(<<Frame("Exit", n)>>)
      PROVE  Spotless(wire')
  <2>1. Frame("Exit", n) \in Frames /\ Frame("Exit", n).kind \notin Noises
    BY DEF Noises, Frame, Frames
  <2> QED
    BY <1>0, <1>7, <2>1, SendsOneSpotless
<1>8. CASE ReadErr /\ UNCHANGED <<stage, typed, pty, held, flags, noise>>
             /\ ("master" \in fds' <=> "master" \in fds)
  <2>1. erred - errpty + 1 \in Nat
    BY FlowTypes
  <2>2. UNCHANGED wire \/ Send(<<Frame("err", erred - errpty + 1)>>)
    BY <1>8 DEF ReadErr
  <2>3. Spotless(wire) => Spotless(wire')
    BY <1>6, <2>1, <2>2
  <2> QED
    BY <1>5, <1>8, <2>3
<1>9. CASE UNCHANGED <<stage, typed, pty, errpty, held, flags, fds, noise>>
             /\ (wire' = wire \/ ReadRequest \/ AcquireLock \/ SendExit)
  <2>1. CASE wire' = wire
    BY <1>5, <1>9, <2>1
  <2>2. CASE ReadRequest
    <3>1. link # "up" \/ UNCHANGED wire
      BY <2>2 DEF ReadRequest
    <3>2. wire' = wire
      BY <2>2, <3>1 DEF ReadRequest, Send
    <3> QED
      BY <2>1, <3>2
  <2>3. CASE AcquireLock
    <3>1. UNCHANGED wire \/ Send(<<Frame("LockHeld", 0)>>) \/ Send(<<Frame("err", 0)>>)
      BY <2>3 DEF AcquireLock
    <3>2. Spotless(wire) => Spotless(wire')
      BY <1>6, <3>1
    <3> QED
      BY <1>5, <1>9, <3>2
  <2>4. CASE SendExit
    <3>1. Send(<<Frame("Exit", outcome)>>) /\ outcome \in 0..255
      BY <2>4 DEF SendExit, TypeOK, AgentTypeOK
    <3>2. Spotless(wire) => Spotless(wire')
      BY <1>7, <3>1
    <3> QED
      BY <1>5, <1>9, <3>2
  <2> QED
    BY <1>9, <2>1, <2>2, <2>3, <2>4
<1> QED
  BY <1>1, <1>2, <1>3, <1>4, <1>8, <1>9, AgentMoves

\* Nor does the client, which moves it from the wire to the log.
LEMMA NoiseClient ==
  ASSUME TypeOK, NoiseInv, [Next]_vars,
         ~(ChildStep /\ UNCHANGED <<agentVars, clientVars>>),
         ~((AgentStep \/ KillAgent \/ HangAgent \/ OtherEnds) /\ UNCHANGED clientVars)
  PROVE  NoiseInv'
<1>0. /\ UNCHANGED <<stage, pty, fds, bracketed, noise, held, flags>>
      /\ wire \in Seq(Frames) /\ log \in Seq(Logged)
  BY ClientMoves, FlowTypes DEF childVars
<1>1. Spotless(log) /\ Spotless(wire) => Spotless(log') /\ Spotless(wire')
  <2> SUFFICES ASSUME Spotless(log), Spotless(wire) PROVE Spotless(log') /\ Spotless(wire')
    OBVIOUS
  <2>0. Spotless(<<>>)
    BY DEF Spotless
  <2>1. CASE log' = log /\ (UNCHANGED wire \/ wire' = <<>>)
    BY <2>0, <2>1
  <2>2. CASE log' = log /\ wire' \in Prefixes(wire)
    <3>1. PICK n \in 0..Len(wire) : wire' = SubSeq(wire, 1, n)
      BY <2>2 DEF Prefixes
    <3>2. /\ Len(wire') = n /\ \A i \in 1..n : wire'[i] = wire[i] /\ i \in 1..Len(wire)
      BY <1>0, <3>1, LenProperties
    <3> QED
      BY <2>2, <3>2 DEF Spotless
  <2>3. CASE ReadFrame
    <3> DEFINE f == Head(wire)
    <3>1. /\ wire # <<>> /\ wire' = Tail(wire)
          /\ log' = IF f.kind \in Forwarded \cup {"err"} THEN Append(log, f) ELSE log
      BY <2>3 DEF ReadFrame
    <3>2. /\ f = wire[1] /\ 1 \in 1..Len(wire) /\ Len(wire') = Len(wire) - 1
          /\ \A i \in 1..Len(wire') : wire'[i] = wire[i + 1] /\ i + 1 \in 1..Len(wire)
      BY <1>0, <3>1, HeadTailProperties, LenProperties
    <3>3. Spotless(wire')
      BY <3>2 DEF Spotless
    <3>4. f.kind \notin Noises /\ f \in Frames
      BY <1>0, <3>2, ElementOfSeq DEF Spotless
    <3> HIDE DEF f
    <3>5. CASE f.kind \in Forwarded \cup {"err"}
      <4>1. log' = Append(log, f) /\ f \in Logged
        BY <3>1, <3>4, <3>5, FrameKinds
      <4>2. /\ Len(log') = Len(log) + 1 /\ Len(log) \in Nat /\ log'[Len(log) + 1] = f
            /\ \A i \in 1..Len(log) : log'[i] = log[i]
        BY <1>0, <4>1, AppendProperties, LenProperties
      <4>3. \A i \in 1..Len(log') : i \in 1..Len(log) \/ i = Len(log) + 1
        BY <4>2
      <4>4. Spotless(log')
        BY <3>4, <4>2, <4>3 DEF Spotless
      <4> QED
        BY <3>3, <4>4
    <3>6. CASE f.kind \notin Forwarded \cup {"err"}
      BY <3>1, <3>3, <3>6
    <3> QED
      BY <3>5, <3>6
  <2> QED
    BY <2>1, <2>2, <2>3, ClientMoves
<1>2. (Spotless(log') => Spotless(log)') /\ (Spotless(wire') => Spotless(wire)')
  BY DEF Spotless
<1>3. /\ Len(pty)' = Len(pty) /\ Len(held)' = Len(held)
      /\ \A i : StartedBy(i)' = StartedBy(i) /\ DoneBy(i)' = DoneBy(i)
      /\ StartedBy(End)' = StartedBy(End) /\ Tidy' = Tidy
  BY <1>0 DEF StartedBy, DoneBy, End, Tidy
<1> QED
  BY <1>0, <1>1, <1>2, <1>3 DEF NoiseInv

\* The noise stays outside the markers and out of the log.
LEMMA NoiseStep ==
  ASSUME TypeOK, SessionInv, OpenInv, EarlyInv, MarkInv, NoiseInv, [Next]_vars
  PROVE  NoiseInv'
<1>1. CASE ChildStep /\ UNCHANGED <<agentVars, clientVars>>
  BY <1>1, NoiseChild, TypeStep
<1>2. CASE (AgentStep \/ KillAgent \/ HangAgent \/ OtherEnds) /\ UNCHANGED clientVars
  BY <1>2, NoiseAgent
<1> QED
  BY <1>1, <1>2, NoiseClient

\* What an Exit that was read says of the log.
LEMMA LogIsComplete ==
  ASSUME SessionInv, LogInv
  PROVE  LogIsTheCommand
<1> SUFFICES ASSUME exit # NoExit, stage = "exited"
             PROVE  /\ Counts(log, "out", 0, Len(said)) /\ Counts(log, "err", 0, erred)
                    /\ bracketed /\ noise < HoldLimit =>
                         \A i \in DOMAIN log : log[i].kind \notin {"noise", "leftover"}
  BY DEF LogIsTheCommand
<1>1. Counts(log, "out", 0, Len(said)) /\ Counts(log, "err", 0, erred)
  BY DEF LogInv, FlowInv
<1>2. ASSUME bracketed, noise < HoldLimit
      PROVE  \A i \in DOMAIN log : log[i].kind \notin {"noise", "leftover"}
  <2>1. Spotless(log)
    BY <1>2 DEF LogInv, NoiseInv, Tidy
  <2>2. DOMAIN log = 1..Len(log)
    <3>1. log \in Seq(CleanLog)
      BY DEF SessionInv, CleanStreams
    <3> QED
      BY <3>1, LenProperties
  <2> QED
    BY <2>1, <2>2 DEF Spotless, Noises
<1> QED
  BY <1>1, <1>2

\* For any command, shell, terminal and limit, when an Exit has been read the
\* log of the panel holds every piece of the command's stdout and stderr once
\* and in order; and none of the login shell's noise, if the command was
\* bracketed by its markers and the noise before it fits in what the agent
\* holds back.
THEOREM LogIsTheOutput == Spec => []LogIsTheCommand
<1>1. Init => LogInv
  <2> SUFFICES ASSUME Init PROVE LogInv
    OBVIOUS
  <2>1. /\ stage = "none" /\ fds = {} /\ pty = <<>> /\ said = <<>> /\ erred = 0 /\ errpty = 0
        /\ noise = 0 /\ ~bracketed /\ ~daemon /\ held = <<>> /\ flags = {} /\ wire = <<>>
        /\ log = <<>> /\ apc = "off" /\ exit = NoExit /\ cpc = "dial"
    BY DEF Init, ChildInit, AgentInit, ClientInit
  <2>2. Len(<<>>) = 0
    OBVIOUS
  <2>3. OpenInv /\ EarlyInv
    BY <2>1 DEF OpenInv, EarlyInv, Waiting
  <2>4. MarkInv
    BY <2>1, <2>2 DEF MarkInv
  <2>5. FlowInv
    BY <2>1, <2>2 DEF FlowInv, Whole, ExitSent
  <2>6. NoiseInv
    BY <2>1 DEF NoiseInv, Tidy
  <2> QED
    BY <2>3, <2>4, <2>5, <2>6 DEF LogInv
<1>2. TypeOK /\ SessionInv /\ LogInv /\ [Next]_vars => LogInv'
  <2> SUFFICES ASSUME TypeOK, SessionInv, LogInv, [Next]_vars PROVE LogInv'
    OBVIOUS
  <2>1. OpenInv'
    BY OpenStep DEF LogInv
  <2>2. EarlyInv'
    BY EarlyStep DEF LogInv
  <2>3. MarkInv'
    BY MarkStep DEF LogInv
  <2>4. FlowInv'
    BY FlowStep DEF LogInv
  <2>5. NoiseInv'
    BY NoiseStep DEF LogInv
  <2> QED
    BY <2>1, <2>2, <2>3, <2>4, <2>5 DEF LogInv
<1>3. SessionInv /\ LogInv => LogIsTheCommand
  BY LogIsComplete
<1> QED
  BY <1>1, <1>2, <1>3, SessionTypeCorrect, SessionInvariant, PTL DEF Spec
=============================================================================
