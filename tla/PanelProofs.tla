---------------------------- MODULE PanelProofs -----------------------------
(***************************************************************************)
(* Proofs about what a panel shows and does, for any hosts, tools,         *)
(* versions, pollers and panels, and any answers: a kept list of tools is  *)
(* never a filter and never older than its window, the card says what the  *)
(* host has answered, an action runs where and as often as it was          *)
(* confirmed, and a host is read within its own cadence when the timing    *)
(* constants allow it.                                                     *)
(***************************************************************************)
EXTENDS OpsCatalogue, OpsCard, OpsPolls, HostActions, FiniteSetTheorems,
        WellFoundedInduction, TLAPS

---------------------------------------------------------------------------
\* The list of tools, and the sections asked by it.
SectionsTold == {"absent", "unknown", "value", "failed"}
Digests == {<<>>} \cup (SUBSET Tools) \X (1..2)
KeptLists ==
  [version : Versions, absent : SUBSET Tools, tools : SUBSET Tools, digest : Digests, age : 0..Window]
Readers ==
  [pc : {"off", "list", "ask"}, says : Offers, tools : SUBSET Tools,
   proof : {"none", "missed", "digest", "guess", "listed"}, broken : BOOLEAN, card : Seq(SectionsTold)]

\* The values of the catalogue's variables.
CatTypeOK ==
  /\ server \in Offers
  /\ keptList \in KeptLists \cup {NoList}
  /\ reader \in [Pollers -> Readers]
  /\ served \in [SUBSET Tools -> 0..Window]
  /\ moves \in Nat /\ breaks \in Nat

\* A kept list is of its digest, and was answered as long ago as it says.
KeptInv ==
  keptList # NoList =>
    /\ keptList.digest # <<>> => keptList.digest[1] = keptList.tools
    /\ served[keptList.tools] <= keptList.age

\* Nothing is asked before there is a list, and a session of a server that
\* publishes reads by that server's list.
ReadInv ==
  \A p \in Pollers :
    /\ reader[p].pc = "list" => reader[p].card = <<>>
    /\ reader[p].pc = "ask" =>
         /\ reader[p].says.publishes => reader[p].tools = reader[p].says.tools
         /\ \A i \in 1..Len(reader[p].card) :
              reader[p].card[i] = "absent" <=> Sections[i] \notin reader[p].tools
CatInv == CatTypeOK /\ KeptInv /\ ReadInv

\* A reader with more of its card, or that goes on or closes.
LEMMA ReaderTypes ==
  ASSUME NEW r \in Readers
  PROVE  /\ \A c \in Seq(SectionsTold) : [r EXCEPT !.card = c] \in Readers
         /\ \A c \in Seq(SectionsTold), b \in BOOLEAN : [r EXCEPT !.card = c, !.broken = b] \in Readers
         /\ \A tools \in SUBSET Tools :
              [r EXCEPT !.pc = "ask", !.tools = tools, !.proof = "listed"] \in Readers
<1>1. \A c \in Seq(SectionsTold) : [r EXCEPT !.card = c] \in Readers
  BY DEF Readers
<1>2. \A c \in Seq(SectionsTold), b \in BOOLEAN : [r EXCEPT !.card = c, !.broken = b] \in Readers
  BY DEF Readers
<1>3. \A tools \in SUBSET Tools : [r EXCEPT !.pc = "ask", !.tools = tools, !.proof = "listed"] \in Readers
  BY DEF Readers
<1> QED
  BY <1>1, <1>2, <1>3

\* A session that is opened is one of a reader.
LEMMA IdleTypes ==
  ASSUME CatTypeOK, NEW tools \in SUBSET Tools, NEW pc \in {"off", "list", "ask"},
         NEW proof \in {"none", "missed", "digest", "guess", "listed"}
  PROVE  /\ CatIdle \in Readers
         /\ [CatIdle EXCEPT !.says = server, !.proof = proof, !.pc = pc, !.tools = tools] \in Readers
<1>1. CatIdle \in Readers
  BY DEF CatTypeOK, CatIdle, Readers
<1> QED
  BY <1>1 DEF CatTypeOK, Readers

\* What a list is known by.
LEMMA DigestTypes ==
  ASSUME NEW s \in Offers
  PROVE  /\ Digest(s) \in Digests /\ Fingerprint(s) \in SUBSET Tools
         /\ s.publishes => Digest(s) # <<>> /\ Digest(s)[1] = s.tools
         /\ ~s.publishes => Digest(s) = <<>>
<1>1. s.tools \in SUBSET Tools /\ s.schema \in 1..2 /\ s.publishes \in BOOLEAN
  BY DEF Offers
<1> QED
  BY <1>1 DEF Digest, Digests, Fingerprint

\* The answers of a card, one section at a time: the section that is asked next.
LEMMA CardGrows ==
  ASSUME CatTypeOK, NEW p \in Pollers, NEW answer \in SectionsTold, Asking(p),
         ReadInv, answer = "absent" <=> NextTool(p) \notin reader[p].tools
  PROVE  \A i \in 1..Len(Append(reader[p].card, answer)) :
           Append(reader[p].card, answer)[i] = "absent" <=> Sections[i] \notin reader[p].tools
<1>1. reader[p].card \in Seq(SectionsTold) /\ reader[p].pc = "ask"
  BY DEF CatTypeOK, Readers, Asking
<1>2. \A i \in 1..Len(reader[p].card) :
        reader[p].card[i] = "absent" <=> Sections[i] \notin reader[p].tools
  BY <1>1 DEF ReadInv
<1> QED
  BY <1>1, <1>2 DEF NextTool

\* The answer of a section leaves all but its card as it was.
LEMMA PutKeeps ==
  ASSUME CatInv, NEW p \in Pollers, NEW answer \in SectionsTold, NEW broken \in BOOLEAN, Asking(p),
         answer = "absent" <=> NextTool(p) \notin reader[p].tools,
         \/ reader' = Put(p, answer)
         \/ reader' = [Put(p, answer) EXCEPT ![p].broken = broken],
         UNCHANGED <<server, keptList, served, moves>>, breaks' \in Nat
  PROVE  CatInv'
<1>0. CatTypeOK /\ KeptInv /\ ReadInv /\ reader[p] \in Readers /\ reader \in [Pollers -> Readers]
  BY DEF CatInv, CatTypeOK
<1>1. PICK c : c = Append(reader[p].card, answer)
  OBVIOUS
<1>2. \/ reader' = [reader EXCEPT ![p] = [reader[p] EXCEPT !.card = c]]
      \/ reader' = [reader EXCEPT ![p] = [reader[p] EXCEPT !.card = c, !.broken = broken]]
  BY <1>0, <1>1 DEF Put
<1>3. reader' \in [Pollers -> Readers]
  <2>1. c \in Seq(SectionsTold)
    BY <1>0, <1>1 DEF Readers
  <2>2. [reader[p] EXCEPT !.card = c] \in Readers
        /\ [reader[p] EXCEPT !.card = c, !.broken = broken] \in Readers
    BY <1>0, <2>1, ReaderTypes
  <2> QED
    BY <1>0, <1>2, <2>2
<1>4. /\ \A q \in Pollers : q # p => reader'[q] = reader[q]
      /\ reader'[p].card = c /\ reader'[p].pc = reader[p].pc /\ reader'[p].says = reader[p].says
      /\ reader'[p].tools = reader[p].tools
  <2>1. CASE reader' = [reader EXCEPT ![p] = [reader[p] EXCEPT !.card = c]]
    BY <1>0, <2>1 DEF Readers
  <2>2. CASE reader' = [reader EXCEPT ![p] = [reader[p] EXCEPT !.card = c, !.broken = broken]]
    BY <1>0, <2>2 DEF Readers
  <2> QED
    BY <1>2, <2>1, <2>2
<1>5. ReadInv'
  <2>1. \A i \in 1..Len(c) : c[i] = "absent" <=> Sections[i] \notin reader[p].tools
    BY <1>0, <1>1, CardGrows
  <2> QED
    BY <1>0, <1>4, <2>1 DEF ReadInv, Asking
<1> QED
  BY <1>0, <1>3, <1>5 DEF CatInv, CatTypeOK, KeptInv

\* What a session that is opened reads by, if it needs no list of its own: the kept
\* list, within its window, and the server's own when the server publishes.
LEMMA HitIsTheServers ==
  ASSUME CatInv, Hit(keptList, server) # "missed"
  PROVE  /\ keptList \in KeptLists /\ keptList # NoList /\ InWindow(keptList)
         /\ served[keptList.tools] < Window
         /\ server.publishes => keptList.tools = server.tools
<1>0. CatTypeOK /\ KeptInv
  BY DEF CatInv
<1>1. /\ keptList # NoList /\ InWindow(keptList) /\ keptList \in KeptLists
      /\ server.publishes => keptList.digest = Digest(server)
  BY <1>0 DEF Hit, CatTypeOK
<1>2. keptList.age \in Nat /\ served[keptList.tools] \in Nat /\ Window \in Nat
  BY <1>0, <1>1, CatalogueAssumption DEF CatTypeOK, KeptLists
<1>3. served[keptList.tools] < Window
  BY <1>0, <1>1, <1>2 DEF KeptInv, InWindow
<1>4. server.publishes => keptList.tools = server.tools
  BY <1>0, <1>1, DigestTypes DEF KeptInv, CatTypeOK
<1> QED
  BY <1>1, <1>3, <1>4

\* A session is opened with the kept list, or to ask for one.
LEMMA OpenKeeps ==
  ASSUME CatInv, NEW p \in Pollers, OpenCatSession(p)
  PROVE  CatInv'
<1>0. CatTypeOK /\ KeptInv /\ ReadInv /\ reader \in [Pollers -> Readers]
  BY DEF CatInv, CatTypeOK
<1>1. PICK proof : proof = Hit(keptList, server)
  OBVIOUS
<1>2. proof \in {"missed", "digest", "guess"}
  BY <1>1 DEF Hit
<1>3. PICK tools, pc : /\ tools = (IF proof = "missed" THEN {} ELSE keptList.tools)
                       /\ pc = (IF proof = "missed" THEN "list" ELSE "ask")
  OBVIOUS
<1>4. tools \in SUBSET Tools /\ pc \in {"off", "list", "ask"}
  BY <1>0, <1>3 DEF CatTypeOK, KeptLists, NoList
<1>5. PICK r : r = [CatIdle EXCEPT !.says = server, !.proof = proof, !.pc = pc, !.tools = tools]
  OBVIOUS
<1>6. reader' = [reader EXCEPT ![p] = r] /\ UNCHANGED <<server, keptList, served, listings, moves, breaks>>
  BY <1>1, <1>3, <1>5 DEF OpenCatSession
<1>7. r \in Readers /\ r.pc = pc /\ r.says = server /\ r.tools = tools /\ r.card = <<>>
  <2>1. CatIdle \in Readers /\ r \in Readers
    BY <1>0, <1>2, <1>4, <1>5, IdleTypes
  <2> QED
    BY <1>5, <2>1 DEF CatIdle
<1>8. reader' \in [Pollers -> Readers] /\ reader'[p] = r /\ \A q \in Pollers : q # p => reader'[q] = reader[q]
  BY <1>0, <1>6, <1>7
<1>9. pc = "ask" /\ server.publishes => tools = server.tools
  BY <1>1, <1>3, HitIsTheServers
<1>10. ReadInv'
  BY <1>0, <1>7, <1>8, <1>9 DEF ReadInv
<1> QED
  BY <1>0, <1>6, <1>8, <1>10 DEF CatInv, CatTypeOK, KeptInv

\* A list that the server has sent is the session's, and may be kept.
LEMMA ListKeeps ==
  ASSUME CatInv, NEW p \in Pollers, NEW write \in BOOLEAN, ListTools(p, write)
  PROVE  CatInv'
<1>0. CatTypeOK /\ KeptInv /\ ReadInv /\ reader \in [Pollers -> Readers] /\ reader[p] \in Readers
      /\ Window \in Nat
  BY CatalogueAssumption DEF CatInv, CatTypeOK
<1>1. PICK tools : tools = ListOf(p)
  OBVIOUS
<1>2. tools \in SUBSET Tools /\ reader[p].says \in Offers
  BY <1>0, <1>1 DEF ListOf, CatTypeOK, Readers, Offers
<1>3. /\ reader[p].pc = "list"
      /\ reader' = [reader EXCEPT ![p] = [reader[p] EXCEPT !.pc = "ask", !.tools = tools, !.proof = "listed"]]
      /\ served' = [served EXCEPT ![tools] = 0]
      /\ UNCHANGED <<server, moves>> /\ (breaks' = breaks \/ breaks' = breaks + 1)
  BY <1>0, <1>1 DEF ListTools
<1>4. \/ keptList' = keptList
      \/ keptList' = [version |-> reader[p].says.version, absent |-> Fingerprint(reader[p].says),
                      tools |-> tools, digest |-> Digest(reader[p].says), age |-> 0]
  BY <1>1 DEF ListTools
<1>5. /\ reader' \in [Pollers -> Readers] /\ \A q \in Pollers : q # p => reader'[q] = reader[q]
      /\ reader'[p].says = reader[p].says /\ reader'[p].tools = tools
      /\ reader'[p].card = reader[p].card
  <2>1. [reader[p] EXCEPT !.pc = "ask", !.tools = tools, !.proof = "listed"] \in Readers
    BY <1>0, <1>2, ReaderTypes
  <2> QED
    BY <1>0, <1>3, <2>1 DEF Readers
<1>6. served' \in [SUBSET Tools -> 0..Window] /\ served'[tools] = 0
      /\ \A t \in SUBSET Tools : served'[t] <= served[t]
  BY <1>0, <1>2, <1>3 DEF CatTypeOK
<1>7. keptList' \in KeptLists \cup {NoList} /\ KeptInv'
  <2>1. CASE keptList' = keptList
    <3>1. keptList # NoList => keptList.tools \in SUBSET Tools /\ keptList.age \in Nat
      BY <1>0 DEF CatTypeOK, KeptLists
    <3>2. \A t \in SUBSET Tools : served[t] \in Nat /\ served'[t] \in Nat
      BY <1>0, <1>6 DEF CatTypeOK
    <3>3. KeptInv'
      <4>1. ASSUME keptList # NoList
            PROVE  served'[keptList.tools] <= keptList.age
        <5>1. keptList.tools \in SUBSET Tools /\ keptList.age \in Nat
          BY <3>1, <4>1
        <5>2. served[keptList.tools] <= keptList.age
          BY <1>0, <4>1 DEF KeptInv
        <5> QED
          BY <1>6, <3>2, <5>1, <5>2
      <4>2. keptList # NoList => (keptList.digest # <<>> => keptList.digest[1] = keptList.tools)
        BY <1>0 DEF KeptInv
      <4> QED
        BY <2>1, <4>1, <4>2 DEF KeptInv
    <3> QED
      BY <1>0, <2>1, <3>3 DEF CatTypeOK
  <2>2. CASE keptList' = [version |-> reader[p].says.version, absent |-> Fingerprint(reader[p].says),
                          tools |-> tools, digest |-> Digest(reader[p].says), age |-> 0]
    <3>1. keptList' \in KeptLists
      BY <1>0, <1>2, <2>2, DigestTypes DEF KeptLists, Offers
    <3>2. keptList'.digest # <<>> => keptList'.digest[1] = keptList'.tools
      BY <1>1, <1>2, <2>2, DigestTypes DEF ListOf, Offers
    <3>3. served'[keptList'.tools] <= keptList'.age
      BY <1>6, <2>2
    <3> QED
      BY <3>1, <3>2, <3>3 DEF KeptInv
  <2> QED
    BY <1>4, <2>1, <2>2
<1>8. ReadInv'
  <2>1. reader[p].says.publishes => tools = reader[p].says.tools
    BY <1>1 DEF ListOf
  <2>2. reader[p].card = <<>> /\ reader'[p].pc = "ask"
    BY <1>0, <1>3 DEF ReadInv, Readers
  <2> QED
    BY <1>0, <1>3, <1>5, <2>1, <2>2 DEF ReadInv
<1> QED
  BY <1>0, <1>3, <1>5, <1>6, <1>7, <1>8 DEF CatInv, CatTypeOK

\* The variables keep their types, and what is kept and read is as the server said.
LEMMA CatStepKeeps ==
  ASSUME CatInv, [CatNext]_catVars
  PROVE  CatInv'
<1>0. CatTypeOK /\ KeptInv /\ ReadInv /\ reader \in [Pollers -> Readers] /\ Window \in Nat
      /\ breaks + 1 \in Nat /\ breaks \in Nat
  BY CatalogueAssumption DEF CatInv, CatTypeOK
<1>1. ASSUME NEW p \in Pollers, ListFails(p) \/ EndSession(p) PROVE CatInv'
  <2>1. reader' = [reader EXCEPT ![p] = CatIdle] /\ CatIdle \in Readers /\ CatIdle.pc = "off"
        /\ UNCHANGED <<server, keptList, served, moves>> /\ breaks' \in Nat
    BY <1>0, <1>1, IdleTypes DEF ListFails, EndSession, CatIdle
  <2>2. ReadInv'
    BY <1>0, <2>1 DEF ReadInv
  <2> QED
    BY <1>0, <2>1, <2>2 DEF CatInv, CatTypeOK, KeptInv
<1>2. ASSUME NEW p \in Pollers, Skip(p) PROVE CatInv'
  <2>1. \E answer \in {"absent", "unknown"} :
          reader' = Put(p, answer) /\ (answer = "absent" <=> NextTool(p) \notin reader[p].tools)
    BY <1>2 DEF Skip
  <2> QED
    BY <1>0, <1>2, <2>1, PutKeeps DEF Skip, SectionsTold
<1>3. ASSUME NEW p \in Pollers, AskTool(p) PROVE CatInv'
  <2>1. \E answer \in {"value", "failed"} : reader' = Put(p, answer)
    BY <1>3 DEF AskTool
  <2> QED
    BY <1>0, <1>3, <2>1, PutKeeps DEF AskTool, SectionsTold
<1>4. ASSUME NEW p \in Pollers, NEW how \in DOMAIN Unread, AskInVain(p, how) PROVE CatInv'
  <2>1. reader' = [Put(p, "unknown") EXCEPT ![p].broken = Unread[how]] /\ Unread[how] \in BOOLEAN
        /\ Asking(p) /\ NextTool(p) \in reader[p].tools
        /\ UNCHANGED <<server, keptList, served, moves>> /\ breaks' \in Nat
    <3>1. how \in {"closed", "late"}
      BY <1>4 DEF Unread
    <3>2. Unread[how] \in BOOLEAN
      <4>1. CASE how = "closed"
        BY <4>1 DEF Unread
      <4>2. CASE how = "late"
        BY <4>2 DEF Unread
      <4> QED
        BY <3>1, <4>1, <4>2
    <3> QED
      BY <1>0, <1>4, <3>2 DEF AskInVain
  <2> QED
    BY <2>1, PutKeeps DEF SectionsTold
<1>5. ASSUME NEW s \in Offers, Move(s) PROVE CatInv'
  BY <1>0, <1>5 DEF Move, CatInv, CatTypeOK, KeptInv, ReadInv
<1>6. CASE CatTick
  <2>1. /\ keptList \in KeptLists /\ keptList # NoList /\ keptList.age \in Nat /\ keptList.age < Window
        /\ keptList.tools \in SUBSET Tools
    BY <1>0, <1>6 DEF CatTick, InWindow, CatTypeOK, KeptLists
  <2>2. keptList' = [keptList EXCEPT !.age = keptList.age + 1]
    BY <1>6 DEF CatTick
  <2>3. keptList' \in KeptLists /\ keptList'.age = keptList.age + 1 /\ keptList'.tools = keptList.tools
        /\ keptList'.digest = keptList.digest
    BY <1>0, <2>1, <2>2 DEF KeptLists
  <2>4. served' \in [SUBSET Tools -> 0..Window] /\ \A t \in SUBSET Tools : served'[t] <= served[t] + 1
    <3>1. \A t \in SUBSET Tools : served[t] \in 0..Window
      BY <1>0 DEF CatTypeOK
    <3>2. \A t \in SUBSET Tools : (IF served[t] < Window THEN served[t] + 1 ELSE Window) \in 0..Window
      BY <1>0, <3>1
    <3>3. served' = [t \in SUBSET Tools |-> IF served[t] < Window THEN served[t] + 1 ELSE Window]
      BY <1>6 DEF CatTick
    <3> QED
      BY <1>0, <3>1, <3>2, <3>3
  <2>5. KeptInv'
    <3>1. served[keptList.tools] <= keptList.age /\ served[keptList.tools] \in Nat
          /\ served'[keptList.tools] \in Nat /\ served'[keptList.tools] <= served[keptList.tools] + 1
      BY <1>0, <2>1, <2>4 DEF KeptInv, CatTypeOK
    <3>2. served'[keptList'.tools] <= keptList'.age
      BY <2>1, <2>3, <3>1
    <3> QED
      BY <1>0, <2>1, <2>3, <3>2 DEF KeptInv
  <2> QED
    BY <1>0, <1>6, <2>3, <2>4, <2>5 DEF CatTick, CatInv, CatTypeOK, ReadInv
<1>7. CASE UNCHANGED catVars
  BY <1>0, <1>7 DEF catVars, CatInv, CatTypeOK, KeptInv, ReadInv
<1> QED
  BY <1>1, <1>2, <1>3, <1>4, <1>5, <1>6, <1>7, OpenKeeps, ListKeeps DEF CatNext

\* Everything above holds of every behaviour, for any tools in any order
\* (mcp/catalogue.rs, ops/gather.rs).
THEOREM CatInvariant == CatSpec => []CatInv
<1>1. CatInit => CatInv
  <2> SUFFICES ASSUME CatInit PROVE CatInv
    OBVIOUS
  <2>1. /\ server \in Offers /\ keptList = NoList /\ reader = [p \in Pollers |-> CatIdle]
        /\ served = [t \in SUBSET Tools |-> Window] /\ moves = 0 /\ breaks = 0 /\ Window \in Nat
    BY CatalogueAssumption DEF CatInit
  <2>2. CatIdle \in Readers /\ CatIdle.pc = "off"
    BY <2>1 DEF CatIdle, Readers
  <2>3. CatTypeOK
    BY <2>1, <2>2 DEF CatTypeOK
  <2> QED
    BY <2>1, <2>2, <2>3 DEF CatInv, KeptInv, ReadInv
<1> QED
  BY <1>1, CatStepKeeps, PTL DEF CatSpec

\* The kept list is "never a filter" (catalogue.rs:51-54): of a server that
\* publishes its digest, a section is told as absent exactly when the server of
\* the session does not offer its tool.
THEOREM KeptListIsNoFilter == CatSpec => []NeverAFilter
<1>1. CatInv => NeverAFilter
  BY DEF CatInv, ReadInv, NeverAFilter
<1> QED
  BY <1>1, CatInvariant, PTL

\* "A kept list past the server's window is not used at all" (catalogue.rs:56-58).
THEOREM OldListsExpire == CatSpec => OldListExpires
<1>1. ASSUME CatInv, [CatNext]_catVars,
             NEW p \in Pollers, reader[p].pc = "off", reader'[p].pc = "ask"
      PROVE  served[reader'[p].tools] < Window
  <2>0. reader \in [Pollers -> Readers] /\ CatTypeOK
    BY <1>1 DEF CatInv, CatTypeOK
  <2>1. OpenCatSession(p)
    <3>1. CASE UNCHANGED catVars
      BY <1>1, <3>1 DEF catVars
    <3>2. ASSUME NEW q \in Pollers, \/ ListFails(q) \/ Skip(q) \/ AskTool(q) \/ EndSession(q)
                                     \/ \E write \in BOOLEAN : ListTools(q, write)
                                     \/ \E how \in DOMAIN Unread : AskInVain(q, how)
          PROVE  FALSE
      <4>1. reader[q].pc # "off"
        BY <3>2 DEF ListFails, Skip, AskTool, EndSession, ListTools, AskInVain, Asking
      <4>2. reader'[p] = reader[p]
        BY <1>1, <2>0, <3>2, <4>1 DEF ListFails, Skip, AskTool, EndSession, ListTools, AskInVain, Put
      <4> QED
        BY <1>1, <4>2
    <3>3. ASSUME NEW s \in Offers, Move(s) PROVE reader' = reader
      BY <3>3 DEF Move
    <3>4. CASE CatTick
      BY <1>1, <3>4 DEF CatTick
    <3>5. ASSUME NEW q \in Pollers, OpenCatSession(q) PROVE q = p
      BY <1>1, <2>0, <3>5 DEF OpenCatSession
    <3> QED
      BY <1>1, <3>1, <3>2, <3>3, <3>4, <3>5 DEF CatNext
  <2>2. PICK proof : proof = Hit(keptList, server)
    OBVIOUS
  <2>3. reader'[p].pc = (IF proof = "missed" THEN "list" ELSE "ask")
        /\ reader'[p].tools = (IF proof = "missed" THEN {} ELSE keptList.tools)
    BY <2>0, <2>1, <2>2 DEF OpenCatSession, CatIdle
  <2> QED
    BY <1>1, <2>2, <2>3, HitIsTheServers
<1>2. CatInv /\ [CatNext]_catVars =>
        [\A p \in Pollers : reader[p].pc = "off" /\ reader'[p].pc = "ask" =>
           served[reader'[p].tools] < Window]_catVars
  BY <1>1
<1> QED
  BY <1>2, CatInvariant, PTL DEF CatSpec, OldListExpires

---------------------------------------------------------------------------
\* The card.
Answers ==
  [p \in Parts |->
     IF p = "health" THEN Healths ELSE IF p = "list" THEN Suites ELSE IF p = "vpn" THEN Egresses
     ELSE IF p = "cron" THEN Crons ELSE IF p = "containers" THEN Containers
     ELSE IF p = "zfs" THEN PoolLists ELSE IF p = "disk" THEN Mounts
     ELSE IF p = "alerts" THEN AlertCounts ELSE IF p = "facts" THEN Facts ELSE Triages]
CardKinds == {"value", "absent", "failed", "unknown"}

\* The values of the card's variables: every section has an answer of its own kind,
\* or says why it has none.
CardTypeOK ==
  /\ card \in {"asking", "ready", "failed"}
  /\ DOMAIN wire = Parts
  /\ \A p \in Parts : Kind(p) \in CardKinds /\ (Kind(p) = "value" => CardAnswer(p) \in Answers[p])

\* What an answer is made of.
LEMMA RawTypes ==
  ASSUME NEW S, NEW r \in Raws(S)
  PROVE  r[1] \in CardKinds /\ (r[1] = "value" => r[2] \in S)
BY DEF Raws, CardKinds

\* The variables of the card keep their types.
THEOREM CardTypeCorrect == CardSpec => []CardTypeOK
<1>0. /\ DOMAIN Unasked = Parts
      /\ \A p \in Parts : Unasked[p][1] = "absent"
  BY DEF Unasked
<1>1. CardInit => CardTypeOK
  BY <1>0 DEF CardInit, CardTypeOK, Kind, CardKinds
<1>2. CardTypeOK /\ [CardNext]_cardVars => CardTypeOK'
  <2> SUFFICES ASSUME CardTypeOK, [CardNext]_cardVars PROVE CardTypeOK'
    OBVIOUS
  <2>1. CASE HealthAnswered
    <3>1. PICK h \in Raws(Healths), l \in Raws(Suites) :
            card' = "ready" /\ wire' = [Unasked EXCEPT !["health"] = h, !["list"] = l]
      BY <2>1 DEF HealthAnswered, CardAnswered
    <3>2. DOMAIN wire' = Parts /\ wire'["health"] = h /\ wire'["list"] = l
          /\ \A p \in Parts \ {"health", "list"} : wire'[p] = Unasked[p]
      BY <1>0, <3>1 DEF Parts
    <3>3. Answers["health"] = Healths /\ Answers["list"] = Suites
      BY DEF Answers, Parts
    <3>4. \A p \in Parts : wire'[p][1] \in CardKinds /\ (wire'[p][1] = "value" => wire'[p][2] \in Answers[p])
      BY <1>0, <3>2, <3>3, RawTypes DEF CardKinds
    <3> QED
      BY <3>1, <3>2, <3>4 DEF CardTypeOK, Kind, CardAnswer
  <2>2. CASE DiskAnswered
    <3>1. PICK z \in Raws(PoolLists), d \in Raws(Mounts) :
            card' = "ready" /\ wire' = [Unasked EXCEPT !["zfs"] = z, !["disk"] = d]
      BY <2>2 DEF DiskAnswered, CardAnswered
    <3>2. DOMAIN wire' = Parts /\ wire'["zfs"] = z /\ wire'["disk"] = d
          /\ \A p \in Parts \ {"zfs", "disk"} : wire'[p] = Unasked[p]
      BY <1>0, <3>1 DEF Parts
    <3>3. Answers["zfs"] = PoolLists /\ Answers["disk"] = Mounts
      BY DEF Answers, Parts
    <3>4. \A p \in Parts : wire'[p][1] \in CardKinds /\ (wire'[p][1] = "value" => wire'[p][2] \in Answers[p])
      BY <1>0, <3>2, <3>3, RawTypes DEF CardKinds
    <3> QED
      BY <3>1, <3>2, <3>4 DEF CardTypeOK, Kind, CardAnswer
  <2>3. CASE OtherAnswered
    <3>1. /\ Answers["vpn"] = Egresses /\ Answers["facts"] = Facts /\ Answers["cron"] = Crons
          /\ Answers["containers"] = Containers /\ Answers["triage"] = Triages
          /\ Answers["alerts"] = AlertCounts
      BY DEF Answers, Parts
    <3>2. PICK q \in Parts :
            \E r \in Raws(Answers[q]) : card' = "ready" /\ wire' = [Unasked EXCEPT ![q] = r]
      BY <2>3, <3>1 DEF OtherAnswered, CardAnswered, Parts
    <3>3. /\ DOMAIN wire' = Parts /\ wire'[q] \in Raws(Answers[q])
          /\ \A p \in Parts \ {q} : wire'[p] = Unasked[p]
      BY <1>0, <3>2
    <3>4. \A p \in Parts : wire'[p][1] \in CardKinds /\ (wire'[p][1] = "value" => wire'[p][2] \in Answers[p])
      BY <1>0, <3>3, RawTypes DEF CardKinds
    <3> QED
      BY <3>2, <3>3, <3>4 DEF CardTypeOK, Kind, CardAnswer
  <2>4. CASE LastStays \/ UNCHANGED cardVars
    BY <2>4 DEF LastStays, cardVars, CardTypeOK, Kind, CardAnswer
  <2> QED
    BY <2>1, <2>2, <2>3, <2>4 DEF CardNext
<1> QED
  BY <1>1, <1>2, PTL DEF CardSpec

\* The tones of a section's lines.
LEMMA ToneOf ==
  /\ DOMAIN Tones = Parts \ {"list"}
  /\ Tones["health"] = {HealthTone} /\ Tones["vpn"] = {VpnTone} /\ Tones["cron"] = {CronTone}
  /\ Tones["containers"] = ContainerTones /\ Tones["zfs"] = {ZfsTone} /\ Tones["disk"] = {DiskTone}
  /\ Tones["alerts"] = {AlertTone} /\ Tones["facts"] = StackTones /\ Tones["triage"] = TriageTones
BY DEF Tones, Parts

\* A section that was not read is not ready, and has the tone of that.
LEMMA UnreadIsYellow ==
  ASSUME CardTypeOK, NEW p \in Parts
  PROVE  \A readable : /\ Part(p, readable) = "ready" => Kind(p) = "value"
                       /\ Kind(p) = "unknown" => /\ Part(p, readable) = "unknown"
                                                 /\ NotReady(Part(p, readable)) = "warn"
                       /\ NotReady(Part(p, readable)) # "good" /\ NotReady(Part(p, readable)) # "bad"
BY DEF Part, NotReady, CardTypeOK, CardKinds

\* The two answers that make the health section.
LEMMA HealthParts ==
  ASSUME CardTypeOK
  PROVE  /\ HealthPart = "ready" => Kind("health") = "value" /\ Kind("list") = "value"
         /\ HealthPart = "unknown" => NotReady(HealthPart) = "warn"
         /\ NotReady(HealthPart) # "good" /\ NotReady(HealthPart) # "bad"
<1>1. HealthPart \in {"ready", "failed", "unknown", "absent"}
  BY DEF HealthPart
<1>2. HealthPart = "ready" => {Kind("health"), Kind("list")} = {"value"}
  BY DEF HealthPart
<1> QED
  BY <1>1, <1>2 DEF NotReady

\* What is green was asked and answered, and what was not read is yellow.
LEMMA GreenIsRead ==
  ASSUME CardTypeOK
  PROVE  OnlyReadIsGreen
<1> SUFFICES ASSUME NEW p \in DOMAIN Tones
             PROVE  /\ p \in Unknowns \ {"facts"} => Tones[p] = {"warn"}
                    /\ "good" \in Tones[p] =>
                         Kind(p) = "value" /\ (p = "health" => Kind("list") = "value")
  BY DEF OnlyReadIsGreen
<1>0. p \in Parts \ {"list"}
  BY ToneOf
<1>1. CASE p = "health"
  <2>1. p \in Unknowns => HealthPart = "unknown"
    BY <1>1 DEF Unknowns
  <2>2. HealthTone = "good" => HealthPart = "ready"
    BY HealthParts DEF HealthTone
  <2>3. HealthPart = "unknown" => HealthTone = "warn"
    BY HealthParts DEF HealthTone
  <2> QED
    BY <1>1, <2>1, <2>2, <2>3, ToneOf, HealthParts
<1>2. p # "health" => (p \in Unknowns => Kind(p) = "unknown")
  BY DEF Unknowns
<1>3. \A readable : /\ Part(p, readable) = "ready" => Kind(p) = "value"
                    /\ Kind(p) = "unknown" => /\ Part(p, readable) # "ready"
                                              /\ NotReady(Part(p, readable)) = "warn"
                    /\ NotReady(Part(p, readable)) # "good"
  BY <1>0, UnreadIsYellow
<1>4. CASE p = "vpn"
  <2>1. /\ VpnTone = "good" => Kind(p) = "value"
        /\ Kind(p) = "unknown" => VpnTone = "warn"
    BY <1>3, <1>4 DEF VpnTone
  <2> QED
    BY <1>2, <1>4, <2>1, ToneOf
<1>5. CASE p = "cron"
  <2>1. /\ CronTone = "good" => Kind(p) = "value"
        /\ Kind(p) = "unknown" => CronTone = "warn"
    BY <1>3, <1>5 DEF CronTone
  <2> QED
    BY <1>2, <1>5, <2>1, ToneOf
<1>6. CASE p = "containers"
  <2>1. /\ "good" \in ContainerTones => Kind(p) = "value"
        /\ Kind(p) = "unknown" => ContainerTones = {"warn"}
    BY <1>3, <1>6 DEF ContainerTones
  <2> QED
    BY <1>2, <1>6, <2>1, ToneOf
<1>7. CASE p = "zfs"
  <2>1. /\ ZfsTone = "good" => Kind(p) = "value"
        /\ Kind(p) = "unknown" => ZfsTone = "warn"
    BY <1>3, <1>7 DEF ZfsTone, ZfsPart
  <2> QED
    BY <1>2, <1>7, <2>1, ToneOf
<1>8. CASE p = "disk"
  <2>1. /\ DiskTone = "good" => Kind(p) = "value"
        /\ Kind(p) = "unknown" => DiskTone = "warn"
    BY <1>3, <1>8 DEF DiskTone
  <2> QED
    BY <1>2, <1>8, <2>1, ToneOf
<1>9. CASE p = "alerts"
  <2>1. /\ AlertTone = "good" => Kind(p) = "value"
        /\ Kind(p) = "unknown" => AlertTone = "warn"
    BY <1>3, <1>9 DEF AlertTone
  <2> QED
    BY <1>2, <1>9, <2>1, ToneOf
<1>10. CASE p = "facts"
  <2>1. "good" \notin StackTones
    BY DEF StackTones
  <2> QED
    BY <1>10, <2>1, ToneOf
<1>11. CASE p = "triage"
  <2>1. /\ "good" \in TriageTones => Kind(p) = "value"
        /\ Kind(p) = "unknown" => TriageTones = {"warn"}
    BY <1>3, <1>11 DEF TriageTones
  <2> QED
    BY <1>2, <1>11, <2>1, ToneOf
<1> QED
  BY <1>0, <1>1, <1>4, <1>5, <1>6, <1>7, <1>8, <1>9, <1>10, <1>11 DEF Parts

\* "Never an all-clear" (render/mod.rs:199-201): no section of the card is green
\* that was not asked and answered, and one that was not read is yellow, whatever
\* any host has answered.
THEOREM NothingUnreadIsGreen == CardSpec => []OnlyReadIsGreen
BY GreenIsRead, CardTypeCorrect, PTL

\* A line of one tone is judged right if it is red exactly for a fault that was
\* read.
Right(p, tone) == tone = "bad" <=> WasRead(p) /\ CardFault(p)

\* A part is ready exactly when it was read; one that is not is not red.
LEMMA ReadIsReady ==
  ASSUME CardTypeOK
  PROVE  /\ WasRead("health") <=> HealthPart = "ready"
         /\ WasRead("zfs") <=> ZfsPart = "ready"
         /\ \A p \in {"vpn", "cron", "containers", "disk"}, readable \in BOOLEAN :
              /\ Part(p, readable) = "ready" <=> Kind(p) = "value" /\ readable
              /\ NotReady(Part(p, readable)) # "bad"
         /\ NotReady(HealthPart) # "bad" /\ NotReady(ZfsPart) # "bad"
<1>1. WasRead("health") <=> HealthPart = "ready"
  <2>1. {Kind("health"), Kind("list")} = {"value"} <=> Kind("health") = "value" /\ Kind("list") = "value"
    OBVIOUS
  <2>2. HealthPart = "ready" <=> {Kind("health"), Kind("list")} = {"value"}
    BY DEF HealthPart
  <2> QED
    BY <2>1, <2>2 DEF WasRead
<1>2. WasRead("zfs") <=> ZfsPart = "ready"
  BY DEF WasRead, ZfsPart, Part, CardTypeOK, CardKinds, Parts
<1>3. \A p \in {"vpn", "cron", "containers", "disk"}, readable \in BOOLEAN :
        /\ Part(p, readable) = "ready" <=> Kind(p) = "value" /\ readable
        /\ NotReady(Part(p, readable)) # "bad"
  BY DEF Part, NotReady, CardTypeOK, CardKinds, Parts
<1> QED
  BY <1>1, <1>2, <1>3 DEF NotReady

\* Two elements are two.
LEMMA TwoElements ==
  ASSUME NEW x, NEW y, x # y
  PROVE  Cardinality({x, y}) = 2
<1>1. Cardinality({x}) = 1 /\ IsFiniteSet({x}) /\ y \notin {x}
  BY FS_Singleton
<1>2. Cardinality({x} \cup {y}) = IF y \in {x} THEN Cardinality({x}) ELSE Cardinality({x}) + 1
  BY <1>1, FS_AddElement
<1>3. {x} \cup {y} = {x, y}
  OBVIOUS
<1> QED
  BY <1>1, <1>2, <1>3

\* Two instances are the same check's unless both are named, and differ.
LEMMA SameInstance ==
  ASSUME NEW a, NEW b
  PROVE  SameCheck(a, b) <=> /\ a.name = b.name
                             /\ a.instance = "" \/ b.instance = "" \/ a.instance = b.instance
<1> DEFINE both == {a.instance, b.instance} \ {""}
<1>1. CASE a.instance = "" \/ b.instance = "" \/ a.instance = b.instance
  <2>1. both = {} \/ \E x : both = {x}
    <3>1. CASE a.instance = ""
      <4>1. both = {} \/ both = {b.instance}
        BY <3>1
      <4> QED
        BY <4>1
    <3>2. CASE b.instance = ""
      <4>1. both = {} \/ both = {a.instance}
        BY <3>2
      <4> QED
        BY <4>1
    <3>3. CASE a.instance = b.instance
      <4>1. both = {} \/ both = {a.instance}
        BY <3>3
      <4> QED
        BY <4>1
    <3> QED
      BY <1>1, <3>1, <3>2, <3>3
  <2>2. Cardinality(both) \in {0, 1}
    <3> HIDE DEF both
    <3> QED
      BY <2>1, FS_EmptySet, FS_Singleton
  <2>3. Cardinality(both) < 2
    <3> HIDE DEF both
    <3> QED
      BY <2>2
  <2> QED
    BY <1>1, <2>3 DEF SameCheck
<1>2. CASE a.instance # "" /\ b.instance # "" /\ a.instance # b.instance
  <2>1. both = {a.instance, b.instance}
    BY <1>2
  <2>2. ~(Cardinality(both) < 2)
    <3>1. Cardinality(both) = 2
      BY ZenonT(40), <1>2, <2>1, TwoElements
    <3> HIDE DEF both
    <3> QED
      BY <3>1
  <2> QED
    BY <1>2, <2>2 DEF SameCheck
<1> QED
  BY <1>1, <1>2

\* The verdict on the checks is of those that the suite takes.
LEMMA HealthRight == ASSUME CardTypeOK PROVE Right("health", HealthTone)
<1> DEFINE h == CardAnswer("health")
           suite == CardAnswer("list")
           checks == {c \in h.checks : Takes(suite, c)}
<1>1. HealthTone = "bad" <=> HealthPart = "ready" /\ \E c \in checks : c.ok # "yes"
  BY ReadIsReady DEF HealthTone
<1>2. \A c : Takes(suite, c) <=> \E s \in suite : s.inSuite = "yes" /\ SameCheck(s, c)
  BY SameInstance DEF Takes
<1>3. CardFault("health") <=> \E c \in h.checks, s \in suite :
                                c.ok # "yes" /\ s.inSuite = "yes" /\ SameCheck(s, c)
  BY DEF CardFault
<1> HIDE DEF h, suite
<1>4. (\E c \in checks : c.ok # "yes") <=> CardFault("health")
  BY <1>2, <1>3
<1> QED
  BY <1>1, <1>4, ReadIsReady DEF Right

\* The worst of some severities.
LEMMA WorstOf ==
  ASSUME NEW S \in SUBSET (0..2), S # {}
  PROVE  Max(S) \in S /\ \A y \in S : Max(S) >= y
<1>1. \E x \in S : \A y \in S : x >= y
  <2>1. CASE 2 \in S
    BY <2>1
  <2>2. CASE 2 \notin S /\ 1 \in S
    BY <2>2
  <2>3. CASE 2 \notin S /\ 1 \notin S
    <3>1. \A y \in S : y = 0
      BY <2>3
    <3>2. PICK x \in S : TRUE
      OBVIOUS
    <3> QED
      BY <3>1, <3>2
  <2> QED
    BY <2>1, <2>2, <2>3
<1> QED
  BY <1>1 DEF Max

\* One tunnel that leaks is what the card says, however many do not.
LEMMA VpnRight == ASSUME CardTypeOK PROVE Right("vpn", VpnTone)
<1> DEFINE words == CardAnswer("vpn")
           leaks == {LeakOf(w) : w \in words}
           S == {Severity(l) : l \in leaks}
<1>1. WasRead("vpn") <=> Part("vpn", leaks \subseteq LeakWords) = "ready"
  <2>1. leaks \subseteq LeakWords <=> words \subseteq LeakWords \cup {""}
    BY DEF LeakOf, LeakWords
  <2> QED
    BY <2>1, ReadIsReady DEF WasRead
<1>2. CardFault("vpn") <=> \E w \in words : LeakOf(w) \in {"leaked", "unknown"}
  BY DEF CardFault, LeakOf
<1>3. CASE Part("vpn", leaks \subseteq LeakWords) # "ready"
  BY <1>1, <1>3, ReadIsReady DEF Right, VpnTone
<1>4. CASE Part("vpn", leaks \subseteq LeakWords) = "ready" /\ leaks = {}
  <2>1. VpnTone = "quiet"
    BY <1>4 DEF VpnTone
  <2>2. words = {}
    BY <1>4
  <2> QED
    BY <1>2, <2>1, <2>2 DEF Right
<1>5. CASE Part("vpn", leaks \subseteq LeakWords) = "ready" /\ leaks # {}
  <2>1. VpnTone = <<"good", "warn", "bad">>[1 + Max(S)]
    BY <1>5 DEF VpnTone
  <2>2. S \in SUBSET (0..2) /\ S # {}
    BY <1>5 DEF Severity
  <2>3. Max(S) \in S /\ \A y \in S : Max(S) >= y
    BY <2>2, WorstOf
  <2>4. PICK m \in 0..2 : m = Max(S)
    BY <2>2, <2>3
  <2>5. VpnTone = "bad" <=> m = 2
    BY <2>1, <2>4
  <2>6. m = 2 <=> 2 \in S
    BY <2>2, <2>3, <2>4
  <2>7. 2 \in S <=> \E w \in words : LeakOf(w) \in {"leaked", "unknown"}
    BY DEF Severity
  <2> QED
    BY <1>1, <1>2, <1>5, <2>5, <2>6, <2>7 DEF Right
<1> QED
  BY <1>3, <1>4, <1>5

\* A job is in trouble for its code, or for the alert that it raised.
LEMMA CronRight == ASSUME CardTypeOK PROVE Right("cron", CronTone)
<1> DEFINE jobs == CardAnswer("cron")
<1>1. CronTone = "bad" <=>
        Kind("cron") = "value" /\ \E j \in jobs : j.rc \notin {"none", "0"} \/ j.alerting
  BY ReadIsReady DEF CronTone
<1>2. CardFault("cron") <=> ~(jobs \subseteq [rc : {"none", "0"}, alerting : {FALSE}])
  BY DEF CardFault
<1>3. CASE Kind("cron") = "value"
  <2>1. jobs \subseteq [rc : STRING, alerting : BOOLEAN]
    BY <1>3, CardAssumption DEF CardTypeOK, Answers, Parts
  <2> HIDE DEF jobs
  <2>2. \A j \in jobs : j.rc \notin {"none", "0"} \/ j.alerting
                          <=> j \notin [rc : {"none", "0"}, alerting : {FALSE}]
    BY <2>1
  <2> QED
    BY <1>1, <1>2, <1>3, <2>2 DEF Right, WasRead
<1> QED
  BY <1>1, <1>3 DEF Right, WasRead

\* A container in trouble has a stack, and that stack a red line.
LEMMA ContainersRight ==
  ASSUME CardTypeOK
  PROVE  "bad" \in ContainerTones <=> WasRead("containers") /\ CardFault("containers")
<1> DEFINE cs == CardAnswer("containers")
           group(s) == {c \in cs : Stack(c) = s}
           stacks == {Stack(c) : c \in cs}
<1>1. CardFault("containers") <=> \E c \in cs : InTrouble(c)
  BY DEF CardFault, InTrouble
<1>2. WasRead("containers") <=> Part("containers", TRUE) = "ready"
  BY ReadIsReady DEF WasRead
<1>3. CASE Part("containers", TRUE) # "ready"
  <2>1. ContainerTones = {NotReady(Part("containers", TRUE))}
    BY <1>3 DEF ContainerTones
  <2> QED
    BY <1>2, <1>3, <2>1, ReadIsReady
<1>4. CASE Part("containers", TRUE) = "ready" /\ cs = {}
  <2>1. ContainerTones = {"quiet"}
    BY <1>4 DEF ContainerTones
  <2> QED
    BY <1>1, <1>4, <2>1
<1>5. CASE Part("containers", TRUE) = "ready" /\ cs # {}
  <2>1. ContainerTones = {StackTone(group(s)) : s \in stacks}
    BY <1>5 DEF ContainerTones
  <2> HIDE DEF cs
  <2>2. \A s : StackTone(group(s)) = "bad" <=> \E c \in group(s) : InTrouble(c)
    BY DEF StackTone
  <2>3. "bad" \in ContainerTones <=> \E s \in stacks : StackTone(group(s)) = "bad"
    BY <2>1
  <2>4. (\E s \in stacks : \E c \in group(s) : InTrouble(c)) <=> \E c \in cs : InTrouble(c)
    OBVIOUS
  <2> QED
    BY <1>1, <1>2, <1>5, <2>2, <2>3, <2>4
<1> QED
  BY <1>3, <1>4, <1>5

\* A pool is whole when it and every member say so.
LEMMA BrokenIsNotWhole ==
  ASSUME CardTypeOK
  PROVE  /\ ZfsPart = "ready" <=> Kind("zfs") = "value" /\ \A p \in CardAnswer("zfs") : p.told
         /\ BrokenPool <=> ZfsPart = "ready" /\ \E p \in CardAnswer("zfs") : ~Whole(p)
<1>1. ZfsPart = "ready" <=> Kind("zfs") = "value" /\ \A p \in CardAnswer("zfs") : p.told
  BY DEF ZfsPart, Part, CardTypeOK, CardKinds, Parts
<1>2. \A p : ~Whole(p) <=> ({p.state} \cup p.members) \ {"ONLINE"} # {}
  BY DEF Whole
<1> QED
  BY <1>1, <1>2 DEF BrokenPool

\* The pools' own line.
LEMMA ZfsRight == ASSUME CardTypeOK PROVE Right("zfs", ZfsTone)
<1>1. ZfsTone = "bad" <=> ZfsPart = "ready" /\ \E p \in CardAnswer("zfs") : ~Whole(p)
  BY ReadIsReady DEF ZfsTone
<1> QED
  BY <1>1, BrokenIsNotWhole, ReadIsReady DEF Right, CardFault

\* The disks' line.
LEMMA DiskRight == ASSUME CardTypeOK PROVE Right("disk", DiskTone)
<1> DEFINE broken == ZfsPart = "ready" /\ \E p \in CardAnswer("zfs") : ~Whole(p)
           tight == Percent(Total(CardAnswer("disk"))) >= Tight
           counted == PoolsCounted(CardAnswer("disk")) # {}
<1>1. WasRead("disk") <=> Part("disk", TRUE) = "ready"
  BY ReadIsReady DEF WasRead
<1>2. NotReady(Part("disk", TRUE)) # "bad"
  BY ReadIsReady
<1>3. DiskTone = "bad" <=> Part("disk", TRUE) = "ready" /\ counted /\ (broken \/ tight)
  BY <1>2 DEF DiskTone
<1>4. CardFault("disk") <=> counted /\ (BrokenPool \/ tight)
  BY DEF CardFault
<1> QED
  BY <1>1, <1>3, <1>4, BrokenIsNotWhole DEF Right

\* A section has a red line exactly when its answer was read and says that something
\* is wrong with what it is about, for any checks, tunnels, jobs, containers, pools
\* and disks (ops/model.rs, model_health.rs, status.rs, render/).
THEOREM RedMeansAFault == CardSpec => []RedIsAFault
<1>1. CardTypeOK => RedIsAFault
  <2> SUFFICES ASSUME CardTypeOK, NEW p \in Judged
               PROVE  "bad" \in Tones[p] <=> WasRead(p) /\ CardFault(p)
    BY DEF RedIsAFault
  <2>1. CASE p = "containers"
    BY <2>1, ContainersRight, ToneOf
  <2>2. CASE p # "containers"
    <3>1. \E tone : Tones[p] = {tone} /\ Right(p, tone)
      BY <2>2, ToneOf, HealthRight, VpnRight, CronRight, ZfsRight, DiskRight DEF Judged
    <3>2. PICK tone : Tones[p] = {tone} /\ Right(p, tone)
      BY <3>1
    <3> QED
      BY <3>2 DEF Right
  <2> QED
    BY <2>1, <2>2
<1> QED
  BY <1>1, CardTypeCorrect, PTL

\* Both together: no line of the card alarms or reassures without an answer that
\* says so, for any answers of a host (ops/render/mod.rs:193-201).
THEOREM CardIsDeserved == CardSpec => []ToneIsDeserved
<1>1. RedIsAFault /\ OnlyReadIsGreen => ToneIsDeserved
  BY DEF ToneIsDeserved
<1> QED
  BY <1>1, RedMeansAFault, NothingUnreadIsGreen, PTL

---------------------------------------------------------------------------
\* Actions on a host.
ExitNotes == {"exit_0", "exit_1"}
Notes == {"none", "failed", "finished", "stalled", "no_agent"} \cup ExitNotes
Whats == {"begin", "error", "line"} \cup Notes
Entries == [host : ActHosts, gen : Nat, what : Whats]
Told == [panel : Panels, gen : Nat, host : ActHosts, what : Whats]
Deeds == [kind : Kinds \cup {"tail", "custom"}, host : ActHosts, pid : Pids \cup {0}]
Tasks ==
  [kind : Kinds \cup {"tail", "custom"}, gen : Nat, host : ActHosts, pid : Pids \cup {0},
   named : Deeds, at : {"begin", "spawn", "drain", "stderr", "install", "done"},
   attempt : {1, 2}, link : {"none", "up", "dead", "closed"}, began : BOOLEAN,
   wire : Seq({"line"} \cup ExitNotes), need : BOOLEAN, note : Notes]
Boards ==
  [host : ActHosts, gen : 0..MaxGen, top : Pids \cup {0}, view : Seq(Entries), custom : BOOLEAN]
Commanded ==
  [panel : Panels, gen : Nat, did : Deeds, named : Deeds]
Confirms == [kind : Kinds, panel : Panels, pid : Pids, host : ActHosts]

\* The values of the actions' variables.
ActTypeOK ==
  /\ panels \in [Panels -> Boards]
  /\ keys \in [at : {"grid", "palette", "passwords"}, confirm : Confirms \cup {NoConfirm}]
  /\ aux \in [Panels -> Tasks \cup {NoTask}]
  /\ msgs \in Seq(Told) /\ Len(msgs) <= MaxWire
  /\ agents \subseteq ActHosts /\ faults \in Nat
  /\ ran \in Seq(Commanded)

Runs(p) == aux[p].kind # "none"
DeedOf(t) == Deed(t.kind, t.host, t.pid)
Acts(p) == aux[p].kind \notin {"none", "custom"}

\* A confirmation is of the host that its panel shows: the list is not edited
\* under it.  A task does what was named, on that host and to that process.
NamedInv ==
  /\ keys.confirm # NoConfirm => keys.confirm.host = panels[keys.confirm.panel].host
  /\ \A p \in Panels : Runs(p) => DeedOf(aux[p]) = aux[p].named

\* A generation of a panel is one task's; a later task has a later one.
GenInv ==
  /\ \A p \in Panels : Runs(p) => /\ aux[p].gen <= panels[p].gen
                                  /\ aux[p].gen = panels[p].gen => aux[p].host = panels[p].host
  /\ \A i \in 1..Len(ran) : ran[i].gen <= panels[ran[i].panel].gen

\* What is known of a command that may have run: its task does not spawn it
\* again.
OnceInv ==
  /\ \A p \in Panels : Runs(p) /\ aux[p].at = "drain" /\ ~aux[p].began => ~aux[p].need
  /\ \A p \in Panels : \A i \in 1..Len(ran) :
       Acts(p) /\ ran[i].panel = p /\ ran[i].gen = aux[p].gen =>
         /\ aux[p].at \in {"drain", "stderr", "done"} /\ ~aux[p].need
         /\ aux[p].at = "drain" => aux[p].began

\* A message for the panel as it is now.
Current(m, p) == m.panel = p /\ m.gen = panels[p].gen
Behind(p) == panels[p].view # <<>> /\ panels[p].view[1].gen # panels[p].gen

\* What is told of the panel as it is now is of its host; and as long as the pane
\* shows an earlier task, the first thing that is told is that a new one begins.
ToldOfInv ==
  /\ \A i \in 1..Len(msgs) :
       Current(msgs[i], msgs[i].panel) => msgs[i].host = panels[msgs[i].panel].host
  /\ \A p \in Panels : Behind(p) =>
       /\ \A i \in 1..Len(msgs) : Current(msgs[i], p) =>
            \E j \in 1..i : Current(msgs[j], p) /\ msgs[j].what = "begin"
       /\ Runs(p) /\ aux[p].gen = panels[p].gen /\ aux[p].at # "begin" =>
            \E j \in 1..Len(msgs) : Current(msgs[j], p) /\ msgs[j].what = "begin"
  /\ \A i \in 1..Len(msgs) : msgs[i].gen <= panels[msgs[i].panel].gen

ActInv == ActTypeOK /\ NamedInv /\ GenInv /\ OnceInv /\ ToldOfInv /\ ConfirmedRunsOnce /\ LinesAreTheHosts

\* The largest of numbers that are bounded is one of them.
LEMMA MaxOfBounded ==
  ASSUME NEW S, S # {}, NEW n \in Nat, S \subseteq 0..n
  PROVE  Max(S) \in S /\ \A y \in S : Max(S) >= y
<1> DEFINE T == {x..n : x \in S}
<1>1. T \subseteq FiniteSubsetsOf(Nat) /\ T # {}
  <2>1. \A x \in S : x..n \subseteq Nat /\ IsFiniteSet(x..n)
    BY FS_Interval
  <2> QED
    BY <2>1 DEF FiniteSubsetsOf
<1>2. PICK t \in T : \A u \in T : ~(<<u, t>> \in StrictSubsetOrdering(Nat))
  BY <1>1, FS_StrictSubsetOrderingWellFounded, WFMin
<1>3. \A u \in T : u \subseteq t => u = t
  BY <1>1, <1>2 DEF StrictSubsetOrdering, FiniteSubsetsOf
<1>4. PICK x \in S : t = x..n
  OBVIOUS
<1>5. ASSUME NEW y \in S PROVE x >= y
  <2>1. CASE y > x
    <3>1. y..n \subseteq t /\ x \in t /\ x \notin y..n
      BY <1>4, <2>1
    <3> QED
      BY <1>3, <3>1
  <2> QED
    BY <2>1
<1> QED
  BY <1>5 DEF Max

\* What is left of a channel after its first message, and with one more.
LEMMA Queues ==
  ASSUME NEW S, NEW s \in Seq(S)
  PROVE  /\ s # <<>> => /\ Len(s) \in Nat /\ Len(s) >= 1 /\ Head(s) = s[1] /\ s[1] \in S
                        /\ Tail(s) \in Seq(S) /\ Len(Tail(s)) = Len(s) - 1
                        /\ \A i \in 1..Len(Tail(s)) : Tail(s)[i] = s[i + 1]
         /\ \A e \in S : /\ Append(s, e) \in Seq(S) /\ Len(Append(s, e)) = Len(s) + 1
                         /\ \A i \in 1..Len(s) : Append(s, e)[i] = s[i]
                         /\ Append(s, e)[Len(s) + 1] = e
         /\ \A i \in 1..Len(s) : s[i] \in S
  OBVIOUS

\* What a step makes of a task is a task of the same run.
SameRun(t, u) ==
  /\ u.kind = t.kind /\ u.gen = t.gen /\ u.host = t.host /\ u.pid = t.pid /\ u.named = t.named

\* How a task goes on: it spawns its command once after it begins and once after
\* an install, which it makes only when it was told that there is no agent.
Onwards(t, u) ==
  /\ u.at \in {"begin", "spawn", "install"} =>
       \/ u.at = t.at
       \/ u.at = "spawn" /\ t.at \in {"begin", "install"}
       \/ u.at = "install" /\ t.at = "stderr" /\ t.need
  /\ u.at = "drain" => \/ t.at = "spawn" /\ ~u.need
                       \/ t.at = "drain" /\ (t.began => u.began)
  /\ u.need => t.need \/ (t.at = "drain" /\ ~t.began /\ u.began)

Ats == {"begin", "spawn", "drain", "stderr", "install", "done"}
Links == {"none", "up", "dead", "closed"}
Wires == Seq({"line"} \cup ExitNotes)

\* A task that is somewhere else in its run.
Turned(t, at, link, began, need, sent, note, attempt) ==
  [t EXCEPT !.at = at, !.link = link, !.began = began, !.need = need, !.wire = sent,
            !.note = note, !.attempt = attempt]

\* It is a task of the same run.
LEMMA TaskTypes ==
  ASSUME NEW t \in Tasks, NEW at \in Ats, NEW link \in Links, NEW began \in BOOLEAN,
         NEW need \in BOOLEAN, NEW sent \in Wires, NEW note \in Notes, NEW attempt \in {1, 2}
  PROVE  LET u == Turned(t, at, link, began, need, sent, note, attempt)
         IN u \in Tasks /\ SameRun(t, u) /\ u.at = at /\ u.began = began /\ u.need = need
<1> DEFINE u == Turned(t, at, link, began, need, sent, note, attempt)
<1>0. u = [t EXCEPT !.at = at, !.link = link, !.began = began, !.need = need, !.wire = sent,
                    !.note = note, !.attempt = attempt]
  BY DEF Turned
<1> HIDE DEF u
<1>1. u = [kind |-> t.kind, gen |-> t.gen, host |-> t.host, pid |-> t.pid, named |-> t.named,
           at |-> at, attempt |-> attempt, link |-> link, began |-> began, wire |-> sent,
           need |-> need, note |-> note]
  BY <1>0 DEF Tasks
<1>2. /\ t.kind \in Kinds \cup {"tail", "custom"} /\ t.gen \in Nat /\ t.host \in ActHosts
      /\ t.pid \in Pids \cup {0} /\ t.named \in Deeds
  BY DEF Tasks
<1>3. u \in Tasks
  BY <1>1, <1>2 DEF Tasks, Ats, Links, Wires
<1>4. SameRun(t, u) /\ u.at = at /\ u.began = began /\ u.need = need
  BY <1>1 DEF SameRun
<1> QED
  BY <1>3, <1>4 DEF u

\* What is on the way is a wire, also without its first line or cut short.
LEMMA WireTypes ==
  ASSUME NEW w \in Wires
  PROVE  /\ w # <<>> => Tail(w) \in Wires /\ Head(w) \in {"line"} \cup ExitNotes
         /\ \A n \in 0..Len(w) : SubSeq(w, 1, n) \in Wires
         /\ \A e \in ExitNotes : <<"line", e>> \in Wires
         /\ <<"line">> \in Wires /\ <<>> \in Wires
<1>1. w # <<>> => Tail(w) \in Wires /\ Head(w) \in {"line"} \cup ExitNotes
  BY DEF Wires
<1>2. \A n \in 0..Len(w) : SubSeq(w, 1, n) \in Wires
  BY DEF Wires
<1>3. \A e \in ExitNotes : <<"line", e>> \in Wires
  BY DEF Wires
<1>4. <<"line">> \in Wires /\ <<>> \in Wires
  BY DEF Wires
<1> QED
  BY <1>1, <1>2, <1>3, <1>4

\* Every step of a task but its end makes it go on in its run.
LEMMA TaskMoves ==
  ASSUME ActTypeOK, NEW p \in Panels,
         \/ Begin(p) \/ SpawnExec(p) \/ ReadLine(p) \/ ReadExit(p) \/ ReadEnd(p) \/ Stall(p)
         \/ ReadStderr(p) \/ Install(p) \/ SpawnFails(p) \/ HostRuns(p) \/ LinkBreaks(p)
         \/ SshGivesUp(p)
  PROVE  \E u \in Tasks : Becomes(p, u) /\ SameRun(aux[p], u) /\ Onwards(aux[p], u)
<1> DEFINE t == aux[p]
<1>1. t \in Tasks /\ Runs(p)
  <2>1. aux[p].kind # "none"
    BY DEF Begin, SpawnExec, ReadLine, ReadExit, ReadEnd, Stall, ReadStderr, Install, SpawnFails,
           HostRuns, LinkBreaks, SshGivesUp, AtTask
  <2>2. aux[p] \in Tasks \cup {NoTask}
    BY DEF ActTypeOK
  <2> QED
    BY <2>1, <2>2 DEF NoTask, Runs
<1>2. /\ t.at \in Ats /\ t.link \in Links /\ t.began \in BOOLEAN /\ t.need \in BOOLEAN
      /\ t.wire \in Wires /\ t.note \in Notes /\ t.attempt \in {1, 2}
  BY <1>1 DEF Tasks, Ats, Links, Wires
<1> HIDE DEF t
<1>3. ASSUME NEW at \in Ats, NEW link \in Links, NEW began \in BOOLEAN, NEW need \in BOOLEAN,
             NEW sent \in Wires, NEW note \in Notes, NEW attempt \in {1, 2},
             Becomes(p, Turned(t, at, link, began, need, sent, note, attempt)),
             /\ at \in {"begin", "spawn", "install"} =>
                  \/ at = t.at
                  \/ at = "spawn" /\ t.at \in {"begin", "install"}
                  \/ at = "install" /\ t.at = "stderr" /\ t.need
             /\ at = "drain" => \/ t.at = "spawn" /\ ~need
                                \/ t.at = "drain" /\ (t.began => began)
             /\ need => t.need \/ (t.at = "drain" /\ ~t.began /\ began)
      PROVE  \E u \in Tasks : Becomes(p, u) /\ SameRun(t, u) /\ Onwards(t, u)
  <2>1. PICK u : u = Turned(t, at, link, began, need, sent, note, attempt)
    OBVIOUS
  <2>2. u \in Tasks /\ SameRun(t, u) /\ u.at = at /\ u.began = began /\ u.need = need
    BY <1>1, <1>3, <2>1, TaskTypes
  <2> QED
    BY <1>3, <2>1, <2>2 DEF Onwards
<1>4. CASE Begin(p)
  <2>1. t.at = "begin" /\ Becomes(p, [t EXCEPT !.at = "spawn"])
    BY <1>4 DEF Begin, AtTask, t
  <2>2. Becomes(p, Turned(t, "spawn", t.link, t.began, t.need, t.wire, t.note, t.attempt))
    BY <1>1, <2>1 DEF Tasks, Turned
  <2> QED
    BY <1>2, <1>3, <2>1, <2>2 DEF Ats, t
<1>5. CASE SpawnExec(p)
  <2>1. t.at = "spawn"
        /\ Becomes(p, [t EXCEPT !.at = "drain", !.link = "up", !.began = FALSE, !.need = FALSE])
    BY <1>5 DEF SpawnExec, AtTask, t
  <2>2. Becomes(p, Turned(t, "drain", "up", FALSE, FALSE, t.wire, t.note, t.attempt))
    BY <1>1, <2>1 DEF Tasks, Turned
  <2> QED
    BY <1>2, <1>3, <2>1, <2>2 DEF Ats, Links, t
<1>6. CASE SpawnFails(p)
  <2>1. Becomes(p, [t EXCEPT !.at = "done", !.note = "failed"])
    BY <1>6 DEF SpawnFails, t
  <2>2. Becomes(p, Turned(t, "done", t.link, t.began, t.need, t.wire, "failed", t.attempt))
    BY <1>1, <2>1 DEF Tasks, Turned
  <2> QED
    BY <1>2, <1>3, <2>2 DEF Ats, Notes, t
<1>7. CASE HostRuns(p)
  <2>1. /\ t.at = "drain" /\ ~t.began
        /\ \/ Becomes(p, [[t EXCEPT !.began = TRUE] EXCEPT !.need = TRUE, !.link = "closed"])
           \/ Becomes(p, [[t EXCEPT !.began = TRUE] EXCEPT !.wire = <<"line">>])
           \/ \E exit \in ExitNotes :
                Becomes(p, [[t EXCEPT !.began = TRUE] EXCEPT !.wire = <<"line", exit>>, !.link = "closed"])
    BY <1>7 DEF HostRuns, AtTask, ExitNotes, t
  <2>2. CASE Becomes(p, [[t EXCEPT !.began = TRUE] EXCEPT !.need = TRUE, !.link = "closed"])
    <3>1. Becomes(p, Turned(t, t.at, "closed", TRUE, TRUE, t.wire, t.note, t.attempt))
      BY <1>1, <2>2 DEF Tasks, Turned
    <3> QED
      BY <1>2, <1>3, <2>1, <3>1 DEF Links, t
  <2>3. CASE Becomes(p, [[t EXCEPT !.began = TRUE] EXCEPT !.wire = <<"line">>])
    <3>1. Becomes(p, Turned(t, t.at, t.link, TRUE, t.need, <<"line">>, t.note, t.attempt))
      BY <1>1, <2>3 DEF Tasks, Turned
    <3>2. <<"line">> \in Wires
      BY <1>2, WireTypes
    <3> QED
      BY <1>2, <1>3, <2>1, <3>1, <3>2 DEF t
  <2>4. ASSUME NEW exit \in ExitNotes,
               Becomes(p, [[t EXCEPT !.began = TRUE] EXCEPT !.wire = <<"line", exit>>, !.link = "closed"])
        PROVE  \E u \in Tasks : Becomes(p, u) /\ SameRun(aux[p], u) /\ Onwards(aux[p], u)
    <3>1. Becomes(p, Turned(t, t.at, "closed", TRUE, t.need, <<"line", exit>>, t.note, t.attempt))
      BY <1>1, <2>4 DEF Tasks, Turned
    <3>2. <<"line", exit>> \in Wires
      BY <1>2, WireTypes
    <3> QED
      BY <1>2, <1>3, <2>1, <3>1, <3>2 DEF Links, t
  <2> QED
    BY <2>1, <2>2, <2>3, <2>4
<1>8. CASE LinkBreaks(p)
  <2>1. PICK n \in 0..Len(t.wire), link \in {"dead", "closed"} :
          Becomes(p, [t EXCEPT !.wire = SubSeq(@, 1, n), !.link = link, !.began = TRUE])
    BY <1>8 DEF LinkBreaks, t
  <2>2. t.at = "drain"
    BY <1>8 DEF LinkBreaks, AtTask, t
  <2>3. Becomes(p, Turned(t, t.at, link, TRUE, t.need, SubSeq(t.wire, 1, n), t.note, t.attempt))
    BY <1>1, <2>1 DEF Tasks, Turned
  <2>4. SubSeq(t.wire, 1, n) \in Wires /\ link \in Links
    BY <1>2, WireTypes DEF Links
  <2> QED
    BY <1>2, <1>3, <2>2, <2>3, <2>4 DEF t
<1>9. CASE SshGivesUp(p)
  <2>1. Becomes(p, [t EXCEPT !.link = "closed"])
    BY <1>9 DEF SshGivesUp, t
  <2>2. Becomes(p, Turned(t, t.at, "closed", t.began, t.need, t.wire, t.note, t.attempt))
    BY <1>1, <2>1 DEF Tasks, Turned
  <2>3. CASE t.at # "drain"
    BY <1>2, <1>3, <2>2, <2>3 DEF Links, t
  <2>4. CASE t.at = "drain"
    BY <1>2, <1>3, <2>2, <2>4 DEF Links, t
  <2> QED
    BY <2>3, <2>4
<1>10. CASE ReadLine(p)
  <2>1. t.at = "drain" /\ t.wire # <<>> /\ Becomes(p, [t EXCEPT !.wire = Tail(@)])
    BY <1>10 DEF ReadLine, AtTask, t
  <2>2. Becomes(p, Turned(t, t.at, t.link, t.began, t.need, Tail(t.wire), t.note, t.attempt))
    BY <1>1, <2>1 DEF Tasks, Turned
  <2>3. Tail(t.wire) \in Wires
    BY <1>2, <2>1, WireTypes
  <2> QED
    BY <1>2, <1>3, <2>1, <2>2, <2>3 DEF t
<1>11. CASE ReadExit(p)
  <2>1. /\ t.at = "drain" /\ t.wire # <<>> /\ Head(t.wire) # "line"
        /\ Becomes(p, [t EXCEPT !.wire = <<>>, !.at = "stderr", !.note = Head(t.wire)])
    BY <1>11 DEF ReadExit, AtTask, t
  <2>2. Becomes(p, Turned(t, "stderr", t.link, t.began, t.need, <<>>, Head(t.wire), t.attempt))
    BY <1>1, <2>1 DEF Tasks, Turned
  <2>3. Head(t.wire) \in Notes /\ <<>> \in Wires
    BY <1>2, <2>1, WireTypes DEF Notes
  <2> QED
    BY <1>2, <1>3, <2>2, <2>3 DEF Ats, t
<1>12. CASE ReadEnd(p) \/ Stall(p)
  <2>1. PICK note \in {"finished", "stalled"} : Becomes(p, [t EXCEPT !.at = "stderr", !.note = note])
    BY <1>12 DEF ReadEnd, Stall, t
  <2>2. Becomes(p, Turned(t, "stderr", t.link, t.began, t.need, t.wire, note, t.attempt))
    BY <1>1, <2>1 DEF Tasks, Turned
  <2> QED
    BY <1>2, <1>3, <2>2 DEF Ats, Notes, t
<1>13. CASE ReadStderr(p)
  <2>1. /\ t.at = "stderr"
        /\ \/ t.need /\ Becomes(p, [t EXCEPT !.at = "install"])
           \/ \E note \in Notes : Becomes(p, [t EXCEPT !.at = "done", !.note = note])
           \/ Becomes(p, [t EXCEPT !.at = "done", !.need = FALSE])
    <3>1. /\ t.at = "stderr"
          /\ \/ Becomes(p, IF Retries(t) THEN [t EXCEPT !.at = "install"]
                           ELSE [t EXCEPT !.at = "done", !.note = IF t.need THEN "no_agent" ELSE @])
             \/ Becomes(p, [t EXCEPT !.at = "done", !.need = FALSE])
      BY <1>13 DEF ReadStderr, AtTask, t
    <3>2. Retries(t) => t.need
      BY DEF Retries
    <3>3. "no_agent" \in Notes
      BY DEF Notes
    <3>4. CASE Becomes(p, IF Retries(t) THEN [t EXCEPT !.at = "install"]
                           ELSE [t EXCEPT !.at = "done", !.note = IF t.need THEN "no_agent" ELSE @])
      <4>1. CASE Retries(t)
        BY <3>1, <3>2, <3>4, <4>1
      <4>2. CASE ~Retries(t) /\ t.need
        <5>1. Becomes(p, [t EXCEPT !.at = "done", !.note = "no_agent"])
          BY <3>4, <4>2
        <5> QED
          BY <3>1, <3>3, <5>1
      <4>3. CASE ~Retries(t) /\ ~t.need
        <5>1. Becomes(p, [t EXCEPT !.at = "done", !.note = t.note])
          BY <3>4, <4>3
        <5> QED
          BY <1>2, <3>1, <5>1
      <4> QED
        BY <4>1, <4>2, <4>3
    <3> QED
      BY <3>1, <3>4
  <2>2. CASE t.need /\ Becomes(p, [t EXCEPT !.at = "install"])
    <3>1. Becomes(p, Turned(t, "install", t.link, t.began, t.need, t.wire, t.note, t.attempt))
      BY <1>1, <2>2 DEF Tasks, Turned
    <3> QED
      BY <1>2, <1>3, <2>1, <2>2, <3>1 DEF Ats, t
  <2>3. ASSUME NEW note \in Notes, Becomes(p, [t EXCEPT !.at = "done", !.note = note])
        PROVE  \E u \in Tasks : Becomes(p, u) /\ SameRun(aux[p], u) /\ Onwards(aux[p], u)
    <3>1. Becomes(p, Turned(t, "done", t.link, t.began, t.need, t.wire, note, t.attempt))
      BY <1>1, <2>3 DEF Tasks, Turned
    <3> QED
      BY <1>2, <1>3, <3>1 DEF Ats, t
  <2>4. CASE Becomes(p, [t EXCEPT !.at = "done", !.need = FALSE])
    <3>1. Becomes(p, Turned(t, "done", t.link, t.began, FALSE, t.wire, t.note, t.attempt))
      BY <1>1, <2>4 DEF Tasks, Turned
    <3>2. "done" \in Ats
      BY DEF Ats
    <3> QED
      BY <1>2, <1>3, <3>1, <3>2 DEF t
  <2> QED
    BY <2>1, <2>2, <2>3, <2>4
<1>14. CASE Install(p)
  <2>1. /\ t.at = "install"
        /\ \/ Becomes(p, [t EXCEPT !.at = "spawn", !.attempt = 2, !.note = "none"])
           \/ Becomes(p, [t EXCEPT !.at = "done", !.note = "no_agent"])
    BY <1>14 DEF Install, AtTask, t
  <2>2. CASE Becomes(p, [t EXCEPT !.at = "spawn", !.attempt = 2, !.note = "none"])
    <3>1. Becomes(p, Turned(t, "spawn", t.link, t.began, t.need, t.wire, "none", 2))
      BY <1>1, <2>2 DEF Tasks, Turned
    <3> QED
      BY <1>2, <1>3, <2>1, <3>1 DEF Ats, Notes, t
  <2>3. CASE Becomes(p, [t EXCEPT !.at = "done", !.note = "no_agent"])
    <3>1. Becomes(p, Turned(t, "done", t.link, t.began, t.need, t.wire, "no_agent", t.attempt))
      BY <1>1, <2>3 DEF Tasks, Turned
    <3> QED
      BY <1>2, <1>3, <3>1 DEF Ats, Notes, t
  <2> QED
    BY <2>1, <2>2, <2>3
<1> QED
  BY <1>4, <1>5, <1>6, <1>7, <1>8, <1>9, <1>10, <1>11, <1>12, <1>13, <1>14

\* A step of a task leaves the app alone.  It tells it that it begins, or is past
\* that, or does not go on from its beginning.
LEMMA TaskSays ==
  ASSUME ActTypeOK, NEW p \in Panels,
         TaskSteps(p) \/ SpawnFails(p) \/ HostRuns(p) \/ LinkBreaks(p) \/ SshGivesUp(p)
  PROVE  /\ Runs(p) /\ UNCHANGED <<panels, keys>> /\ agents' \subseteq ActHosts /\ faults' \in Nat
         /\ \/ msgs' = msgs /\ (aux[p].at = "begin" => aux'[p].at = "begin")
            \/ \E what \in Whats : Send(p, what) /\ (what = "begin" \/ aux[p].at # "begin")
<1>0. /\ aux \in [Panels -> Tasks \cup {NoTask}] /\ agents \subseteq ActHosts /\ faults \in Nat
      /\ {"begin", "error", "line"} \subseteq Whats /\ Notes \subseteq Whats
  BY DEF ActTypeOK, Whats
<1>1. CASE Begin(p)
  BY <1>0, <1>1 DEF Begin, AtTask, Runs
<1>2. CASE SpawnFails(p)
  BY <1>0, <1>2 DEF SpawnFails, AtTask, Runs, ActFault
<1>3. CASE SpawnExec(p) \/ LinkBreaks(p) \/ ReadExit(p) \/ ReadEnd(p) \/ ReadStderr(p)
  <2>1. CASE SpawnExec(p)
    BY <1>0, <2>1 DEF SpawnExec, AtTask, Runs
  <2>2. CASE LinkBreaks(p)
    <3>1. faults' = faults + 1 /\ aux[p].kind # "none" /\ aux[p].at = "drain"
          /\ UNCHANGED <<panels, keys, msgs, agents>>
      BY <2>2 DEF LinkBreaks, ActFault, AtTask
    <3> QED
      BY <1>0, <3>1 DEF Runs
  <2>3. CASE ReadExit(p) \/ ReadEnd(p)
    BY <1>0, <2>3 DEF ReadExit, ReadEnd, AtTask, Runs
  <2>4. CASE ReadStderr(p)
    <3>1. faults' = faults \/ faults' = faults + 1
      BY <2>4 DEF ReadStderr, ActFault
    <3> QED
      BY <1>0, <2>4, <3>1 DEF ReadStderr, AtTask, Runs
  <2> QED
    BY <1>3, <2>1, <2>2, <2>3, <2>4
<1>4. CASE HostRuns(p)
  BY <1>0, <1>4 DEF HostRuns, AtTask, Runs
<1>5. CASE ReadLine(p) \/ Stall(p)
  BY <1>0, <1>5 DEF ReadLine, Stall, AtTask, Runs
<1>6. CASE SshGivesUp(p)
  <2>1. Runs(p) /\ aux' = [aux EXCEPT ![p] = [aux[p] EXCEPT !.link = "closed"]]
        /\ UNCHANGED <<panels, keys, msgs, agents, faults>>
    BY <1>6 DEF SshGivesUp, Becomes, Runs
  <2>2. aux[p] \in Tasks
    BY <1>0, <2>1 DEF Runs, NoTask
  <2>3. aux'[p].at = aux[p].at
    BY <1>0, <2>1, <2>2 DEF Tasks
  <2> QED
    BY <1>0, <2>1, <2>3
<1>7. CASE Install(p)
  <2>1. aux[p].host \in ActHosts
    <3>1. aux[p] \in Tasks
      BY <1>0, <1>7 DEF Install, AtTask, NoTask
    <3> QED
      BY <3>1 DEF Tasks
  <2> QED
    BY <1>0, <1>7, <2>1 DEF Install, AtTask, Runs, ActFault
<1>8. CASE TaskEnds(p)
  <2>1. Runs(p) /\ aux[p].at = "done" /\ aux[p] \in Tasks
    BY <1>0, <1>8 DEF TaskEnds, AtTask, Runs, NoTask
  <2>2. aux[p].note \in Whats
    BY <1>0, <2>1 DEF Tasks
  <2> QED
    BY <1>0, <1>8, <2>1, <2>2 DEF TaskEnds
<1> QED
  BY <1>1, <1>2, <1>3, <1>4, <1>5, <1>6, <1>7, <1>8 DEF TaskSteps

\* What a task becomes: it goes on in its run, is gone, or begins the same run
\* again when it is the panel's own command.
LEMMA TaskGoes ==
  ASSUME ActTypeOK, NEW p \in Panels,
         TaskSteps(p) \/ SpawnFails(p) \/ HostRuns(p) \/ LinkBreaks(p) \/ SshGivesUp(p)
  PROVE  \E u \in Tasks \cup {NoTask} :
           /\ Becomes(p, u)
           /\ \/ u \in Tasks /\ SameRun(aux[p], u) /\ Onwards(aux[p], u)
              \/ u = NoTask
              \/ /\ aux[p].kind = "custom" /\ u \in Tasks /\ u.kind = "custom" /\ u.gen = aux[p].gen
                 /\ u.host = aux[p].host /\ u.named = DeedOf(u) /\ u.at = "begin"
<1>1. CASE TaskEnds(p)
  <2>1. aux[p] \in Tasks
    BY <1>1 DEF TaskEnds, AtTask, NoTask, ActTypeOK
  <2>2. CASE aux[p].kind = "custom"
    <3>0. PICK deed : deed = Deed("custom", aux[p].host, 0)
      OBVIOUS
    <3>00. deed \in Deeds
      BY <2>1, <3>0 DEF Deed, Deeds, Tasks
    <3>1. PICK u : u = NewTask("custom", aux[p].gen, aux[p].host, 0, deed)
      OBVIOUS
    <3>2. /\ u \in Tasks /\ u.kind = "custom" /\ u.gen = aux[p].gen /\ u.host = aux[p].host
          /\ u.named = deed /\ u.pid = 0 /\ u.at = "begin"
      BY <2>1, <3>00, <3>1 DEF NewTask, Tasks, Notes
    <3>4. u.named = DeedOf(u)
      BY <3>0, <3>2 DEF DeedOf
    <3>3. Becomes(p, u)
      BY <1>1, <2>2, <3>0, <3>1 DEF TaskEnds
    <3> QED
      BY <2>2, <3>2, <3>3, <3>4
  <2>3. CASE aux[p].kind # "custom"
    BY <1>1, <2>3 DEF TaskEnds
  <2> QED
    BY <2>2, <2>3
<1>2. CASE ~TaskEnds(p)
  <2>1. PICK u \in Tasks : Becomes(p, u) /\ SameRun(aux[p], u) /\ Onwards(aux[p], u)
    BY <1>2, TaskMoves DEF TaskSteps
  <2> QED
    BY <2>1
<1> QED
  BY <1>1, <1>2

\* A message is one of the panels', and there is room for it.
LEMMA SentTypes ==
  ASSUME ActTypeOK, NEW p \in Panels, Runs(p), NEW what \in Whats, Send(p, what)
  PROVE  /\ msgs' = Append(msgs, [panel |-> p, gen |-> aux[p].gen, host |-> aux[p].host, what |-> what])
         /\ [panel |-> p, gen |-> aux[p].gen, host |-> aux[p].host, what |-> what] \in Told
         /\ msgs' \in Seq(Told) /\ Len(msgs') <= MaxWire
<1>1. aux[p].gen \in Nat /\ aux[p].host \in ActHosts /\ msgs \in Seq(Told) /\ MaxWire \in Nat
  BY ActionsAssumption DEF ActTypeOK, Runs, NoTask, Tasks
<1>2. [panel |-> p, gen |-> aux[p].gen, host |-> aux[p].host, what |-> what] \in Told
  BY <1>1 DEF Told
<1> QED
  BY <1>1, <1>2, Queues DEF Send

CommandOf(p) ==
  [panel |-> p, gen |-> aux[p].gen, did |-> DeedOf(aux[p]), named |-> aux[p].named]

\* A host runs a command for a task that has spawned it and heard nothing yet.
LEMMA HostRan ==
  ASSUME ActTypeOK, NEW p \in Panels,
         TaskSteps(p) \/ SpawnFails(p) \/ HostRuns(p) \/ LinkBreaks(p) \/ SshGivesUp(p),
         ran' # ran
  PROVE  /\ aux[p] \in Tasks /\ aux[p].kind # "custom" /\ aux[p].at = "drain" /\ ~aux[p].began
         /\ SameRun(aux[p], aux'[p]) /\ aux'[p].at = "drain" /\ aux'[p].began
         /\ aux'[p].need = aux[p].need
         /\ ran' = Append(ran, CommandOf(p)) /\ CommandOf(p) \in Commanded
<1>1. HostRuns(p)
  BY DEF TaskSteps, Begin, SpawnExec, ReadLine, ReadExit, ReadEnd, Stall, ReadStderr, Install,
         TaskEnds, SpawnFails, LinkBreaks, SshGivesUp
<1>2. aux[p] \in Tasks /\ aux[p].at = "drain" /\ ~aux[p].began
  BY <1>1 DEF HostRuns, AtTask, ActTypeOK, NoTask
<1>3. PICK t : t = [aux[p] EXCEPT !.began = TRUE]
  OBVIOUS
<1>4. /\ SameRun(aux[p], t) /\ t.at = "drain" /\ t.began /\ t.need = aux[p].need
      /\ t.kind = aux[p].kind /\ t.link = aux[p].link
  BY <1>2, <1>3 DEF Tasks, SameRun
<1>5. /\ t.host \in agents /\ t.kind # "custom"
      /\ \/ Becomes(p, [t EXCEPT !.wire = <<"line">>])
         \/ \E exit \in ExitNotes : Becomes(p, [t EXCEPT !.wire = <<"line", exit>>, !.link = "closed"])
      /\ ran' = Append(ran, [panel |-> p, gen |-> t.gen, did |-> DeedOf(t), named |-> t.named])
  BY <1>1, <1>3 DEF HostRuns, ExitNotes, DeedOf
<1>6. aux'[p].at = "drain" /\ aux'[p].began /\ aux'[p].need = aux[p].need /\ SameRun(aux[p], aux'[p])
  <2>1. PICK w, link : aux' = [aux EXCEPT ![p] = [t EXCEPT !.wire = w, !.link = link]]
    <3>1. CASE Becomes(p, [t EXCEPT !.wire = <<"line">>])
      <4>1. [t EXCEPT !.wire = <<"line">>] = [t EXCEPT !.wire = <<"line">>, !.link = t.link]
        BY <1>2, <1>3 DEF Tasks
      <4> QED
        BY <3>1, <4>1 DEF Becomes
    <3>2. CASE \E exit \in ExitNotes : Becomes(p, [t EXCEPT !.wire = <<"line", exit>>, !.link = "closed"])
      BY <3>2 DEF Becomes
    <3> QED
      BY <1>5, <3>1, <3>2
  <2>2. aux'[p] = [t EXCEPT !.wire = w, !.link = link]
    BY <2>1 DEF ActTypeOK
  <2> QED
    BY <1>2, <1>3, <1>4, <2>2 DEF Tasks, SameRun
<1>7. ran' = Append(ran, CommandOf(p)) /\ CommandOf(p) \in Commanded
  <2>1. t.gen = aux[p].gen /\ DeedOf(t) = DeedOf(aux[p]) /\ t.named = aux[p].named
    BY <1>4 DEF SameRun, DeedOf
  <2>2. DeedOf(aux[p]) \in Deeds /\ aux[p].named \in Deeds /\ aux[p].gen \in Nat
    BY <1>2 DEF DeedOf, Deed, Deeds, Tasks
  <2> QED
    BY <1>5, <2>1, <2>2 DEF CommandOf, Commanded
<1> QED
  BY <1>2, <1>4, <1>5, <1>6, <1>7

\* The variables keep their types under the steps of a task and its host.
LEMMA TaskActTypes ==
  ASSUME ActTypeOK, NEW p \in Panels,
         TaskSteps(p) \/ SpawnFails(p) \/ HostRuns(p) \/ LinkBreaks(p) \/ SshGivesUp(p)
  PROVE  ActTypeOK'
<1>1. aux' \in [Panels -> Tasks \cup {NoTask}]
  BY TaskGoes DEF Becomes, ActTypeOK
<1>2. msgs' \in Seq(Told) /\ Len(msgs') <= MaxWire
  BY TaskSays, SentTypes DEF ActTypeOK
<1>3. ran' \in Seq(Commanded)
  <2>1. CASE ran' = ran
    BY <2>1 DEF ActTypeOK
  <2>2. CASE ran' # ran
    <3>1. ran' = Append(ran, CommandOf(p)) /\ CommandOf(p) \in Commanded
      BY <2>2, HostRan
    <3>2. ran \in Seq(Commanded)
      BY DEF ActTypeOK
    <3> QED
      BY <3>1, <3>2, Queues
  <2> QED
    BY <2>1, <2>2
<1> QED
  BY <1>1, <1>2, <1>3, TaskSays DEF ActTypeOK

\* A panel with another process on top, another pane or a later generation.
LEMMA BoardTypes ==
  ASSUME NEW b \in Boards, NEW g \in 0..MaxGen, NEW top \in Pids \cup {0}, NEW v \in Seq(Entries)
  PROVE  /\ [b EXCEPT !.gen = g] \in Boards /\ [b EXCEPT !.view = v] \in Boards
         /\ [b EXCEPT !.top = top, !.view = v] \in Boards
<1>1. [b EXCEPT !.gen = g] \in Boards
  BY DEF Boards
<1>2. [b EXCEPT !.view = v] \in Boards
  BY DEF Boards
<1>3. [b EXCEPT !.top = top, !.view = v] \in Boards
  BY DEF Boards
<1> QED
  BY <1>1, <1>2, <1>3

\* A task that is started is of its panel, and of a generation that is new there.
LEMMA Started ==
  ASSUME ActTypeOK, NEW p \in Panels, NEW kind \in Kinds \cup {"tail"}, NEW pid \in Pids \cup {0},
         NEW named \in Deeds, Start(p, kind, pid, named)
  PROVE  /\ panels' \in [Panels -> Boards] /\ aux' \in [Panels -> Tasks \cup {NoTask}]
         /\ panels'[p].gen = panels[p].gen + 1 /\ panels'[p].host = panels[p].host
         /\ panels'[p].view = panels[p].view
         /\ \A q \in Panels : q # p => panels'[q] = panels[q] /\ aux'[q] = aux[q]
         /\ aux'[p].gen = panels'[p].gen /\ aux'[p].host = panels[p].host
         /\ aux'[p].kind = kind /\ aux'[p].pid = pid
         /\ aux'[p].named = named /\ aux'[p].at = "begin"
<1>0. /\ panels \in [Panels -> Boards] /\ aux \in [Panels -> Tasks \cup {NoTask}] /\ MaxGen \in Nat
      /\ panels[p].gen \in 0..MaxGen /\ panels[p].host \in ActHosts
  BY ActionsAssumption DEF ActTypeOK, Boards
<1>1. /\ panels[p].gen < MaxGen /\ panels' = [panels EXCEPT ![p].gen = panels[p].gen + 1]
      /\ aux' = [aux EXCEPT ![p] = NewTask(kind, panels[p].gen + 1, panels[p].host, pid, named)]
  BY DEF Start
<1>2. panels[p].gen + 1 \in 0..MaxGen /\ panels[p].gen + 1 \in Nat
  BY <1>0, <1>1
<1>3. /\ panels'[p] = [panels[p] EXCEPT !.gen = panels[p].gen + 1]
      /\ \A q \in Panels : q # p => panels'[q] = panels[q]
  BY <1>0, <1>1
<1>4. panels' \in [Panels -> Boards]
  <2>1. panels[p] \in Boards /\ 0 \in Pids \cup {0} /\ <<>> \in Seq(Entries)
    BY <1>0
  <2>2. [panels[p] EXCEPT !.gen = panels[p].gen + 1] \in Boards
    BY <1>2, <2>1, BoardTypes
  <2> QED
    BY <1>0, <1>1, <2>2
<1>5. PICK t : t = NewTask(kind, panels[p].gen + 1, panels[p].host, pid, named)
  OBVIOUS
<1>6. /\ t \in Tasks /\ t.gen = panels[p].gen + 1 /\ t.host = panels[p].host /\ t.named = named
      /\ t.kind = kind /\ t.pid = pid /\ t.at = "begin"
  BY <1>0, <1>2, <1>5 DEF NewTask, Tasks, Notes
<1>7. panels'[p].gen = panels[p].gen + 1 /\ panels'[p].host = panels[p].host
      /\ panels'[p].view = panels[p].view
  BY <1>0, <1>3 DEF Boards
<1> QED
  BY <1>0, <1>1, <1>3, <1>4, <1>5, <1>6, <1>7

\* A confirmed action is started on the panel that it was armed on.
LEMMA Confirmed ==
  ASSUME ActTypeOK, ConfirmAct
  PROVE  LET c == keys.confirm
         IN /\ c \in Confirms /\ Start(c.panel, c.kind, c.pid, Deed(c.kind, c.host, c.pid))
            /\ c.panel \in Panels /\ c.kind \in Kinds /\ c.pid \in Pids /\ c.host \in ActHosts
            /\ Deed(c.kind, c.host, c.pid) \in Deeds
<1>1. keys.confirm \in Confirms
  BY DEF ActTypeOK, ConfirmAct
<1>2. LET c == keys.confirm
      IN /\ c.panel \in Panels /\ c.kind \in Kinds /\ c.pid \in Pids /\ c.host \in ActHosts
         /\ Deed(c.kind, c.host, c.pid) \in Deeds
  BY <1>1 DEF Confirms, Deed, Deeds
<1> QED
  BY <1>1, <1>2 DEF ConfirmAct

\* The generation of the panels of a new list is later than any before.
LEMMA NewIsLater ==
  ASSUME ActTypeOK
  PROVE  /\ Panels # {} => GenOfNew \in Nat
         /\ \A p \in Panels : GenOfNew > panels[p].gen
<1> DEFINE S == {panels[p].gen : p \in Panels}
<1>1. S \subseteq 0..MaxGen /\ MaxGen \in Nat
  BY ActionsAssumption DEF ActTypeOK, Boards
<1>2. CASE Panels # {}
  <2>1. S # {}
    BY <1>2
  <2>2. Max(S) \in S /\ \A y \in S : Max(S) >= y
    BY <1>1, <2>1, MaxOfBounded
  <2>3. GenOfNew = 1 + Max(S)
    BY DEF GenOfNew
  <2>4. \A p \in Panels : panels[p].gen \in S
    OBVIOUS
  <2>5. PICK m : m = Max(S)
    OBVIOUS
  <2>6. m \in S /\ (\A y \in S : m >= y) /\ GenOfNew = 1 + m
    BY <2>2, <2>3, <2>5
  <2> HIDE DEF S
  <2>7. m \in 0..MaxGen /\ m \in Nat
    BY <1>1, <2>6
  <2>8. \A p \in Panels : panels[p].gen \in 0..MaxGen /\ m >= panels[p].gen
    BY <1>1, <2>4, <2>6
  <2> QED
    BY <1>1, <2>6, <2>7, <2>8
<1> QED
  BY <1>2

\* The variables keep their types under the steps of the app.
LEMMA AppActTypes ==
  ASSUME ActTypeOK,
         \/ \E p \in Panels : Packet(p) \/ Arm(p) \/ TailLog(p)
         \/ ConfirmAct \/ StandDown \/ Overlay \/ EditServers \/ Apply
  PROVE  ActTypeOK'
<1>0. /\ panels \in [Panels -> Boards] /\ aux \in [Panels -> Tasks \cup {NoTask}]
      /\ keys \in [at : {"grid", "palette", "passwords"}, confirm : Confirms \cup {NoConfirm}]
      /\ msgs \in Seq(Told) /\ MaxGen \in Nat /\ MaxWire \in Nat /\ Len(msgs) <= MaxWire
  BY ActionsAssumption DEF ActTypeOK
<1>1. ASSUME NEW p \in Panels, Packet(p) PROVE ActTypeOK'
  <2>1. PICK pid \in Pids : panels' = [panels EXCEPT ![p] = [panels[p] EXCEPT !.top = pid, !.view = <<>>]]
    BY <1>1 DEF Packet
  <2>2. [panels[p] EXCEPT !.top = pid, !.view = <<>>] \in Boards
    <3>1. panels[p] \in Boards /\ 0 \in 0..MaxGen /\ <<>> \in Seq(Entries) /\ pid \in Pids \cup {0}
      BY <1>0
    <3> QED
      BY <3>1, BoardTypes
  <2>3. panels' \in [Panels -> Boards]
    BY <1>0, <2>1, <2>2
  <2> QED
    BY <1>1, <2>3 DEF Packet, ActTypeOK
<1>2. ASSUME NEW p \in Panels, Arm(p) PROVE ActTypeOK'
  <2>1. PICK kind \in Kinds : keys' = [keys EXCEPT !.confirm =
          [kind |-> kind, panel |-> p, pid |-> panels[p].top, host |-> panels[p].host]]
    BY <1>2 DEF Arm
  <2>2. panels[p].top \in Pids /\ panels[p].host \in ActHosts
    BY <1>0, <1>2 DEF Arm, Boards
  <2>3. keys' \in [at : {"grid", "palette", "passwords"}, confirm : Confirms \cup {NoConfirm}]
    BY <1>0, <2>1, <2>2 DEF Confirms
  <2> QED
    BY <1>2, <2>3 DEF Arm, ActTypeOK
<1>3. ASSUME NEW p \in Panels, TailLog(p) PROVE ActTypeOK'
  <2>1. /\ Start(p, "tail", 0, Deed("tail", panels[p].host, 0))
        /\ Deed("tail", panels[p].host, 0) \in Deeds
    BY <1>0, <1>3 DEF TailLog, Boards, Deed, Deeds
  <2>2. panels' \in [Panels -> Boards] /\ aux' \in [Panels -> Tasks \cup {NoTask}]
    BY <2>1, Started
  <2> QED
    BY <1>3, <2>1, <2>2 DEF TailLog, Start, ActTypeOK
<1>4. CASE ConfirmAct
  <2>1. PICK c \in Confirms : /\ Start(c.panel, c.kind, c.pid, Deed(c.kind, c.host, c.pid))
                              /\ c.panel \in Panels /\ c.kind \in Kinds /\ c.pid \in Pids
                              /\ Deed(c.kind, c.host, c.pid) \in Deeds
    BY <1>4, Confirmed
  <2>2. panels' \in [Panels -> Boards] /\ aux' \in [Panels -> Tasks \cup {NoTask}]
    BY <2>1, Started
  <2>3. keys' \in [at : {"grid", "palette", "passwords"}, confirm : Confirms \cup {NoConfirm}]
    BY <1>0, <1>4 DEF ConfirmAct
  <2> QED
    BY <2>1, <2>2, <2>3 DEF Start, ActTypeOK
<1>5. CASE StandDown
  <2>1. keys' \in [at : {"grid", "palette", "passwords"}, confirm : Confirms \cup {NoConfirm}]
    BY <1>0, <1>5 DEF StandDown
  <2> QED
    BY <1>5, <2>1 DEF StandDown, ActTypeOK
<1>6. CASE Overlay
  <2>1. keys' \in [at : {"grid", "palette", "passwords"}, confirm : Confirms \cup {NoConfirm}]
    BY <1>0, <1>6 DEF Overlay
  <2> QED
    BY <1>6, <2>1 DEF Overlay, ActTypeOK
<1>7. CASE EditServers
  <2>1. PICK h \in [Panels -> ActHosts] :
          panels' = [p \in Panels |-> [host |-> h[p], gen |-> GenOfNew, top |-> 0, view |-> <<>>,
                                       custom |-> FALSE]]
    BY <1>7 DEF EditServers
  <2>2. Panels # {} => GenOfNew \in 0..MaxGen
    BY <1>0, <1>7, NewIsLater DEF EditServers
  <2>3. panels' \in [Panels -> Boards]
    BY <2>1, <2>2 DEF Boards
  <2> QED
    BY <1>7, <2>3 DEF EditServers, ActTypeOK
<1>8. CASE Apply
  <2> DEFINE m == Head(msgs)
  <2>1. msgs # <<>> /\ m \in Told /\ msgs' \in Seq(Told) /\ Len(msgs') <= MaxWire /\ MaxWire >= 1
    BY <1>0, <1>8, Queues DEF Apply
  <2>2. PICK entry : entry = [host |-> m.host, gen |-> m.gen, what |-> m.what]
    OBVIOUS
  <2>3. entry \in Entries /\ m.panel \in Panels
    BY <2>1, <2>2 DEF Entries, Told
  <2>4. \/ panels' = panels
        \/ panels' = [panels EXCEPT ![m.panel].view = <<entry>>]
        \/ /\ Len(panels[m.panel].view) < MaxWire
           /\ panels' = [panels EXCEPT ![m.panel].view = Append(@, entry)]
        \/ /\ ~(Len(panels[m.panel].view) < MaxWire)
           /\ panels' = [panels EXCEPT ![m.panel].view = Append(Tail(@), entry)]
    BY <1>8, <2>2 DEF Apply
  <2> HIDE DEF m
  <2>5. panels[m.panel] \in Boards /\ panels[m.panel].view \in Seq(Entries)
    BY <1>0, <2>3 DEF Boards
  <2>6. /\ <<entry>> \in Seq(Entries) /\ Append(panels[m.panel].view, entry) \in Seq(Entries)
        /\ ~(Len(panels[m.panel].view) < MaxWire) =>
             Append(Tail(panels[m.panel].view), entry) \in Seq(Entries)
    BY <1>0, <2>1, <2>3, <2>5
  <2>7. \A v \in Seq(Entries) : [panels EXCEPT ![m.panel].view = v] \in [Panels -> Boards]
    BY ZenonT(40), <1>0 DEF Boards
  <2>8. panels' \in [Panels -> Boards]
    BY ZenonT(40), <1>0, <2>4, <2>6, <2>7
  <2> QED
    BY <1>8, <2>1, <2>8 DEF Apply, ActTypeOK
<1> QED
  BY <1>1, <1>2, <1>3, <1>4, <1>5, <1>6, <1>7, <1>8

\* The steps of a task and its host keep the invariant.
LEMMA TaskStepKeeps ==
  ASSUME ActInv, NEW p \in Panels,
         TaskSteps(p) \/ SpawnFails(p) \/ HostRuns(p) \/ LinkBreaks(p) \/ SshGivesUp(p)
  PROVE  ActInv'
<1>0. /\ ActTypeOK /\ NamedInv /\ GenInv /\ OnceInv /\ ToldOfInv /\ ConfirmedRunsOnce
      /\ LinesAreTheHosts
  BY DEF ActInv
<1>1. ActTypeOK' /\ panels' = panels /\ keys' = keys /\ Runs(p)
  BY <1>0, TaskActTypes, TaskSays
<1>2. PICK u \in Tasks \cup {NoTask} :
        /\ Becomes(p, u)
        /\ \/ u \in Tasks /\ SameRun(aux[p], u) /\ Onwards(aux[p], u)
           \/ u = NoTask
           \/ /\ aux[p].kind = "custom" /\ u \in Tasks /\ u.kind = "custom" /\ u.gen = aux[p].gen
              /\ u.host = aux[p].host /\ u.named = DeedOf(u) /\ u.at = "begin"
  BY <1>0, TaskGoes
<1>3. aux'[p] = u /\ \A q \in Panels : q # p => aux'[q] = aux[q]
  BY <1>0, <1>2 DEF Becomes, ActTypeOK
<1>4. Runs(p)' => aux'[p].gen = aux[p].gen /\ aux'[p].host = aux[p].host
                  /\ (DeedOf(aux[p]) = aux[p].named => DeedOf(aux'[p]) = aux'[p].named)
  BY <1>2, <1>3 DEF SameRun, Runs, NoTask, DeedOf
<1>5. \A q \in Panels : q # p => (Runs(q)' <=> Runs(q)) /\ (Acts(q)' <=> Acts(q))
  BY <1>3 DEF Runs, Acts
<1>6. NamedInv'
  <2>1. \A q \in Panels : Runs(q)' => DeedOf(aux'[q]) = aux'[q].named
    BY <1>0, <1>1, <1>3, <1>4, <1>5 DEF NamedInv
  <2>2. keys'.confirm # NoConfirm => keys'.confirm.host = panels'[keys'.confirm.panel].host
    BY <1>0, <1>1 DEF NamedInv
  <2> QED
    BY <2>1, <2>2 DEF NamedInv
<1>7. \A i \in 1..Len(ran') : \/ i \in 1..Len(ran) /\ ran'[i] = ran[i]
                              \/ ran' # ran /\ i = Len(ran) + 1 /\ ran'[i] = CommandOf(p)
  <2>1. CASE ran' = ran
    BY <2>1
  <2>2. CASE ran' # ran
    <3>1. ran' = Append(ran, CommandOf(p)) /\ CommandOf(p) \in Commanded /\ ran \in Seq(Commanded)
      BY <1>0, <2>2, HostRan DEF ActTypeOK
    <3> QED
      BY <2>2, <3>1, Queues
  <2> QED
    BY <2>1, <2>2
<1>8. ran' # ran => /\ aux[p] \in Tasks /\ aux[p].kind # "custom" /\ aux[p].at = "drain" /\ ~aux[p].began
                    /\ SameRun(aux[p], aux'[p]) /\ aux'[p].at = "drain" /\ aux'[p].began
                    /\ aux'[p].need = aux[p].need /\ Acts(p) /\ ~aux[p].need
  <2>1. ran' # ran => /\ aux[p] \in Tasks /\ aux[p].kind # "custom" /\ aux[p].at = "drain"
                      /\ ~aux[p].began /\ SameRun(aux[p], aux'[p]) /\ aux'[p].at = "drain"
                      /\ aux'[p].began /\ aux'[p].need = aux[p].need
    BY <1>0, HostRan
  <2> QED
    BY <1>0, <1>1, <2>1 DEF OnceInv, Runs, Acts
<1>9. /\ CommandOf(p).panel = p /\ CommandOf(p).gen = aux[p].gen
      /\ CommandOf(p).did = DeedOf(aux[p]) /\ CommandOf(p).named = aux[p].named
  BY DEF CommandOf
<1>10. GenInv'
  <2>1. \A q \in Panels : Runs(q)' => /\ aux'[q].gen <= panels'[q].gen
                                      /\ aux'[q].gen = panels'[q].gen => aux'[q].host = panels'[q].host
    BY <1>0, <1>1, <1>3, <1>4, <1>5 DEF GenInv
  <2>2. ASSUME NEW i \in 1..Len(ran') PROVE ran'[i].gen <= panels'[ran'[i].panel].gen
    <3>1. CASE i \in 1..Len(ran) /\ ran'[i] = ran[i]
      BY <1>0, <1>1, <3>1 DEF GenInv
    <3>2. CASE ran' # ran /\ i = Len(ran) + 1 /\ ran'[i] = CommandOf(p)
      BY <1>0, <1>1, <1>9, <3>2 DEF GenInv
    <3> QED
      BY <1>7, <3>1, <3>2
  <2> QED
    BY <2>1, <2>2 DEF GenInv
<1>11. ConfirmedRunsOnce'
  <2>1. ASSUME NEW i \in 1..Len(ran') PROVE ran'[i].did = ran'[i].named
    <3>1. CASE i \in 1..Len(ran) /\ ran'[i] = ran[i]
      BY <1>0, <3>1 DEF ConfirmedRunsOnce
    <3>2. CASE ran'[i] = CommandOf(p)
      BY <1>0, <1>1, <1>9, <3>2 DEF NamedInv
    <3> QED
      BY <1>7, <3>1, <3>2
  <2>2. ASSUME NEW i \in 1..Len(ran'), NEW j \in (i + 1)..Len(ran'),
               <<ran'[i].panel, ran'[i].gen>> = <<ran'[j].panel, ran'[j].gen>>
        PROVE  FALSE
    <3>0. Len(ran) \in Nat
      BY <1>0 DEF ActTypeOK
    <3>1. j \in 1..Len(ran') /\ i < j
      OBVIOUS
    <3>2. i \in 1..Len(ran) /\ ran'[i] = ran[i]
      BY <1>7, <3>0, <3>1
    <3>3. CASE j \in 1..Len(ran) /\ ran'[j] = ran[j]
      BY <1>0, <2>2, <3>0, <3>1, <3>2, <3>3 DEF ConfirmedRunsOnce
    <3>4. CASE ran' # ran /\ ran'[j] = CommandOf(p)
      <4>1. Acts(p) /\ ran[i].panel = p /\ ran[i].gen = aux[p].gen /\ aux[p].at = "drain" /\ ~aux[p].began
        BY <1>8, <1>9, <2>2, <3>2, <3>4
      <4> QED
        BY <1>0, <3>2, <4>1 DEF OnceInv
    <3> QED
      BY <1>7, <3>1, <3>3, <3>4
  <2> QED
    BY <2>1, <2>2 DEF ConfirmedRunsOnce
<1>12. OnceInv'
  <2>1. ASSUME NEW q \in Panels, Runs(q)', aux'[q].at = "drain", ~aux'[q].began PROVE ~aux'[q].need
    <3>1. CASE q # p
      BY <1>0, <1>3, <1>5, <2>1, <3>1 DEF OnceInv
    <3>2. CASE q = p
      <4>1. u.at = "drain" /\ ~u.began /\ u # NoTask
        BY <1>3, <2>1, <3>2 DEF Runs, NoTask
      <4>2. Onwards(aux[p], u)
        BY <1>2, <4>1
      <4> QED
        BY <1>0, <1>1, <1>3, <3>2, <4>1, <4>2 DEF OnceInv, Onwards
    <3> QED
      BY <3>1, <3>2
  <2>2. ASSUME NEW q \in Panels, NEW i \in 1..Len(ran'), Acts(q)', ran'[i].panel = q,
               ran'[i].gen = aux'[q].gen
        PROVE  /\ aux'[q].at \in {"drain", "stderr", "done"} /\ ~aux'[q].need
               /\ aux'[q].at = "drain" => aux'[q].began
    <3>1. CASE q # p
      BY <1>0, <1>3, <1>5, <1>7, <1>9, <2>2, <3>1 DEF OnceInv
    <3>2. CASE q = p /\ ran'[i] = ran[i] /\ i \in 1..Len(ran)
      <4>1. u \in Tasks /\ SameRun(aux[p], u) /\ Onwards(aux[p], u)
        BY <1>2, <1>3, <2>2, <3>2 DEF Acts, NoTask
      <4>2. Acts(p) /\ ran[i].panel = p /\ ran[i].gen = aux[p].gen
        BY <1>3, <2>2, <3>2, <4>1 DEF Acts, SameRun
      <4>3. /\ aux[p].at \in {"drain", "stderr", "done"} /\ ~aux[p].need
            /\ aux[p].at = "drain" => aux[p].began
        BY <1>0, <3>2, <4>2 DEF OnceInv
      <4>4. u.at \in {"begin", "spawn", "drain", "stderr", "install", "done"}
        BY <4>1 DEF Tasks
      <4> QED
        BY <1>3, <3>2, <4>1, <4>3, <4>4 DEF Onwards
    <3>3. CASE q = p /\ ran' # ran
      BY <1>8, <3>3
    <3> QED
      BY <1>7, <3>1, <3>2, <3>3
  <2> QED
    BY <2>1, <2>2 DEF OnceInv
<1>13. LinesAreTheHosts'
  BY <1>0, <1>1 DEF LinesAreTheHosts
<1>14. /\ Runs(p)' => aux'[p].gen = aux[p].gen
       /\ aux[p].at = "begin" /\ Runs(p)' => aux'[p].at = "begin" \/ msgs' # msgs
  <2>1. msgs' = msgs => (aux[p].at = "begin" => aux'[p].at = "begin")
        \/ \E what \in Whats : Send(p, what)
    BY <1>0, TaskSays
  <2>2. \A what \in Whats : Send(p, what) => msgs' # msgs
    BY <1>0 DEF Send, ActTypeOK
  <2> QED
    BY <1>4, <2>1, <2>2
<1>15. \A i \in 1..Len(msgs') :
         \/ i \in 1..Len(msgs) /\ msgs'[i] = msgs[i]
         \/ /\ i = Len(msgs) + 1 /\ msgs'[i].panel = p /\ msgs'[i].gen = aux[p].gen
            /\ msgs'[i].host = aux[p].host /\ (msgs'[i].what = "begin" \/ aux[p].at # "begin")
  <2>1. CASE msgs' = msgs
    BY <2>1
  <2>2. ASSUME NEW what \in Whats, Send(p, what), what = "begin" \/ aux[p].at # "begin" PROVE <1>15
    <3> DEFINE m == [panel |-> p, gen |-> aux[p].gen, host |-> aux[p].host, what |-> what]
    <3>1. msgs' = Append(msgs, m) /\ m \in Told /\ msgs \in Seq(Told)
      BY <1>0, <1>1, <2>2, SentTypes DEF ActTypeOK
    <3>2. m.panel = p /\ m.gen = aux[p].gen /\ m.host = aux[p].host /\ m.what = what
      OBVIOUS
    <3> HIDE DEF m
    <3> QED
      BY <2>2, <3>1, <3>2, Queues
  <2> QED
    BY <1>0, <2>1, <2>2, TaskSays
<1>16. /\ \A i \in 1..Len(msgs) : i \in 1..Len(msgs') /\ msgs'[i] = msgs[i]
       /\ msgs' # msgs => Len(msgs) + 1 \in 1..Len(msgs')
       /\ Len(msgs) \in Nat /\ Len(msgs') \in Nat
  <2>1. msgs' = msgs \/ \E m \in Told : msgs' = Append(msgs, m)
    BY <1>0, <1>1, TaskSays, SentTypes
  <2>2. msgs \in Seq(Told) /\ Len(msgs) \in Nat
    BY <1>0 DEF ActTypeOK
  <2> QED
    BY <2>1, <2>2, Queues
<1>17. ToldOfInv'
  <2>0. \A m, q : Current(m, q)' <=> Current(m, q)
    BY <1>1 DEF Current
  <2>1. ASSUME NEW i \in 1..Len(msgs')
        PROVE  /\ Current(msgs'[i], msgs'[i].panel) => msgs'[i].host = panels[msgs'[i].panel].host
               /\ msgs'[i].gen <= panels[msgs'[i].panel].gen
    <3>1. CASE i \in 1..Len(msgs) /\ msgs'[i] = msgs[i]
      BY <1>0, <3>1 DEF ToldOfInv
    <3>2. CASE msgs'[i].panel = p /\ msgs'[i].gen = aux[p].gen /\ msgs'[i].host = aux[p].host
      BY <1>0, <1>1, <3>2 DEF GenInv, Current
    <3> QED
      BY <1>15, <3>1, <3>2
  <2>2. ASSUME NEW q \in Panels, Behind(q), NEW i \in 1..Len(msgs'), Current(msgs'[i], q)
        PROVE  \E j \in 1..i : Current(msgs'[j], q) /\ msgs'[j].what = "begin"
    <3>1. CASE i \in 1..Len(msgs) /\ msgs'[i] = msgs[i]
      <4>1. PICK j \in 1..i : Current(msgs[j], q) /\ msgs[j].what = "begin"
        BY <1>0, <2>2, <3>1 DEF ToldOfInv
      <4>2. msgs'[j] = msgs[j]
        BY <1>16, <3>1, <4>1
      <4> QED
        BY <4>1, <4>2
    <3>2. CASE msgs'[i].what = "begin"
      BY <2>2, <3>2
    <3>3. CASE /\ i = Len(msgs) + 1 /\ msgs'[i].panel = p /\ msgs'[i].gen = aux[p].gen
               /\ aux[p].at # "begin"
      <4>1. q = p /\ aux[p].gen = panels[p].gen
        BY <2>2, <3>3 DEF Current
      <4>2. PICK j \in 1..Len(msgs) : Current(msgs[j], q) /\ msgs[j].what = "begin"
        BY <1>0, <1>1, <2>2, <3>3, <4>1 DEF ToldOfInv
      <4>3. j \in 1..i /\ msgs'[j] = msgs[j]
        BY <1>16, <3>3, <4>2
      <4> QED
        BY <4>2, <4>3
    <3> QED
      BY <1>15, <3>1, <3>2, <3>3
  <2>3. ASSUME NEW q \in Panels, Behind(q), Runs(q)', aux'[q].gen = panels[q].gen,
               aux'[q].at # "begin"
        PROVE  \E j \in 1..Len(msgs') : Current(msgs'[j], q) /\ msgs'[j].what = "begin"
    <3>1. CASE Runs(q) /\ aux[q].gen = panels[q].gen /\ aux[q].at # "begin"
      <4>1. PICK j \in 1..Len(msgs) : Current(msgs[j], q) /\ msgs[j].what = "begin"
        BY <1>0, <2>3, <3>1 DEF ToldOfInv
      <4> QED
        BY <1>16, <4>1
    <3>2. CASE q = p /\ aux[p].at = "begin"
      <4>1. msgs' # msgs /\ aux[p].gen = panels[p].gen
        BY <1>14, <2>3, <3>2
      <4>2. /\ Len(msgs) + 1 \in 1..Len(msgs') /\ msgs'[Len(msgs) + 1].what = "begin"
            /\ Current(msgs'[Len(msgs) + 1], p)
        BY <1>15, <1>16, <3>2, <4>1 DEF Current
      <4> QED
        BY <3>2, <4>2
    <3>3. CASE q # p
      BY <1>3, <1>5, <2>3, <3>1, <3>3
    <3> QED
      BY <1>1, <1>14, <2>3, <3>1, <3>2, <3>3
  <2>4. \A q \in Panels : Behind(q)' <=> Behind(q)
    BY <1>1 DEF Behind
  <2> QED
    BY <1>1, <2>0, <2>1, <2>2, <2>3, <2>4 DEF ToldOfInv
<1> QED
  BY <1>1, <1>6, <1>10, <1>11, <1>12, <1>13, <1>17 DEF ActInv

\* A later task on a panel keeps the invariant: what is known of an earlier one is
\* of an earlier generation.
LEMMA StartKeeps ==
  ASSUME ActInv, NEW p \in Panels, NEW kind \in Kinds \cup {"tail"}, NEW pid \in Pids \cup {0},
         Start(p, kind, pid, Deed(kind, panels[p].host, pid)), keys'.confirm = NoConfirm, ActTypeOK'
  PROVE  ActInv'
<1>0. /\ ActTypeOK /\ NamedInv /\ GenInv /\ OnceInv /\ ToldOfInv /\ ConfirmedRunsOnce
      /\ LinesAreTheHosts /\ panels[p].host \in ActHosts
  BY DEF ActInv, ActTypeOK, Boards
<1>1. /\ panels'[p].gen = panels[p].gen + 1 /\ panels'[p].host = panels[p].host
      /\ panels'[p].view = panels[p].view
      /\ \A q \in Panels : q # p => panels'[q] = panels[q] /\ aux'[q] = aux[q]
      /\ aux'[p].gen = panels'[p].gen /\ aux'[p].host = panels[p].host
      /\ DeedOf(aux'[p]) = aux'[p].named /\ aux'[p].at = "begin"
  <2>1. PICK deed : deed = Deed(kind, panels[p].host, pid)
    OBVIOUS
  <2>2. deed \in Deeds
    BY <1>0, <2>1 DEF Deed, Deeds
  <2> QED
    BY <1>0, <2>1, <2>2, Started DEF DeedOf
<1>2. UNCHANGED <<msgs, agents, faults, ran>>
  BY DEF Start
<1>3. /\ \A q \in Panels : panels[q].gen \in Nat /\ (Runs(q) => aux[q].gen \in Nat)
      /\ \A i \in 1..Len(msgs) : msgs[i].gen \in Nat /\ msgs[i].panel \in Panels
      /\ \A i \in 1..Len(ran) : ran[i].gen \in Nat /\ ran[i].panel \in Panels
  <2>1. \A q \in Panels : panels[q].gen \in Nat
    BY <1>0, ActionsAssumption DEF ActTypeOK, Boards
  <2>2. \A q \in Panels : Runs(q) => aux[q].gen \in Nat
    BY <1>0 DEF ActTypeOK, Tasks, Runs, NoTask
  <2>3. \A i \in 1..Len(msgs) : msgs[i].gen \in Nat /\ msgs[i].panel \in Panels
    <3>1. msgs \in Seq(Told)
      BY <1>0 DEF ActTypeOK
    <3>2. \A i \in 1..Len(msgs) : msgs[i] \in Told
      BY <3>1, Queues
    <3> QED
      BY <3>2 DEF Told
  <2>4. \A i \in 1..Len(ran) : ran[i].gen \in Nat /\ ran[i].panel \in Panels
    <3>1. ran \in Seq(Commanded)
      BY <1>0 DEF ActTypeOK
    <3>2. \A i \in 1..Len(ran) : ran[i] \in Commanded
      BY <3>1, Queues
    <3> QED
      BY <3>2 DEF Commanded
  <2> QED
    BY <2>1, <2>2, <2>3, <2>4
<1>4. \A q \in Panels : q # p => /\ Runs(q)' <=> Runs(q)
                                 /\ Acts(q)' <=> Acts(q)
                                 /\ Behind(q)' <=> Behind(q)
                                 /\ \A m : Current(m, q)' <=> Current(m, q)
  BY <1>1 DEF Runs, Acts, Behind, Current
<1>5. \A i \in 1..Len(msgs) : ~Current(msgs[i], p)'
  BY <1>0, <1>1, <1>2, <1>3 DEF Current, ToldOfInv
<1>6. NamedInv'
  BY <1>0, <1>1, <1>4 DEF NamedInv
<1>7. GenInv'
  <2>1. ASSUME NEW q \in Panels, Runs(q)'
        PROVE  /\ aux'[q].gen <= panels'[q].gen
               /\ aux'[q].gen = panels'[q].gen => aux'[q].host = panels'[q].host
    <3>1. CASE q = p
      BY <1>1, <1>3, <3>1
    <3>2. CASE q # p
      BY <1>0, <1>1, <1>4, <2>1, <3>2 DEF GenInv
    <3> QED
      BY <3>1, <3>2
  <2>2. ASSUME NEW i \in 1..Len(ran) PROVE ran[i].gen <= panels'[ran[i].panel].gen
    BY <1>0, <1>1, <1>3, SMTT(30) DEF GenInv
  <2> QED
    BY <1>2, <2>1, <2>2 DEF GenInv
<1>8. OnceInv'
  <2>1. ASSUME NEW q \in Panels, Runs(q)', aux'[q].at = "drain", ~aux'[q].began PROVE ~aux'[q].need
    BY <1>0, <1>1, <1>4, <2>1 DEF OnceInv
  <2>2. ASSUME NEW q \in Panels, NEW i \in 1..Len(ran), Acts(q)', ran[i].panel = q,
               ran[i].gen = aux'[q].gen
        PROVE  /\ aux'[q].at \in {"drain", "stderr", "done"} /\ ~aux'[q].need
               /\ aux'[q].at = "drain" => aux'[q].began
    <3>1. CASE q = p
      BY <1>0, <1>1, <1>3, <2>2, <3>1 DEF GenInv
    <3>2. CASE q # p
      BY <1>0, <1>1, <1>4, <2>2, <3>2 DEF OnceInv
    <3> QED
      BY <3>1, <3>2
  <2> QED
    BY <1>2, <2>1, <2>2 DEF OnceInv
<1>9. ToldOfInv'
  <2>1. ASSUME NEW i \in 1..Len(msgs)
        PROVE  /\ Current(msgs[i], msgs[i].panel)' => msgs[i].host = panels'[msgs[i].panel].host
               /\ msgs[i].gen <= panels'[msgs[i].panel].gen
    <3>1. CASE msgs[i].panel = p
      BY <1>0, <1>1, <1>2, <1>3, <1>5, <3>1 DEF ToldOfInv, Current
    <3>2. CASE msgs[i].panel # p
      BY <1>0, <1>1, <1>2, <1>3, <1>4, <3>2 DEF ToldOfInv, Current
    <3> QED
      BY <3>1, <3>2
  <2>2. ASSUME NEW q \in Panels, Behind(q)'
        PROVE  /\ \A i \in 1..Len(msgs) : Current(msgs[i], q)' =>
                    \E j \in 1..i : Current(msgs[j], q)' /\ msgs[j].what = "begin"
               /\ Runs(q)' /\ aux'[q].gen = panels'[q].gen /\ aux'[q].at # "begin" =>
                    \E j \in 1..Len(msgs) : Current(msgs[j], q)' /\ msgs[j].what = "begin"
    <3>1. CASE q = p
      BY <1>1, <1>5, <3>1
    <3>2. CASE q # p
      BY <1>0, <1>1, <1>2, <1>4, <2>2, <3>2 DEF ToldOfInv
    <3> QED
      BY <3>1, <3>2
  <2> QED
    BY <1>2, <2>1, <2>2 DEF ToldOfInv
<1>10. ConfirmedRunsOnce'
  BY <1>0, <1>2 DEF ConfirmedRunsOnce
<1>11. LinesAreTheHosts'
  BY <1>0, <1>1 DEF LinesAreTheHosts
<1> QED
  BY <1>6, <1>7, <1>8, <1>9, <1>10, <1>11 DEF ActInv

\* What the keys do to the confirmation keeps the invariant: what is armed is of
\* the host that its panel shows.
LEMMA KeysKeep ==
  ASSUME ActInv, ActTypeOK', UNCHANGED <<panels, aux, msgs, agents, faults, ran>>,
         \/ keys'.confirm \in {keys.confirm, NoConfirm}
         \/ \E p \in Panels : Arm(p)
  PROVE  ActInv'
<1>0. /\ ActTypeOK /\ NamedInv /\ GenInv /\ OnceInv /\ ToldOfInv /\ ConfirmedRunsOnce
      /\ LinesAreTheHosts
  BY DEF ActInv
<1>1. keys'.confirm # NoConfirm => keys'.confirm.host = panels[keys'.confirm.panel].host
  <2>1. CASE keys'.confirm \in {keys.confirm, NoConfirm}
    BY <1>0, <2>1 DEF NamedInv
  <2>2. ASSUME NEW p \in Panels, Arm(p) PROVE <1>1
    <3>1. PICK kind \in Kinds : keys' = [keys EXCEPT !.confirm =
            [kind |-> kind, panel |-> p, pid |-> panels[p].top, host |-> panels[p].host]]
      BY <2>2 DEF Arm
    <3>2. keys'.confirm = [kind |-> kind, panel |-> p, pid |-> panels[p].top, host |-> panels[p].host]
      BY <1>0, <3>1 DEF ActTypeOK
    <3> QED
      BY <3>2
  <2> QED
    BY <2>1, <2>2
<1>2. NamedInv'
  BY <1>0, <1>1 DEF NamedInv, Runs
<1>3. GenInv'
  BY <1>0 DEF GenInv, Runs
<1>4. OnceInv'
  BY <1>0 DEF OnceInv, Runs, Acts
<1>5. ToldOfInv'
  BY <1>0 DEF ToldOfInv, Behind, Current, Runs
<1>6. ConfirmedRunsOnce' /\ LinesAreTheHosts'
  BY <1>0 DEF ConfirmedRunsOnce, LinesAreTheHosts
<1> QED
  BY <1>2, <1>3, <1>4, <1>5, <1>6 DEF ActInv

\* A frame of the monitor takes the pane of its panel, and tells of no task.
LEMMA PacketKeeps ==
  ASSUME ActInv, ActTypeOK', NEW p \in Panels, Packet(p)
  PROVE  ActInv'
<1>0. /\ ActTypeOK /\ NamedInv /\ GenInv /\ OnceInv /\ ToldOfInv /\ ConfirmedRunsOnce
      /\ LinesAreTheHosts /\ UNCHANGED <<keys, aux, msgs, agents, faults, ran>>
  BY DEF ActInv, Packet
<1>1. /\ \A q \in Panels : panels'[q].host = panels[q].host /\ panels'[q].gen = panels[q].gen
      /\ \A q \in Panels : q # p => panels'[q] = panels[q]
      /\ panels'[p].view = <<>>
  BY <1>0 DEF Packet, ActTypeOK, Boards
<1>2. NamedInv'
  <2>1. keys.confirm # NoConfirm => keys.confirm.panel \in Panels
    BY <1>0 DEF ActTypeOK, Confirms
  <2> QED
    BY <1>0, <1>1, <2>1 DEF NamedInv, Runs
<1>3. GenInv'
  <2>1. \A i \in 1..Len(ran) : ran[i].panel \in Panels
    <3>1. ran \in Seq(Commanded)
      BY <1>0 DEF ActTypeOK
    <3>2. \A i \in 1..Len(ran) : ran[i] \in Commanded
      BY <3>1, Queues
    <3> QED
      BY <3>2 DEF Commanded
  <2> QED
    BY <1>0, <1>1, <2>1 DEF GenInv, Runs
<1>4. OnceInv'
  BY <1>0 DEF OnceInv, Runs, Acts
<1>5. ToldOfInv'
  <2>1. \A i \in 1..Len(msgs) : msgs[i].panel \in Panels
    <3>1. msgs \in Seq(Told)
      BY <1>0 DEF ActTypeOK
    <3>2. \A i \in 1..Len(msgs) : msgs[i] \in Told
      BY <3>1, Queues
    <3> QED
      BY <3>2 DEF Told
  <2>2. \A q \in Panels : \A m : Current(m, q)' <=> Current(m, q)
    BY <1>1 DEF Current
  <2>3. \A q \in Panels : Behind(q)' => Behind(q)
    BY <1>1 DEF Behind
  <2>4. \A q \in Panels : Runs(q)' <=> Runs(q)
    BY <1>0 DEF Runs
  <2>5. \A i \in 1..Len(msgs) :
          /\ Current(msgs[i], msgs[i].panel)' => msgs[i].host = panels'[msgs[i].panel].host
          /\ msgs[i].gen <= panels'[msgs[i].panel].gen
    BY <1>0, <1>1, <2>1 DEF ToldOfInv, Current
  <2>6. ASSUME NEW q \in Panels, Behind(q)'
        PROVE  /\ \A i \in 1..Len(msgs) : Current(msgs[i], q) =>
                    \E j \in 1..i : Current(msgs[j], q) /\ msgs[j].what = "begin"
               /\ Runs(q) /\ aux[q].gen = panels'[q].gen /\ aux[q].at # "begin" =>
                    \E j \in 1..Len(msgs) : Current(msgs[j], q) /\ msgs[j].what = "begin"
    BY <1>0, <1>1, <2>3, <2>6 DEF ToldOfInv
  <2> QED
    BY <1>0, <2>2, <2>4, <2>5, <2>6 DEF ToldOfInv
<1>6. ConfirmedRunsOnce'
  BY <1>0 DEF ConfirmedRunsOnce
<1>7. LinesAreTheHosts'
  BY <1>0, <1>1 DEF LinesAreTheHosts
<1> QED
  BY <1>2, <1>3, <1>4, <1>5, <1>6, <1>7 DEF ActInv

\* The panels of a new list are later than what is under way for the old ones.
LEMMA EditKeeps ==
  ASSUME ActInv, ActTypeOK', EditServers
  PROVE  ActInv'
<1>0. /\ ActTypeOK /\ NamedInv /\ GenInv /\ OnceInv /\ ToldOfInv /\ ConfirmedRunsOnce
      /\ keys.confirm = NoConfirm /\ UNCHANGED <<keys, aux, msgs, agents, faults, ran>>
  BY DEF ActInv, EditServers, MayEdit
<1>1. \A q \in Panels : panels'[q].view = <<>> /\ panels'[q].gen > panels[q].gen
  BY <1>0, NewIsLater DEF EditServers
<1>2. \A q \in Panels : panels[q].gen \in Nat /\ panels'[q].gen \in Nat
                        /\ (Runs(q) => aux[q].gen \in Nat)
  <2>1. \A q \in Panels : panels[q].gen \in Nat /\ panels'[q].gen \in Nat
    BY <1>0, ActionsAssumption DEF ActTypeOK, Boards
  <2>2. \A q \in Panels : Runs(q) => aux[q].gen \in Nat
    BY <1>0 DEF ActTypeOK, Tasks, Runs, NoTask
  <2> QED
    BY <2>1, <2>2
<1>3. \A i \in 1..Len(msgs) : msgs[i].panel \in Panels /\ msgs[i].gen \in Nat
  <2>1. msgs \in Seq(Told)
    BY <1>0 DEF ActTypeOK
  <2>2. \A i \in 1..Len(msgs) : msgs[i] \in Told
    BY <2>1, Queues
  <2> QED
    BY <2>2 DEF Told
<1>4. \A i \in 1..Len(ran) : ran[i].panel \in Panels /\ ran[i].gen \in Nat
  <2>1. ran \in Seq(Commanded)
    BY <1>0 DEF ActTypeOK
  <2>2. \A i \in 1..Len(ran) : ran[i] \in Commanded
    BY <2>1, Queues
  <2> QED
    BY <2>2 DEF Commanded
<1>5. NamedInv'
  BY <1>0 DEF NamedInv, Runs
<1>6. GenInv'
  <2>1. \A q \in Panels : Runs(q)' => aux'[q].gen < panels'[q].gen
    BY <1>0, <1>1, <1>2 DEF GenInv, Runs
  <2>2. \A i \in 1..Len(ran) : ran[i].gen < panels'[ran[i].panel].gen
    BY <1>0, <1>1, <1>2, <1>4 DEF GenInv
  <2>3. \A q \in Panels : Runs(q)' => aux'[q].gen \in Nat
    BY <1>0, <1>2 DEF Runs
  <2> QED
    BY <1>0, <1>2, <1>4, <2>1, <2>2, <2>3 DEF GenInv
<1>7. OnceInv'
  BY <1>0 DEF OnceInv, Runs, Acts
<1>8. ToldOfInv'
  <2>1. \A i \in 1..Len(msgs) : /\ msgs[i].gen <= panels'[msgs[i].panel].gen
                                /\ ~Current(msgs[i], msgs[i].panel)'
    BY <1>0, <1>1, <1>2, <1>3 DEF ToldOfInv, Current
  <2>2. \A q \in Panels : ~Behind(q)'
    BY <1>1 DEF Behind
  <2> QED
    BY <1>0, <2>1, <2>2 DEF ToldOfInv
<1>9. ConfirmedRunsOnce'
  BY <1>0 DEF ConfirmedRunsOnce
<1>10. LinesAreTheHosts'
  BY <1>1 DEF LinesAreTheHosts
<1> QED
  BY <1>5, <1>6, <1>7, <1>8, <1>9, <1>10 DEF ActInv

\* The message at the head goes into the pane of its panel, if it is for the panel
\* as it is now; what the pane then shows is of the panel's host and generation.
LEMMA Applied ==
  ASSUME ActInv, Apply
  PROVE  LET m == msgs[1]
         IN /\ m \in Told /\ Len(msgs) >= 1 /\ msgs' = Tail(msgs)
            /\ UNCHANGED <<keys, aux, agents, faults, ran>>
            /\ \A q \in Panels : panels'[q].host = panels[q].host /\ panels'[q].gen = panels[q].gen
            /\ \A q \in Panels : ~Current(m, q) => panels'[q] = panels[q]
            /\ \A q \in Panels : Current(m, q) =>
                 \A i \in 1..Len(panels'[q].view) : /\ panels'[q].view[i].host = panels[q].host
                                                    /\ panels'[q].view[i].gen = panels[q].gen
<1> DEFINE m == msgs[1]
<1>0. /\ ActTypeOK /\ ToldOfInv /\ LinesAreTheHosts
      /\ msgs \in Seq(Told) /\ msgs # <<>> /\ msgs' = Tail(msgs)
      /\ UNCHANGED <<keys, aux, agents, faults, ran>>
      /\ panels \in [Panels -> Boards] /\ MaxWire \in Nat /\ Len(msgs) <= MaxWire
  BY ActionsAssumption DEF ActInv, ActTypeOK, Apply
<1>1. Head(msgs) = m /\ m \in Told /\ Len(msgs) >= 1 /\ 1 \in 1..Len(msgs) /\ MaxWire >= 1
  BY <1>0, Queues
<1>2. m.panel \in Panels
  BY <1>1 DEF Told
<1>3. PICK entry : entry = [host |-> m.host, gen |-> m.gen, what |-> m.what]
  OBVIOUS
<1>4. IF panels[m.panel].gen # m.gen THEN panels' = panels
      ELSE \/ panels' = [panels EXCEPT ![m.panel] = [panels[m.panel] EXCEPT !.view = <<entry>>]]
           \/ /\ m.what # "begin"
              /\ panels' = [panels EXCEPT ![m.panel] =
                              [panels[m.panel] EXCEPT !.view = Append(panels[m.panel].view, entry)]]
           \/ /\ m.what # "begin" /\ Len(panels[m.panel].view) >= MaxWire
              /\ panels' = [panels EXCEPT ![m.panel] =
                              [panels[m.panel] EXCEPT !.view = Append(Tail(panels[m.panel].view), entry)]]
  <2>1. panels[m.panel].view \in Seq(Entries)
    BY <1>0, <1>2 DEF Boards
  <2>2. Len(panels[m.panel].view) \in Nat
    BY <2>1
  <2>3. panels' = IF panels[m.panel].gen # m.gen THEN panels
                  ELSE [panels EXCEPT ![m.panel].view =
                          IF m.what = "begin" THEN <<entry>>
                          ELSE IF Len(@) < MaxWire THEN Append(@, entry) ELSE Append(Tail(@), entry)]
    BY <1>1, <1>3 DEF Apply
  <2>4. \A v : [panels EXCEPT ![m.panel].view = v] =
              [panels EXCEPT ![m.panel] = [panels[m.panel] EXCEPT !.view = v]]
    OBVIOUS
  <2>5. CASE m.what = "begin"
    BY <2>3, <2>4, <2>5
  <2>6. CASE m.what # "begin" /\ Len(panels[m.panel].view) < MaxWire
    BY <2>3, <2>4, <2>6
  <2>7. CASE m.what # "begin" /\ Len(panels[m.panel].view) >= MaxWire
    BY <1>0, <2>2, <2>3, <2>4, <2>7
  <2> QED
    BY <1>0, <2>2, <2>5, <2>6, <2>7
<1> HIDE DEF m
<1>5. CASE panels[m.panel].gen # m.gen
  BY <1>0, <1>1, <1>4, <1>5 DEF m, Current
<1>6. CASE panels[m.panel].gen = m.gen
  <2> DEFINE b == panels[m.panel]
  <2>1. Current(m, m.panel) /\ (\A q \in Panels : Current(m, q) => q = m.panel)
    BY <1>6 DEF Current
  <2>2. entry.host = b.host /\ entry.gen = b.gen
    BY <1>0, <1>1, <1>3, <1>6, <2>1 DEF ToldOfInv, m
  <2>3. b \in Boards /\ b.view \in Seq(Entries) /\ entry \in Entries
    BY <1>0, <1>1, <1>2, <1>3 DEF Boards, Told, Entries
  <2>4. m.what # "begin" => \A i \in 1..Len(b.view) : b.view[i].host = b.host /\ b.view[i].gen = b.gen
    <3>1. m.what # "begin" => ~Behind(m.panel)
      <4>1. Behind(m.panel) => \E j \in 1..1 : Current(msgs[j], m.panel) /\ msgs[j].what = "begin"
        BY <1>0, <1>1, <1>2, <2>1 DEF ToldOfInv, m
      <4> QED
        BY <4>1 DEF m
    <3>2. b.view # <<>> => Len(b.view) >= 1
      BY <2>3
    <3> QED
      BY <1>0, <1>2, <3>1, <3>2 DEF LinesAreTheHosts, Behind
  <2>5. PICK v : /\ panels' = [panels EXCEPT ![m.panel] = [b EXCEPT !.view = v]]
                 /\ \A i \in 1..Len(v) : v[i].host = b.host /\ v[i].gen = b.gen
    <3> HIDE DEF b
    <3>1. \A i \in 1..Len(<<entry>>) : <<entry>>[i].host = b.host /\ <<entry>>[i].gen = b.gen
      BY <2>2
    <3>2. m.what # "begin" => \A i \in 1..Len(Append(b.view, entry)) :
            Append(b.view, entry)[i].host = b.host /\ Append(b.view, entry)[i].gen = b.gen
      BY <2>2, <2>3, <2>4
    <3>3. m.what # "begin" /\ Len(b.view) >= MaxWire => \A i \in 1..Len(Append(Tail(b.view), entry)) :
            /\ Append(Tail(b.view), entry)[i].host = b.host
            /\ Append(Tail(b.view), entry)[i].gen = b.gen
      <4> SUFFICES ASSUME m.what # "begin", Len(b.view) >= MaxWire
                   PROVE  \A i \in 1..Len(Append(Tail(b.view), entry)) :
                            /\ Append(Tail(b.view), entry)[i].host = b.host
                            /\ Append(Tail(b.view), entry)[i].gen = b.gen
        OBVIOUS
      <4>1. b.view # <<>>
        BY <1>0, <1>1, <2>3
      <4>2. /\ Tail(b.view) \in Seq(Entries) /\ Len(Tail(b.view)) = Len(b.view) - 1
            /\ Len(b.view) \in Nat
            /\ \A i \in 1..Len(Tail(b.view)) : Tail(b.view)[i] = b.view[i + 1]
        BY <2>3, <4>1, Queues
      <4>3. \A i \in 1..Len(Tail(b.view)) : Tail(b.view)[i].host = b.host /\ Tail(b.view)[i].gen = b.gen
        BY <2>4, <4>2
      <4> QED
        BY <2>2, <2>3, <4>2, <4>3
    <3> QED
      BY <1>4, <1>6, <3>1, <3>2, <3>3 DEF b
  <2>6. panels'[m.panel] = [b EXCEPT !.view = v] /\ \A q \in Panels : q # m.panel => panels'[q] = panels[q]
    BY <1>0, <1>2, <2>5
  <2>7. panels'[m.panel].host = b.host /\ panels'[m.panel].gen = b.gen /\ panels'[m.panel].view = v
    BY <2>3, <2>6 DEF Boards
  <2> QED
    BY <1>0, <1>1, <2>1, <2>5, <2>6, <2>7 DEF m
<1> QED
  BY <1>5, <1>6

\* To apply a message keeps the invariant: the pane of a panel is its successor's
\* no sooner than it is told that the successor begins.
LEMMA ApplyKeeps ==
  ASSUME ActInv, ActTypeOK', Apply
  PROVE  ActInv'
<1> DEFINE m == msgs[1]
<1>0. /\ ActTypeOK /\ NamedInv /\ GenInv /\ OnceInv /\ ToldOfInv /\ ConfirmedRunsOnce
      /\ LinesAreTheHosts /\ msgs \in Seq(Told)
  BY DEF ActInv, ActTypeOK
<1>1. /\ m \in Told /\ Len(msgs) >= 1 /\ msgs' = Tail(msgs)
      /\ UNCHANGED <<keys, aux, agents, faults, ran>>
      /\ \A q \in Panels : panels'[q].host = panels[q].host /\ panels'[q].gen = panels[q].gen
      /\ \A q \in Panels : ~Current(m, q) => panels'[q] = panels[q]
      /\ \A q \in Panels : Current(m, q) =>
           \A i \in 1..Len(panels'[q].view) : /\ panels'[q].view[i].host = panels[q].host
                                              /\ panels'[q].view[i].gen = panels[q].gen
  BY Applied
<1> HIDE DEF m
<1>2. NamedInv'
  <2>1. keys.confirm # NoConfirm => keys.confirm.panel \in Panels
    BY <1>0 DEF ActTypeOK, Confirms
  <2> QED
    BY <1>0, <1>1, <2>1 DEF NamedInv, Runs
<1>3. GenInv'
  <2>1. \A i \in 1..Len(ran) : ran[i].panel \in Panels
    <3>1. ran \in Seq(Commanded)
      BY <1>0 DEF ActTypeOK
    <3>2. \A i \in 1..Len(ran) : ran[i] \in Commanded
      BY <3>1, Queues
    <3> QED
      BY <3>2 DEF Commanded
  <2> QED
    BY <1>0, <1>1, <2>1 DEF GenInv, Runs
<1>4. OnceInv'
  BY <1>0, <1>1 DEF OnceInv, Runs, Acts
<1>5. /\ Len(msgs') = Len(msgs) - 1 /\ Len(msgs) \in Nat
      /\ \A i \in 1..Len(msgs') : i + 1 \in 2..Len(msgs) /\ msgs'[i] = msgs[i + 1]
      /\ \A i \in 2..Len(msgs) : i - 1 \in 1..Len(msgs') /\ msgs'[i - 1] = msgs[i]
      /\ \A i \in 1..Len(msgs) : msgs[i].panel \in Panels
  <2>1. msgs # <<>>
    BY <1>0, <1>1
  <2>2. /\ Len(msgs) \in Nat /\ Len(Tail(msgs)) = Len(msgs) - 1
        /\ \A i \in 1..Len(Tail(msgs)) : Tail(msgs)[i] = msgs[i + 1]
        /\ \A i \in 1..Len(msgs) : msgs[i] \in Told
    BY <1>0, <2>1, Queues
  <2>3. \A i \in 2..Len(msgs) : i - 1 \in 1..Len(Tail(msgs)) /\ Tail(msgs)[i - 1] = msgs[i]
    BY <2>2
  <2> QED
    BY <1>1, <2>2, <2>3 DEF Told
<1>6. \A q \in Panels : Behind(q)' => Behind(q) /\ ~Current(m, q)
  BY <1>1 DEF Behind
<1>7. ToldOfInv'
  <2>1. \A i \in 1..Len(msgs') :
          /\ Current(msgs'[i], msgs'[i].panel) => msgs'[i].host = panels'[msgs'[i].panel].host
          /\ msgs'[i].gen <= panels'[msgs'[i].panel].gen
    BY <1>0, <1>1, <1>5 DEF ToldOfInv
  <2>2. ASSUME NEW q \in Panels, Behind(q)', NEW i \in 1..Len(msgs), Current(msgs[i], q),
               \E j \in 1..i : Current(msgs[j], q) /\ msgs[j].what = "begin"
        PROVE  \E j \in 1..(i - 1) : Current(msgs'[j], q) /\ msgs'[j].what = "begin"
    <3>1. PICK j \in 1..i : Current(msgs[j], q) /\ msgs[j].what = "begin"
      BY <2>2
    <3>2. j # 1
      BY <1>6, <2>2, <3>1 DEF m
    <3>3. j \in 2..Len(msgs) /\ j - 1 \in 1..(i - 1)
      BY <1>5, <3>2
    <3>4. msgs'[j - 1] = msgs[j]
      BY <1>5, <3>3
    <3> QED
      BY <3>1, <3>3, <3>4
  <2>3. ASSUME NEW q \in Panels, Behind(q)', NEW i \in 1..Len(msgs'), Current(msgs'[i], q)
        PROVE  \E j \in 1..i : Current(msgs'[j], q) /\ msgs'[j].what = "begin"
    <3>1. i + 1 \in 1..Len(msgs) /\ Current(msgs[i + 1], q)
      BY <1>5, <2>3
    <3>2. \E j \in 1..(i + 1) : Current(msgs[j], q) /\ msgs[j].what = "begin"
      BY <1>0, <1>6, <2>3, <3>1 DEF ToldOfInv
    <3>3. \E j \in 1..(i + 1 - 1) : Current(msgs'[j], q) /\ msgs'[j].what = "begin"
      BY <2>2, <2>3, <3>1, <3>2
    <3> QED
      BY <3>3
  <2>4. ASSUME NEW q \in Panels, Behind(q)', Runs(q), aux[q].gen = panels'[q].gen, aux[q].at # "begin"
        PROVE  \E j \in 1..Len(msgs') : Current(msgs'[j], q) /\ msgs'[j].what = "begin"
    <3>1. PICK i \in 1..Len(msgs) : Current(msgs[i], q) /\ msgs[i].what = "begin"
      BY <1>0, <1>1, <1>6, <2>4 DEF ToldOfInv
    <3>2. i # 1
      BY <1>6, <2>4, <3>1 DEF m
    <3>3. i - 1 \in 1..Len(msgs') /\ msgs'[i - 1] = msgs[i]
      BY <1>5, <3>2
    <3> QED
      BY <3>1, <3>3
  <2>5. \A q \in Panels : Runs(q)' <=> Runs(q)
    BY <1>1 DEF Runs
  <2>6. ASSUME NEW i \in 1..Len(msgs') PROVE msgs'[i].panel \in Panels
    <3>1. i + 1 \in 1..Len(msgs) /\ msgs'[i] = msgs[i + 1]
      BY <1>5
    <3> QED
      BY <1>5, <3>1
  <2> QED
    <3>1. \A q \in Panels : \A x : Current(x, q) <=> x.panel = q /\ x.gen = panels'[q].gen
      <4>1. \A q \in Panels : panels'[q].gen = panels[q].gen
        BY <1>1
      <4> QED
        BY <4>1 DEF Current
    <3>2. \A i \in 1..Len(msgs') :
            /\ Current(msgs[i], msgs[i].panel)' => msgs'[i].host = panels'[msgs'[i].panel].host
            /\ msgs'[i].gen <= panels'[msgs'[i].panel].gen
      BY <2>1, <2>6, <3>1 DEF Current
    <3>3. ASSUME NEW q \in Panels, Behind(q)'
          PROVE  /\ \A i \in 1..Len(msgs') : Current(msgs[i], q)' =>
                      \E j \in 1..i : Current(msgs[j], q)' /\ msgs'[j].what = "begin"
                 /\ Runs(q)' /\ aux'[q].gen = panels'[q].gen /\ aux'[q].at # "begin" =>
                      \E j \in 1..Len(msgs') : Current(msgs[j], q)' /\ msgs'[j].what = "begin"
      <4>1. \A i : Current(msgs[i], q)' <=> Current(msgs'[i], q)
        BY <3>1 DEF Current
      <4>2. \A i \in 1..Len(msgs') : Current(msgs'[i], q) =>
              \E j \in 1..i : Current(msgs'[j], q) /\ msgs'[j].what = "begin"
        BY <2>3, <3>3
      <4>3. Runs(q)' /\ aux'[q].gen = panels'[q].gen /\ aux'[q].at # "begin" =>
              \E j \in 1..Len(msgs') : Current(msgs'[j], q) /\ msgs'[j].what = "begin"
        <5>1. aux' = aux
          BY <1>1
        <5> QED
          BY <2>4, <2>5, <3>3, <5>1
      <4> QED
        BY <4>1, <4>2, <4>3
    <3> QED
      BY <3>2, <3>3 DEF ToldOfInv
<1>8. ConfirmedRunsOnce'
  BY <1>0, <1>1 DEF ConfirmedRunsOnce
<1>9. LinesAreTheHosts'
  <2>1. ASSUME NEW q \in Panels, Current(m, q), NEW i \in 1..Len(panels'[q].view)
        PROVE  /\ panels'[q].view[i].host = panels'[q].host
               /\ panels'[q].view[i].gen = panels'[q].view[1].gen
    <3>1. panels'[q].view \in Seq(Entries)
      BY DEF ActTypeOK, Boards
    <3>2. 1 \in 1..Len(panels'[q].view)
      BY <3>1
    <3> QED
      BY <1>1, <2>1, <3>2
  <2> QED
    BY <1>0, <1>1, <2>1 DEF LinesAreTheHosts
<1> QED
  BY <1>2, <1>3, <1>4, <1>7, <1>8, <1>9 DEF ActInv

\* Everything above holds of every behaviour: what a task may still run, and what
\* is told of it, is bound to its panel, its host and its generation
\* (tasks/kill.rs, app/apply.rs, run/confirm_keys.rs).
THEOREM ActInvariant == ActSpec => []ActInv
<1>1. ActInit => ActInv
  <2> SUFFICES ASSUME ActInit PROVE ActInv
    OBVIOUS
  <2>1. PICK custom \in SUBSET Panels :
          /\ panels = [p \in Panels |-> [host |-> FirstHost[p], gen |-> 0, top |-> 0, view |-> <<>>,
                                         custom |-> p \in custom]]
          /\ aux = [p \in Panels |-> IF p \in custom
                                     THEN NewTask("custom", 0, FirstHost[p], 0,
                                                  Deed("custom", FirstHost[p], 0))
                                     ELSE NoTask]
    BY DEF ActInit
  <2>2. keys = [at |-> "grid", confirm |-> NoConfirm] /\ msgs = <<>> /\ agents = {} /\ faults = 0 /\ ran = <<>>
    BY DEF ActInit
  <2>3. MaxGen \in Nat /\ MaxWire \in Nat /\ \A p \in Panels : FirstHost[p] \in ActHosts
    BY ActionsAssumption
  <2>4. panels \in [Panels -> Boards]
    BY <2>1, <2>3 DEF Boards
  <2>5. \A p \in Panels :
          NewTask("custom", 0, FirstHost[p], 0, Deed("custom", FirstHost[p], 0)) \in Tasks
    <3> SUFFICES ASSUME NEW p \in Panels
                 PROVE  NewTask("custom", 0, FirstHost[p], 0, Deed("custom", FirstHost[p], 0)) \in Tasks
      OBVIOUS
    <3>1. PICK deed : deed = Deed("custom", FirstHost[p], 0)
      OBVIOUS
    <3>2. deed \in Deeds
      BY <2>3, <3>1 DEF Deed, Deeds
    <3> QED
      BY <2>3, <3>1, <3>2 DEF NewTask, Tasks, Notes
  <2>6. aux \in [Panels -> Tasks \cup {NoTask}]
    BY <2>1, <2>5
  <2>7. ActTypeOK
    BY <2>2, <2>3, <2>4, <2>6 DEF ActTypeOK
  <2>8. \A p \in Panels : /\ panels[p].view = <<>> /\ panels[p].gen = 0 /\ panels[p].host = FirstHost[p]
                          /\ Runs(p) => /\ aux[p].gen = 0 /\ aux[p].host = FirstHost[p]
                                        /\ DeedOf(aux[p]) = aux[p].named /\ aux[p].at = "begin"
    BY <2>1 DEF Runs, NewTask, NoTask, DeedOf
  <2>9. NamedInv /\ GenInv
    BY <2>2, <2>8 DEF NamedInv, GenInv
  <2>10. OnceInv /\ ConfirmedRunsOnce
    BY <2>2, <2>8 DEF OnceInv, ConfirmedRunsOnce
  <2>11. ToldOfInv /\ LinesAreTheHosts
    BY <2>2, <2>8 DEF ToldOfInv, LinesAreTheHosts, Behind
  <2> QED
    BY <2>7, <2>9, <2>10, <2>11 DEF ActInv
<1>2. ActInv /\ [ActNext]_actVars => ActInv'
  <2> SUFFICES ASSUME ActInv, [ActNext]_actVars PROVE ActInv'
    OBVIOUS
  <2>0. ActTypeOK
    BY DEF ActInv
  <2>1. ASSUME NEW p \in Panels,
               TaskSteps(p) \/ SpawnFails(p) \/ HostRuns(p) \/ LinkBreaks(p) \/ SshGivesUp(p)
        PROVE  ActInv'
    BY <2>1, TaskStepKeeps
  <2>2. ASSUME NEW p \in Panels, Packet(p) PROVE ActInv'
    BY <2>0, <2>2, AppActTypes, PacketKeeps
  <2>3. ASSUME NEW p \in Panels, Arm(p) PROVE ActInv'
    <3>1. UNCHANGED <<panels, aux, msgs, agents, faults, ran>>
      BY <2>3 DEF Arm
    <3> QED
      BY <2>0, <2>3, <3>1, AppActTypes, KeysKeep
  <2>4. ASSUME NEW p \in Panels, TailLog(p) PROVE ActInv'
    <3>1. Start(p, "tail", 0, Deed("tail", panels[p].host, 0)) /\ keys'.confirm = NoConfirm
      BY <2>4 DEF TailLog, Free
    <3>2. ActTypeOK'
      BY <2>0, <2>4, AppActTypes
    <3> QED
      BY <3>1, <3>2, StartKeeps
  <2>5. CASE ConfirmAct
    <3>1. PICK c : /\ c = keys.confirm /\ Start(c.panel, c.kind, c.pid, Deed(c.kind, c.host, c.pid))
                   /\ c.panel \in Panels /\ c.kind \in Kinds /\ c.pid \in Pids
      BY <2>0, <2>5, Confirmed
    <3>2. c.host = panels[c.panel].host
      BY <2>5, <3>1 DEF ConfirmAct, ActInv, NamedInv
    <3>3. keys'.confirm = NoConfirm
      BY <2>0, <2>5 DEF ConfirmAct, ActTypeOK
    <3>4. ActTypeOK'
      BY <2>0, <2>5, AppActTypes
    <3> QED
      BY <3>1, <3>2, <3>3, <3>4, StartKeeps
  <2>6. CASE StandDown
    <3>1. UNCHANGED <<panels, aux, msgs, agents, faults, ran>> /\ keys'.confirm = NoConfirm
      BY <2>0, <2>6 DEF StandDown, ActTypeOK
    <3> QED
      BY <2>0, <2>6, <3>1, AppActTypes, KeysKeep
  <2>7. CASE Overlay
    <3>1. UNCHANGED <<panels, aux, msgs, agents, faults, ran>> /\ keys'.confirm = keys.confirm
      BY <2>0, <2>7 DEF Overlay, ActTypeOK
    <3> QED
      BY <2>0, <2>7, <3>1, AppActTypes, KeysKeep
  <2>8. CASE EditServers
    BY <2>0, <2>8, AppActTypes, EditKeeps
  <2>9. CASE Apply
    BY <2>0, <2>9, AppActTypes, ApplyKeeps
  <2>10. CASE UNCHANGED actVars
    <3>1. UNCHANGED <<panels, aux, msgs, agents, faults, ran>> /\ keys' = keys
      BY <2>10 DEF actVars
    <3>2. ActTypeOK'
      BY <2>0, <3>1 DEF ActTypeOK
    <3> QED
      BY <3>1, <3>2, KeysKeep
  <2> QED
    BY <2>1, <2>2, <2>3, <2>4, <2>5, <2>6, <2>7, <2>8, <2>9, <2>10 DEF ActNext
<1> QED
  BY <1>1, <1>2, PTL DEF ActSpec

\* The variables of the actions keep their types, and the channel and the panes
\* their bounds (app/apply.rs, tasks/exec_runner.rs).
THEOREM ActTypeCorrect == ActSpec => []ActTypeOK
<1>1. ActInv => ActTypeOK
  BY DEF ActInv
<1> QED
  BY <1>1, ActInvariant, PTL

\* However the server list is edited, the keys are taken by other screens and the
\* attempts go, a host runs the action that a confirmation named, on the host and
\* the process that were named when it was armed, and at most once
\* (run/confirm_keys.rs, exec_runner.rs).
THEOREM ActionsRunOnce == ActSpec => []ConfirmedRunsOnce
<1>1. ActInv => ConfirmedRunsOnce
  BY DEF ActInv
<1> QED
  BY <1>1, ActInvariant, PTL

\* The lines of a pane are of the panel's host and of one run there, also when the
\* tasks of an earlier run or an earlier list still tell of theirs
\* (app/apply.rs, views.rs:51-57).
THEOREM PaneLinesAreTheHosts == ActSpec => []LinesAreTheHosts
<1>1. ActInv => LinesAreTheHosts
  BY DEF ActInv
<1> QED
  BY <1>1, ActInvariant, PTL

---------------------------------------------------------------------------
\* The polls of the Ops view.  A reading is an answer that was not cut short, and
\* is read at one of two rates: the one its cadence asks for, or the fallback.
Readings ==
  [age : Nat, rate : Nat, sampled : Nat, content : {"whole", "gap"}, gap : Nat] \cup {Nothing}
ReadingOf(h) ==
  {a \in Readings :
     a # Nothing => a.rate = RateFor(Cadence[h]) \/ (a.content = "gap" /\ a.rate = Fallback)}

\* The values of the polls' variables.
PollsTypeOK ==
  /\ kept \in [Hosts -> Readings]
  /\ view \in [pc : {"off", "sleep", "look", "open", "ask", "write", "rename"}, t : Nat,
               session : BOOLEAN, shown : Int, draft : Readings, took : 0..MaxTook]
  /\ opsScreen \in [says : {"asking", "ready", "failed"}, answer : Readings]
  /\ ops \in [pc : {"pass", "ask", "write", "rename", "wait"}, i : 1..Len(OpsHosts) + 1,
              t : Nat, spent : Nat, draft : Readings]
  /\ missed \in [Hosts -> BOOLEAN]
  /\ pollFaults \in Nat

\* What is kept of a host, and what is about to be, is of that host.
KeptIsOfItsHost == \A h \in Hosts : kept[h] \in ReadingOf(h)

\* The view writes what it gathered while it asked.
ViewInv ==
  /\ view.draft \in ReadingOf(Watched)
  /\ view.pc \in {"write", "rename"} => view.draft # Nothing /\ view.draft.age <= MaxTook

\* So does the pass, and it has asked each host for no longer than it may; the
\* wait between two passes is no longer than any host allows.
AgentInv ==
  /\ ops.pc \in {"ask", "write", "rename"} =>
       ops.i <= Len(OpsHosts) /\ ops.draft \in ReadingOf(Host)
  /\ ops.pc = "pass" => ops.spent <= (ops.i - 1) * MaxTook
  /\ ops.pc = "ask" => ops.spent + ops.t <= ops.i * MaxTook
  /\ ops.pc \in {"write", "rename"} =>
       /\ ops.draft # Nothing /\ ops.draft.age <= ops.spent
       /\ ops.spent <= ops.i * MaxTook
  /\ ops.pc = "wait" =>
       /\ ops.i = 1 /\ ops.spent = 0
       /\ \A h \in Hosts : ops.t <= UnreadTickBy(h)

\* Whether the pass has been at a host.
Passed(h) == \E j \in 1..ops.i - 1 : OpsHosts[j] = h

\* With timely passes an answer is no older than its host's cadence, nor will it
\* be when the wait is over; one that a pass has been at is younger still.
InTime ==
  TimelyPasses => \A h \in Hosts : kept[h].content = "whole" /\ ~missed[h] =>
    /\ ops.pc = "wait" => kept[h].age + ops.t <= Cadence[h]
    /\ ops.pc # "wait" => AgeAtStart(kept[h]) <= Cadence[h]
    /\ ops.pc # "wait" /\ Passed(h) => AgeAtStart(kept[h]) <= LeftBy(h)

PollsInv == PollsTypeOK /\ KeptIsOfItsHost /\ ViewInv /\ AgentInv /\ InTime

---------------------------------------------------------------------------
\* The constants, of one host.
LEMMA PollConstants ==
  /\ {Fallback, Slack, Margin, Check, MaxTook, MaxPollFaults, Old} \subseteq Nat
  /\ Margin > 0 /\ Check > 0 /\ Watched \in Hosts
  /\ Len(OpsHosts) \in Nat /\ Len(OpsHosts) > 0 /\ Len(OpsHosts) * MaxTook \in Nat
  /\ \A i \in 1..Len(OpsHosts) : OpsHosts[i] \in Hosts
  /\ \A h \in Hosts :
       /\ Cadence[h] \in Nat
       /\ RateFor(Cadence[h]) \in Nat /\ RateFor(Cadence[h]) >= 1
       /\ TickBy(h) \in Nat /\ UnreadTickBy(h) \in Nat /\ LeftBy(h) \in Nat
       /\ MaxTook <= LeftBy(h)
<1>1. /\ {Fallback, Slack, Margin, Check, MaxTook, MaxPollFaults, Old} \subseteq Nat
      /\ Margin > 0 /\ Check > 0 /\ Watched \in Hosts
  BY OpsAssumption
<1>2. Len(OpsHosts) \in Nat
  BY OpsAssumption
<1>3. Len(OpsHosts) > 0
  BY <1>1, <1>2 DEF Hosts
<1>4. Len(OpsHosts) * MaxTook \in Nat
  BY <1>1, <1>2
<1>5. ASSUME NEW h \in Hosts
      PROVE  /\ Cadence[h] \in Nat
             /\ RateFor(Cadence[h]) \in Nat /\ RateFor(Cadence[h]) >= 1
             /\ TickBy(h) \in Nat /\ UnreadTickBy(h) \in Nat /\ LeftBy(h) \in Nat
             /\ MaxTook <= LeftBy(h)
  <2>1. Cadence[h] \in Nat
    BY OpsAssumption
  <2> DEFINE c == Cadence[h]
  <2>2. c \div 2 \in Nat
    BY <2>1
  <2>3. RateFor(c) \in Nat /\ RateFor(c) >= 1
    BY <2>2 DEF RateFor, MostOf
  <2> HIDE DEF c
  <2>4. TickBy(h) \in Nat /\ UnreadTickBy(h) \in Nat /\ LeftBy(h) \in Nat /\ MaxTook <= LeftBy(h)
    BY <1>1, <2>3 DEF c, TickBy, UnreadTickBy, LeftBy, MostOf
  <2> QED
    BY <2>1, <2>3, <2>4 DEF c
<1> QED
  BY <1>1, <1>2, <1>3, <1>4, <1>5 DEF Hosts

\* A reading a step older: it is the same reading.
LEMMA OlderReading ==
  ASSUME NEW a \in Readings
  PROVE  /\ OlderBy1(a) \in Readings
         /\ OlderBy1(a) = Nothing <=> a = Nothing
         /\ OlderBy1(a).content = a.content
         /\ OlderBy1(a).rate = a.rate
         /\ a # Nothing => a.age \in Nat /\ OlderBy1(a).age \in Nat /\ OlderBy1(a).age <= a.age + 1
         /\ \A h \in Hosts : a \in ReadingOf(h) => OlderBy1(a) \in ReadingOf(h)
<1>1. CASE a = Nothing
  BY <1>1 DEF Nothing, OlderBy1, ReadingOf, Readings
<1>2. CASE a # Nothing
  <2>1. a \in [age : Nat, rate : Nat, sampled : Nat, content : {"whole", "gap"}, gap : Nat]
    BY <1>2 DEF Readings
  <2>2. OlderBy1(a) = [a EXCEPT !.age = Aged(@)]
    BY <2>1 DEF OlderBy1
  <2>3. Aged(a.age) \in Nat /\ Aged(a.age) <= a.age + 1
    <3>1. a.age \in Nat /\ Old \in Nat
      BY <2>1, PollConstants
    <3> QED
      BY <3>1 DEF Aged, LeastOf
  <2>4. OlderBy1(a) \in [age : Nat, rate : Nat, sampled : Nat, content : {"whole", "gap"}, gap : Nat]
    BY <2>1, <2>2, <2>3
  <2>5. OlderBy1(a) # Nothing
    BY <2>4 DEF Nothing
  <2> QED
    BY <1>2, <2>1, <2>2, <2>3, <2>4, <2>5 DEF ReadingOf, Readings
<1> QED
  BY <1>1, <1>2

\* What is gathered from a host is a reading of that host, as old as the asking
\* took.
LEMMA GatheredReading ==
  ASSUME NEW h \in Hosts, NEW prev \in ReadingOf(h), NEW since \in Int, NEW age \in Nat,
         NEW content \in {"whole", "gap"}
  PROVE  /\ Gathered(h, prev, since, age, content) \in ReadingOf(h)
         /\ Gathered(h, prev, since, age, content) # Nothing
         /\ Gathered(h, prev, since, age, content).age <= age
<1> DEFINE rule == IF content = "whole" THEN RateFor(Cadence[h])
                   ELSE IF prev = Nothing THEN Fallback ELSE prev.rate
           sampled == IF prev = Nothing THEN rule ELSE Carried(rule, since)
           g == [age |-> LeastOf(age, Old), rate |-> rule, sampled |-> sampled,
                 content |-> content, gap |-> 0]
<1>1. Gathered(h, prev, since, age, content) = g
  BY DEF Gathered
<1>2. prev # Nothing => prev.rate \in Nat
  BY DEF ReadingOf, Readings
<1>3. rule \in Nat /\ (rule = RateFor(Cadence[h]) \/ (content = "gap" /\ rule = Fallback))
  BY <1>2, PollConstants DEF ReadingOf
<1>4. LeastOf(age, Old) \in Nat /\ LeastOf(age, Old) <= age
  <2>1. Old \in Nat
    BY PollConstants
  <2> QED
    BY <2>1 DEF LeastOf
<1> HIDE DEF rule
<1>5. sampled \in Nat
  BY <1>3 DEF Carried, MostOf
<1> HIDE DEF sampled
<1>6. g \in [age : Nat, rate : Nat, sampled : Nat, content : {"whole", "gap"}, gap : Nat]
  BY <1>3, <1>4, <1>5
<1>7. g # Nothing
  BY <1>6 DEF Nothing
<1> QED
  BY <1>1, <1>3, <1>4, <1>6, <1>7 DEF ReadingOf, Readings

\* A reading that replaces another.
LEMMA ReplacedReading ==
  ASSUME PollsTypeOK, KeptIsOfItsHost, NEW h \in Hosts, NEW a \in ReadingOf(h), a # Nothing,
         Replaced(h, a)
  PROVE  /\ kept' \in [Hosts -> Readings]
         /\ KeptIsOfItsHost'
         /\ kept'[h].age = a.age /\ a.age \in Nat
         /\ \A g \in Hosts : g # h => kept'[g] = kept[g]
<1> DEFINE gap == IF kept[h] = Nothing \/ kept[h].age < a.age THEN 0 ELSE kept[h].age - a.age
           b == [age |-> a.age, rate |-> a.rate, sampled |-> a.sampled, content |-> a.content,
                 gap |-> gap]
<1>1. kept' = [kept EXCEPT ![h] = b]
  BY DEF Replaced
<1>2. kept \in [Hosts -> Readings]
  BY DEF PollsTypeOK
<1>3. a \in [age : Nat, rate : Nat, sampled : Nat, content : {"whole", "gap"}, gap : Nat]
  BY DEF ReadingOf, Readings
<1>4. kept[h] # Nothing => kept[h].age \in Nat
  BY <1>2 DEF Readings
<1>5. gap \in Nat
  BY <1>3, <1>4
<1> HIDE DEF gap
<1>6. b \in [age : Nat, rate : Nat, sampled : Nat, content : {"whole", "gap"}, gap : Nat]
  BY <1>3, <1>5
<1>7. b \in ReadingOf(h) /\ b \in Readings
  BY <1>3, <1>6 DEF ReadingOf, Readings
<1>8. b.age = a.age
  OBVIOUS
<1> HIDE DEF b
<1>9. kept' \in [Hosts -> Readings] /\ kept'[h] = b /\ \A g \in Hosts : g # h => kept'[g] = kept[g]
  BY <1>1, <1>2, <1>7
<1>10. KeptIsOfItsHost'
  <2> SUFFICES ASSUME NEW g \in Hosts PROVE kept'[g] \in ReadingOf(g)
    BY DEF KeptIsOfItsHost
  <2> QED
    BY <1>7, <1>9 DEF KeptIsOfItsHost
<1> QED
  BY <1>3, <1>8, <1>9, <1>10

\* The interval of a host, and so the tick, is no longer than that host's.
LEMMA TickIsShortEnough ==
  ASSUME PollsTypeOK, KeptIsOfItsHost
  PROVE  /\ TickOf \in Nat
         /\ \A h \in Hosts :
              /\ TickOf <= UnreadTickBy(h)
              /\ kept[h].content = "whole" => TickOf <= TickBy(h)
<1> DEFINE S == {IntervalOf(kept[h]) : h \in Hosts}
           least == CHOOSE r \in S : \A h \in Hosts : r <= IntervalOf(kept[h])
<1>1. ASSUME NEW h \in Hosts
      PROVE  /\ IntervalOf(kept[h]) \in Nat
             /\ IntervalOf(kept[h]) <= MostOf(RateFor(Cadence[h]), Fallback)
             /\ kept[h].content = "whole" => IntervalOf(kept[h]) = RateFor(Cadence[h])
  <2>1. kept[h] \in ReadingOf(h)
    BY <1>1 DEF KeptIsOfItsHost
  <2> DEFINE rate == RateFor(Cadence[h])
  <2>2. rate \in Nat /\ rate >= 1 /\ Fallback \in Nat
    BY PollConstants
  <2> HIDE DEF rate
  <2>3. CASE kept[h] = Nothing
    <3>1. IntervalOf(kept[h]) = Fallback
      BY <2>3 DEF IntervalOf
    <3>2. kept[h].content # "whole"
      BY <2>3 DEF Nothing
    <3> QED
      BY <2>2, <3>1, <3>2 DEF MostOf, rate
  <2>4. CASE kept[h] # Nothing
    <3>1. /\ kept[h].rate = rate \/ kept[h].rate = Fallback
          /\ kept[h].content = "whole" => kept[h].rate = rate
      BY <2>1, <2>4 DEF ReadingOf, rate
    <3>2. IntervalOf(kept[h]) = MostOf(kept[h].rate, 1)
      BY <2>4 DEF IntervalOf
    <3> QED
      BY <2>2, <3>1, <3>2 DEF MostOf, rate
  <2> QED
    BY <2>3, <2>4 DEF rate
<1>2. S \subseteq Nat /\ S # {}
  BY <1>1, PollConstants
<1>3. \E r \in S : \A s \in S : r <= s
  <2>1. IsWellFoundedOn(OpToRel(<, Nat), Nat)
    BY NatLessThanWellFounded
  <2>2. PICK r \in S : \A s \in S : <<s, r>> \notin OpToRel(<, Nat)
    BY <1>2, <2>1, WFMin
  <2>3. ASSUME NEW s \in S PROVE r <= s
    <3>1. ~(s < r)
      BY <1>2, <2>2, <2>3 DEF OpToRel
    <3> QED
      BY <1>2, <3>1
  <2> QED
    BY <2>3
<1>4. \E r \in S : \A h \in Hosts : r <= IntervalOf(kept[h])
  BY <1>3
<1>5. least \in S /\ \A h \in Hosts : least <= IntervalOf(kept[h])
  BY <1>4
<1>6. TickOf = MostOf(1, least - Margin)
  BY DEF TickOf
<1>7. least \in Nat
  BY <1>2, <1>5
<1> HIDE DEF least, S
<1>8. TickOf \in Nat
  BY <1>6, <1>7, PollConstants, SMTT(30) DEF MostOf
<1>9. ASSUME NEW h \in Hosts
      PROVE  /\ TickOf <= UnreadTickBy(h)
             /\ kept[h].content = "whole" => TickOf <= TickBy(h)
  <2> DEFINE interval == IntervalOf(kept[h])
             rate == RateFor(Cadence[h])
  <2>1. /\ interval \in Nat /\ interval <= MostOf(rate, Fallback)
        /\ kept[h].content = "whole" => interval = rate
        /\ least <= interval
    BY <1>1, <1>5
  <2>2. rate \in Nat /\ {Fallback, Margin} \subseteq Nat
    BY PollConstants
  <2>3. UnreadTickBy(h) = MostOf(1, MostOf(rate, Fallback) - Margin) /\ TickBy(h) = MostOf(1, rate - Margin)
    BY DEF UnreadTickBy, TickBy
  <2> HIDE DEF interval, rate
  <2>4. TickOf <= UnreadTickBy(h)
    BY <1>6, <1>7, <2>1, <2>2, <2>3 DEF MostOf
  <2>5. kept[h].content = "whole" => TickOf <= TickBy(h)
    BY <1>6, <1>7, <2>1, <2>2, <2>3 DEF MostOf
  <2> QED
    BY <2>4, <2>5
<1> QED
  BY <1>8, <1>9
---------------------------------------------------------------------------
\* It holds at first: nobody has asked anybody, and what an earlier run kept is
\* not older than the cadence.
LEMMA PollsInit == ASSUME OpsInit PROVE PollsInv
<1>1. Nothing \in Readings /\ \A h \in Hosts : Nothing \in ReadingOf(h)
  BY DEF Readings, ReadingOf
<1>2. ASSUME NEW h \in Hosts PROVE Earlier(h) \in Readings /\ Earlier(h) \in ReadingOf(h)
  BY PollConstants DEF Earlier, Readings, ReadingOf
<1>3. kept \in [Hosts -> Readings] /\ KeptIsOfItsHost
  BY <1>1, <1>2 DEF OpsInit, KeptIsOfItsHost
<1>4. PollsTypeOK
  BY <1>1, <1>3, PollConstants DEF OpsInit, PollsTypeOK
<1>5. ViewInv
  BY <1>1, PollConstants DEF OpsInit, ViewInv
<1>6. AgentInv
  BY PollConstants DEF OpsInit, AgentInv
<1>7. ASSUME TimelyPasses, NEW h \in Hosts, kept[h].content = "whole"
      PROVE  AgeAtStart(kept[h]) <= Cadence[h] /\ ~Passed(h)
  <2>1. kept[h] = Earlier(h)
    BY <1>7 DEF OpsInit, Nothing
  <2>2. AgeAtStart(kept[h]) = Fallback
    BY <2>1, PollConstants DEF OpsInit, AgeAtStart, Earlier
  <2>3. ~Passed(h)
    BY DEF OpsInit, Passed
  <2> QED
    BY <1>7, <2>2, <2>3 DEF TimelyPasses
<1>8. InTime
  BY <1>7 DEF OpsInit, InTime
<1> QED
  BY <1>3, <1>4, <1>5, <1>6, <1>8 DEF PollsInv

\* A step of the view that writes nothing.
LEMMA ViewOnly ==
  ASSUME PollsInv, UNCHANGED <<kept, ops, missed>>,
         view' \in [pc : {"off", "sleep", "look", "open", "ask", "write", "rename"}, t : Nat,
                    session : BOOLEAN, shown : Int, draft : Readings, took : 0..MaxTook],
         ViewInv', opsScreen' \in [says : {"asking", "ready", "failed"}, answer : Readings],
         pollFaults' \in Nat
  PROVE  PollsInv'
<1>1. PollsTypeOK'
  BY DEF PollsInv, PollsTypeOK
<1>2. KeptIsOfItsHost'
  BY DEF PollsInv, KeptIsOfItsHost
<1>3. AgentInv'
  BY DEF PollsInv, AgentInv, Host
<1>4. InTime'
  BY DEF PollsInv, InTime, AgeAtStart, Passed
<1> QED
  BY <1>1, <1>2, <1>3, <1>4 DEF PollsInv

\* The values of the view's poll as it goes to sleep.
LEMMA SleepTypes ==
  ASSUME PollsInv
  PROVE  LET Views == [pc : {"off", "sleep", "look", "open", "ask", "write", "rename"}, t : Nat,
                       session : BOOLEAN, shown : Int, draft : Readings, took : 0..MaxTook]
         IN  /\ Sleep \in Views
             /\ \A n \in Int : [Sleep EXCEPT !.shown = n] \in Views
             /\ \A n \in Int, b \in BOOLEAN :
                  [[Sleep EXCEPT !.shown = n] EXCEPT !.session = b] \in Views
             /\ Sleep.draft = Nothing /\ Sleep.pc = "sleep"
<1>1. view \in [pc : {"off", "sleep", "look", "open", "ask", "write", "rename"}, t : Nat,
                 session : BOOLEAN, shown : Int, draft : Readings, took : 0..MaxTook]
  BY DEF PollsInv, PollsTypeOK
<1>2. Nothing \in Readings /\ Check \in Nat /\ 0 \in 0..MaxTook
  BY PollConstants DEF Readings
<1> QED
  BY <1>1, <1>2 DEF Sleep

\* The view comes, goes, looks, opens a session and asks.
LEMMA ViewLooks ==
  ASSUME PollsInv, EnterOps \/ LeaveOps \/ Awake \/ Look \/ OpenSession
  PROVE  PollsInv'
<1> DEFINE Views == [pc : {"off", "sleep", "look", "open", "ask", "write", "rename"}, t : Nat,
                     session : BOOLEAN, shown : Int, draft : Readings, took : 0..MaxTook]
           Screens == [says : {"asking", "ready", "failed"}, answer : Readings]
<1>1. view \in Views /\ opsScreen \in Screens /\ pollFaults \in Nat /\ view.draft \in ReadingOf(Watched)
  BY DEF PollsInv, PollsTypeOK, ViewInv
<1>2. /\ Nothing \in Readings /\ Nothing \in ReadingOf(Watched) /\ 0 \in 0..MaxTook
      /\ -1 \in Int /\ 0 \in Nat
  BY PollConstants DEF Readings, ReadingOf
<1>3. /\ Sleep \in Views /\ Sleep.draft = Nothing /\ Sleep.pc = "sleep"
      /\ \A n \in Int : [Sleep EXCEPT !.shown = n] \in Views
  BY SleepTypes
<1>4. kept[Watched] \in Readings /\ kept[Watched] \in ReadingOf(Watched)
  BY PollConstants DEF PollsInv, PollsTypeOK, KeptIsOfItsHost
<1>5. \A t \in 0..MaxTook : t \in Nat
  BY PollConstants
<1>6. CASE EnterOps \/ LeaveOps
  <2>1. view' \in Views /\ view'.draft = Nothing /\ view'.pc \notin {"write", "rename"}
    <3>1. CASE EnterOps
      <4>1. view' = [pc |-> "look", t |-> 0, session |-> FALSE, shown |-> -1,
                     draft |-> Nothing, took |-> 0]
        BY <3>1 DEF EnterOps
      <4> QED
        BY <1>2, <4>1
    <3>2. CASE LeaveOps
      <4>1. view' = [view EXCEPT !.pc = "off", !.t = 0, !.session = FALSE, !.shown = -1,
                                 !.draft = Nothing, !.took = 0]
        BY <3>2 DEF LeaveOps
      <4> QED
        BY <1>1, <1>2, <4>1
    <3> QED
      BY <1>6, <3>1, <3>2
  <2>2. UNCHANGED <<kept, ops, missed, opsScreen, pollFaults>>
    BY <1>6 DEF EnterOps, LeaveOps
  <2>3. ViewInv'
    BY <1>2, <2>1 DEF ViewInv
  <2> QED
    BY <1>1, <2>1, <2>2, <2>3, ViewOnly
<1>7. CASE Awake
  <2>1. view' \in Views /\ view'.draft = view.draft /\ view'.pc = "look"
    BY <1>1, <1>7 DEF Awake
  <2>2. UNCHANGED <<kept, ops, missed, opsScreen, pollFaults>>
    BY <1>7 DEF Awake
  <2>3. ViewInv'
    BY <1>1, <2>1 DEF ViewInv
  <2> QED
    BY <1>1, <2>1, <2>2, <2>3, ViewOnly
<1>8. CASE Look
  <2>1. UNCHANGED <<kept, ops, missed, pollFaults>>
    BY <1>8 DEF Look
  <2>2. CASE Fresh(kept[Watched])
    <3>1. kept[Watched].age \in Int
      BY <1>4 DEF Readings, Nothing
    <3>2. view' \in Views /\ view'.draft = Nothing /\ view'.pc = "sleep"
      BY <1>1, <1>3, <1>8, <2>2, <3>1 DEF Look
    <3>3. opsScreen' \in Screens
      BY <1>1, <1>4, <1>8, <2>2 DEF Look
    <3>4. ViewInv'
      BY <1>2, <3>2 DEF ViewInv
    <3> QED
      BY <1>1, <2>1, <3>2, <3>3, <3>4, ViewOnly
  <2>3. CASE ~Fresh(kept[Watched])
    <3>1. PICK t \in 0..MaxTook :
             view' = [view EXCEPT !.pc = IF view.session THEN "ask" ELSE "open", !.t = t,
                                  !.draft = kept[Watched], !.took = t]
      BY <1>8, <2>3 DEF Look
    <3>2. view' \in Views /\ view'.draft = kept[Watched] /\ view'.pc \in {"ask", "open"}
      BY <1>1, <1>4, <1>5, <3>1
    <3>3. opsScreen' = opsScreen
      BY <1>8, <2>3 DEF Look
    <3>4. ViewInv'
      BY <1>4, <3>2 DEF ViewInv
    <3> QED
      BY <1>1, <2>1, <3>2, <3>3, <3>4, ViewOnly
  <2> QED
    BY <2>2, <2>3
<1>9. CASE OpenSession
  <2>1. UNCHANGED <<kept, ops, missed>>
    BY <1>9 DEF OpenSession
  <2>2. CASE \E t \in 0..MaxTook :
               view' = [view EXCEPT !.pc = "ask", !.session = TRUE, !.t = t, !.took = t]
    <3>1. view' \in Views /\ view'.draft = view.draft /\ view'.pc = "ask"
      BY <1>1, <1>5, <2>2
    <3>2. opsScreen' \in Screens /\ pollFaults' \in Nat
      <4>1. [opsScreen EXCEPT !.says = "failed"] \in Screens /\ pollFaults + 1 \in Nat
        BY <1>1
      <4> QED
        BY <1>1, <1>9, <4>1 DEF OpenSession, Failed
    <3>3. ViewInv'
      BY <1>1, <3>1 DEF ViewInv
    <3> QED
      BY <2>1, <3>1, <3>2, <3>3, ViewOnly
  <2>3. CASE view' = Sleep /\ Failed /\ pollFaults' = pollFaults + 1
    <3>1. opsScreen' \in Screens /\ pollFaults' \in Nat
      BY <1>1, <2>3 DEF Failed
    <3>2. ViewInv'
      BY <1>2, <1>3, <2>3 DEF ViewInv
    <3> QED
      BY <1>3, <2>1, <2>3, <3>1, <3>2, ViewOnly
  <2> QED
    BY <1>9, <2>2, <2>3 DEF OpenSession
<1> QED
  BY <1>6, <1>7, <1>8, <1>9

\* The session answers, and what was gathered is compared with what is kept.
LEMMA ViewAsks ==
  ASSUME PollsInv, Ask \/ CheckKept
  PROVE  PollsInv'
<1> DEFINE Views == [pc : {"off", "sleep", "look", "open", "ask", "write", "rename"}, t : Nat,
                     session : BOOLEAN, shown : Int, draft : Readings, took : 0..MaxTook]
           Screens == [says : {"asking", "ready", "failed"}, answer : Readings]
<1>1. view \in Views /\ opsScreen \in Screens /\ pollFaults \in Nat /\ view.draft \in ReadingOf(Watched)
  BY DEF PollsInv, PollsTypeOK, ViewInv
<1>2. Nothing \in ReadingOf(Watched) /\ pollFaults + 1 \in Nat
  BY <1>1 DEF Readings, ReadingOf
<1>3. /\ Sleep \in Views /\ Sleep.draft = Nothing /\ Sleep.pc = "sleep"
      /\ \A n \in Int : [Sleep EXCEPT !.shown = n] \in Views
  BY SleepTypes
<1>4. [opsScreen EXCEPT !.says = "failed"] \in Screens
  BY <1>1
<1>5. CASE Ask
  <2>1. UNCHANGED <<kept, ops, missed>>
    BY <1>5 DEF Ask
  <2>2. PICK content \in Outcomes :
          /\ PollFault(content)
          /\ IF content = "ended"
               THEN view' = [Sleep EXCEPT !.session = FALSE] /\ Failed
               ELSE view' = Answered(content) /\ UNCHANGED opsScreen
    BY <1>5 DEF Ask
  <2>3. pollFaults' \in Nat /\ opsScreen' \in Screens
    BY <1>1, <1>2, <1>4, <2>2 DEF PollFault, Failed
  <2>4. CASE content = "ended"
    <3>1. view' \in Views /\ view'.draft = Nothing /\ view'.pc = "sleep"
      BY <1>3, <2>2, <2>4
    <3>2. ViewInv'
      BY <1>2, <3>1 DEF ViewInv
    <3> QED
      BY <2>1, <2>3, <3>1, <3>2, ViewOnly
  <2>5. CASE content # "ended"
    <3> DEFINE g == Gathered(Watched, view.draft, view.draft.age - view.took, view.took, content)
    <3>1. content \in {"whole", "gap"}
      BY <2>5 DEF Outcomes
    <3>2. view.draft.age - view.took \in Int /\ view.took \in Nat /\ view.took <= MaxTook
      <4>1. view.draft.age \in Int
        BY <1>1 DEF Readings, Nothing
      <4>2. view.took \in 0..MaxTook /\ MaxTook \in Nat
        BY <1>1, PollConstants
      <4> QED
        BY <4>1, <4>2
    <3>3. g \in ReadingOf(Watched) /\ g # Nothing /\ g.age <= view.took
      BY <1>1, <3>1, <3>2, PollConstants, GatheredReading
    <3>4. g \in Readings /\ g.age \in Nat
      BY <3>3 DEF ReadingOf, Readings
    <3>5. view' = [view EXCEPT !.pc = "write", !.draft = g]
      BY <2>2, <2>5 DEF Answered
    <3> HIDE DEF g
    <3>6. view' \in Views /\ view'.draft = g
      BY <1>1, <3>4, <3>5
    <3>7. g.age <= MaxTook
      <4>1. MaxTook \in Nat
        BY PollConstants
      <4> QED
        BY <3>2, <3>3, <3>4, <4>1
    <3>8. ViewInv'
      BY <3>3, <3>6, <3>7 DEF ViewInv
    <3> QED
      BY <2>1, <2>3, <3>6, <3>8, ViewOnly
  <2> QED
    BY <2>4, <2>5
<1>6. CASE CheckKept
  <2>1. UNCHANGED <<kept, ops, missed, pollFaults>> /\ view.pc = "write"
    BY <1>6 DEF CheckKept
  <2>2. CASE view' = Drawn /\ ShowDraft
    <3>1. view.draft.age \in Int
      BY <1>1 DEF Readings, Nothing
    <3>2. view' \in Views /\ view'.draft = Nothing /\ view'.pc = "sleep"
      BY <1>3, <2>2, <3>1 DEF Drawn
    <3>3. opsScreen' \in Screens
      BY <1>1, <2>2 DEF ShowDraft
    <3>4. ViewInv'
      BY <1>2, <3>2 DEF ViewInv
    <3> QED
      BY <1>1, <2>1, <3>2, <3>3, <3>4, ViewOnly
  <2>3. CASE view' = [view EXCEPT !.pc = "rename"] /\ UNCHANGED opsScreen
    <3>1. view' \in Views /\ view'.draft = view.draft
      BY <1>1, <2>3
    <3>2. ViewInv'
      BY <2>1, <3>1 DEF PollsInv, ViewInv
    <3> QED
      BY <1>1, <2>1, <2>3, <3>1, <3>2, ViewOnly
  <2> QED
    BY <1>6, <2>2, <2>3 DEF CheckKept
<1> QED
  BY <1>5, <1>6

\* What the view keeps is as young as the asking was short: the agent may be in
\* a pass or between two.
LEMMA ViewWrites ==
  ASSUME PollsInv, WriteKept
  PROVE  PollsInv'
<1> DEFINE Views == [pc : {"off", "sleep", "look", "open", "ask", "write", "rename"}, t : Nat,
                     session : BOOLEAN, shown : Int, draft : Readings, took : 0..MaxTook]
           Screens == [says : {"asking", "ready", "failed"}, answer : Readings]
<1>1. /\ view \in Views /\ opsScreen \in Screens /\ pollFaults \in Nat
      /\ view.draft \in ReadingOf(Watched) /\ view.draft # Nothing /\ view.draft.age <= MaxTook
      /\ missed \in [Hosts -> BOOLEAN] /\ PollsTypeOK /\ KeptIsOfItsHost
  BY DEF WriteKept, PollsInv, PollsTypeOK, ViewInv
<1>2. Nothing \in ReadingOf(Watched) /\ pollFaults + 1 \in Nat
  BY <1>1 DEF Readings, ReadingOf
<1>3. view' \in Views /\ ViewInv'
  <2>1. view.draft.age \in Int
    BY <1>1 DEF Readings, Nothing
  <2>2. \A b \in BOOLEAN : [[Sleep EXCEPT !.shown = view.draft.age] EXCEPT !.session = b] \in Views
    BY <2>1, SleepTypes
  <2>3. [Sleep EXCEPT !.shown = view.draft.age] \in Views /\ Sleep.draft = Nothing /\ Sleep.pc = "sleep"
    BY <2>1, SleepTypes
  <2>4. view' \in Views /\ view'.draft = Nothing /\ view'.pc = "sleep"
    BY <2>2, <2>3 DEF WriteKept, AfterAnswer, Drawn
  <2> QED
    BY <1>2, <2>4 DEF ViewInv
<1>4. opsScreen' \in Screens /\ pollFaults' \in Nat /\ ops' = ops
  BY <1>1, <1>2 DEF WriteKept, ShowDraft
<1>5. CASE UNCHANGED <<kept, missed>>
  BY <1>3, <1>4, <1>5, ViewOnly
<1>6. CASE Replaced(Watched, view.draft) /\ missed' = [missed EXCEPT ![Watched] = FALSE]
  <2>1. /\ kept' \in [Hosts -> Readings] /\ KeptIsOfItsHost'
        /\ kept'[Watched].age = view.draft.age /\ view.draft.age \in Nat
        /\ \A g \in Hosts : g # Watched => kept'[g] = kept[g]
    BY <1>1, <1>6, PollConstants, ReplacedReading
  <2>2. missed' \in [Hosts -> BOOLEAN] /\ \A g \in Hosts : g # Watched => missed'[g] = missed[g]
    BY <1>1, <1>6
  <2>3. PollsTypeOK'
    BY <1>3, <1>4, <2>1, <2>2 DEF PollsInv, PollsTypeOK
  <2>4. AgentInv'
    BY <1>4 DEF PollsInv, AgentInv, Host
  <2>5. ASSUME TimelyPasses, NEW h \in Hosts, kept'[h].content = "whole", ~missed'[h]
        PROVE  /\ ops'.pc = "wait" => kept'[h].age + ops'.t <= Cadence[h]
               /\ ops'.pc # "wait" => AgeAtStart(kept[h])' <= Cadence[h]
               /\ ops'.pc # "wait" /\ Passed(h)' => AgeAtStart(kept[h])' <= LeftBy(h)
    <3>1. CASE h # Watched
      BY <1>4, <2>1, <2>2, <2>5, <3>1 DEF PollsInv, InTime, AgeAtStart, Passed
    <3>2. CASE h = Watched
      <4>1. kept'[h].age \in Nat /\ kept'[h].age <= MaxTook
        BY <1>1, <2>1, <3>2
      <4>2. ops.spent \in Nat /\ ops.t \in Nat
        BY DEF PollsInv, PollsTypeOK
      <4>3. /\ LeftBy(h) + MostOf(Len(OpsHosts) * MaxTook, TickBy(h)) <= Cadence[h]
            /\ MaxTook + UnreadTickBy(h) <= Cadence[h]
        BY <2>5 DEF TimelyPasses
      <4>4. /\ LeftBy(h) \in Nat /\ TickBy(h) \in Nat /\ UnreadTickBy(h) \in Nat /\ Cadence[h] \in Nat
            /\ MaxTook \in Nat /\ MaxTook <= LeftBy(h) /\ Len(OpsHosts) * MaxTook \in Nat
        BY PollConstants
      <4>5. LeftBy(h) <= Cadence[h]
        BY <4>3, <4>4 DEF MostOf
      <4>6. AgeAtStart(kept[h])' = kept'[h].age - ops.spent
        BY <1>4 DEF AgeAtStart
      <4>7. AgeAtStart(kept[h])' <= LeftBy(h) /\ AgeAtStart(kept[h])' <= Cadence[h]
        BY <4>1, <4>2, <4>4, <4>5, <4>6
      <4>8. ASSUME ops.pc = "wait" PROVE kept'[h].age + ops.t <= Cadence[h]
        <5>1. ops.t <= UnreadTickBy(h)
          BY <4>8 DEF PollsInv, AgentInv
        <5> QED
          BY <4>1, <4>2, <4>3, <4>4, <5>1
      <4> QED
        BY <1>4, <4>7, <4>8
    <3> QED
      BY <3>1, <3>2
  <2>6. InTime'
    BY <2>5 DEF InTime
  <2> QED
    BY <1>3, <2>1, <2>3, <2>4, <2>6 DEF PollsInv
<1> QED
  BY <1>5, <1>6 DEF WriteKept

---------------------------------------------------------------------------
\* The hosts before i are asked for no longer than that many may take.
LEMMA PassTime ==
  ASSUME NEW i \in 1..Len(OpsHosts)
  PROVE  /\ i * MaxTook \in Nat /\ i * MaxTook <= Len(OpsHosts) * MaxTook
         /\ (i - 1) * MaxTook \in Nat /\ (i - 1) * MaxTook + MaxTook = i * MaxTook
         /\ ((i + 1) - 1) * MaxTook = i * MaxTook
<1>1. ASSUME NEW m \in Nat, NEW n \in Nat, i <= n
      PROVE  i * m \in Nat /\ i * m <= n * m /\ (i - 1) * m + m = i * m /\ (i - 1) * m \in Nat
  <2>1. PICK k \in Nat : n = i + k
    <3>1. n - i \in Nat /\ n = i + (n - i)
      BY <1>1
    <3> QED
      BY <3>1
  <2>2. n * m = i * m + k * m /\ k * m \in Nat /\ i * m \in Nat
    BY <1>1, <2>1
  <2>3. i - 1 \in Nat
    OBVIOUS
  <2>4. (i - 1) * m \in Nat /\ (i - 1) * m + m = i * m
    BY <1>1, <2>3
  <2> QED
    BY <2>2, <2>4
<1>2. (i + 1) - 1 = i
  OBVIOUS
<1>3. MaxTook \in Nat /\ Len(OpsHosts) \in Nat
  BY PollConstants
<1>4. i <= Len(OpsHosts)
  BY <1>3
<1>5. /\ i * MaxTook \in Nat /\ i * MaxTook <= Len(OpsHosts) * MaxTook
      /\ (i - 1) * MaxTook + MaxTook = i * MaxTook /\ (i - 1) * MaxTook \in Nat
  BY <1>1, <1>3, <1>4
<1> QED
  BY <1>2, <1>5

\* The pass goes on to the next host.
LEMMA NextHostTypes ==
  ASSUME PollsTypeOK, ops.i <= Len(OpsHosts), ops.spent <= ops.i * MaxTook, ops' = NextHost
  PROVE  /\ ops' \in [pc : {"pass", "ask", "write", "rename", "wait"}, i : 1..Len(OpsHosts) + 1,
                      t : Nat, spent : Nat, draft : Readings]
         /\ AgentInv' /\ ops'.pc = "pass" /\ ops'.spent = ops.spent
         /\ \A h \in Hosts : Passed(h)' <=> Passed(h) \/ h = Host
<1>1. /\ ops \in [pc : {"pass", "ask", "write", "rename", "wait"}, i : 1..Len(OpsHosts) + 1,
                  t : Nat, spent : Nat, draft : Readings]
      /\ Len(OpsHosts) \in Nat /\ Nothing \in Readings
  BY PollConstants DEF PollsTypeOK, Readings
<1>2. ops.i + 1 \in 1..Len(OpsHosts) + 1 /\ ops.i \in 1..Len(OpsHosts) /\ 0 \in Nat
  BY <1>1
<1>3. ops' \in [pc : {"pass", "ask", "write", "rename", "wait"}, i : 1..Len(OpsHosts) + 1,
               t : Nat, spent : Nat, draft : Readings]
  BY <1>1, <1>2 DEF NextHost
<1>4. ops'.i = ops.i + 1 /\ ops'.pc = "pass" /\ ops'.spent = ops.spent
  BY <1>1 DEF NextHost
<1>5. AgentInv'
  <2>1. (ops'.i - 1) * MaxTook = ops.i * MaxTook
    BY <1>2, <1>4, PassTime
  <2> QED
    BY <1>4, <2>1 DEF AgentInv
<1>6. ASSUME NEW h \in Hosts PROVE Passed(h)' <=> Passed(h) \/ h = Host
  <2>1. 1..ops'.i - 1 = (1..ops.i - 1) \cup {ops.i}
    BY <1>2, <1>4
  <2> QED
    BY <2>1 DEF Passed, Host
<1> QED
  BY <1>3, <1>4, <1>5, <1>6

\* A host the pass is done with, read or not, has an answer that is young enough.
LEMMA HostIsDone ==
  ASSUME PollsInv, ops.pc \in {"pass", "ask", "write", "rename"},
         ops.i <= Len(OpsHosts), ops.spent <= ops.i * MaxTook, ops' = NextHost,
         UNCHANGED <<view, opsScreen>>, pollFaults' \in Nat, missed' \in [Hosts -> BOOLEAN],
         kept' \in [Hosts -> Readings], KeptIsOfItsHost',
         \A g \in Hosts : g # Host => kept'[g] = kept[g] /\ missed'[g] = missed[g],
         kept'[Host].content = "whole" /\ ~missed'[Host] =>
           kept'[Host].age - ops.spent <= LeftBy(Host)
  PROVE  PollsInv'
<1>1. /\ ops' \in [pc : {"pass", "ask", "write", "rename", "wait"}, i : 1..Len(OpsHosts) + 1,
                   t : Nat, spent : Nat, draft : Readings]
      /\ AgentInv' /\ ops'.pc = "pass" /\ ops'.spent = ops.spent
      /\ \A h \in Hosts : Passed(h)' <=> Passed(h) \/ h = Host
  BY NextHostTypes DEF PollsInv
<1>2. PollsTypeOK'
  BY <1>1 DEF PollsInv, PollsTypeOK
<1>3. ViewInv'
  BY DEF PollsInv, ViewInv
<1>4. ASSUME TimelyPasses, NEW h \in Hosts, kept'[h].content = "whole", ~missed'[h]
      PROVE  /\ AgeAtStart(kept[h])' <= Cadence[h]
             /\ Passed(h)' => AgeAtStart(kept[h])' <= LeftBy(h)
  <2>1. AgeAtStart(kept[h])' = kept'[h].age - ops.spent
    BY <1>1 DEF AgeAtStart
  <2>2. CASE h = Host
    <3>1. kept'[h].age - ops.spent <= LeftBy(h)
      BY <1>4, <2>2
    <3>2. kept'[h].age \in Int /\ ops.spent \in Nat
      <4>1. kept'[h] \in Readings /\ kept'[h] # Nothing
        BY <1>4 DEF Nothing
      <4>2. kept'[h].age \in Nat
        BY <4>1 DEF Readings
      <4> QED
        BY <4>2 DEF PollsInv, PollsTypeOK
    <3>3. LeftBy(h) + MostOf(Len(OpsHosts) * MaxTook, TickBy(h)) <= Cadence[h]
      BY <1>4 DEF TimelyPasses
    <3>4. LeftBy(h) \in Nat /\ Len(OpsHosts) * MaxTook \in Nat /\ TickBy(h) \in Nat /\ Cadence[h] \in Nat
      BY PollConstants
    <3>5. LeftBy(h) <= Cadence[h]
      BY <3>3, <3>4 DEF MostOf
    <3>6. kept'[h].age - ops.spent <= Cadence[h]
      BY <3>1, <3>2, <3>4, <3>5
    <3> QED
      BY <2>1, <3>1, <3>6
  <2>3. CASE h # Host
    <3>1. kept'[h] = kept[h] /\ ~missed[h] /\ ops.pc # "wait" /\ (Passed(h)' => Passed(h))
      BY <1>1, <1>4, <2>3
    <3> QED
      BY <1>4, <2>1, <3>1 DEF PollsInv, InTime, AgeAtStart
  <2> QED
    BY <2>2, <2>3
<1>5. InTime'
  BY <1>1, <1>4 DEF InTime
<1> QED
  BY <1>1, <1>2, <1>3, <1>5 DEF PollsInv

\* The pass goes on with the host it is at.
LEMMA HostIsAsked ==
  ASSUME PollsInv, ops.pc # "wait", ops'.pc # "wait", ops'.i = ops.i, ops'.spent = ops.spent,
         ops' \in [pc : {"pass", "ask", "write", "rename", "wait"}, i : 1..Len(OpsHosts) + 1,
                   t : Nat, spent : Nat, draft : Readings],
         AgentInv', UNCHANGED <<kept, view, opsScreen, missed>>, pollFaults' \in Nat
  PROVE  PollsInv'
<1>1. PollsTypeOK' /\ KeptIsOfItsHost' /\ ViewInv'
  BY DEF PollsInv, PollsTypeOK, KeptIsOfItsHost, ViewInv
<1>2. InTime'
  BY DEF PollsInv, InTime, AgeAtStart, Passed
<1> QED
  BY <1>1, <1>2 DEF PollsInv

\* A host is left alone while its answer is younger than its interval less the
\* slack; else it is asked.
LEMMA PassHostKeeps ==
  ASSUME PollsInv, PassHost
  PROVE  PollsInv'
<1>1. /\ ops \in [pc : {"pass", "ask", "write", "rename", "wait"}, i : 1..Len(OpsHosts) + 1,
                  t : Nat, spent : Nat, draft : Readings]
      /\ kept \in [Hosts -> Readings] /\ missed \in [Hosts -> BOOLEAN] /\ pollFaults \in Nat
      /\ ops.pc = "pass" /\ ops.i <= Len(OpsHosts) /\ UNCHANGED <<kept, view, opsScreen, missed, pollFaults>>
      /\ KeptIsOfItsHost /\ ops.spent <= (ops.i - 1) * MaxTook
  BY DEF PollsInv, PollsTypeOK, PassHost, AgentInv
<1>2. ops.i \in 1..Len(OpsHosts) /\ Host \in Hosts /\ MaxTook \in Nat
  <2>1. ops.i \in 1..Len(OpsHosts)
    BY <1>1, PollConstants
  <2> QED
    BY <2>1, PollConstants DEF Host
<1>3. /\ (ops.i - 1) * MaxTook \in Nat /\ ops.i * MaxTook \in Nat
      /\ (ops.i - 1) * MaxTook + MaxTook = ops.i * MaxTook
  BY <1>2, PassTime
<1>4. CASE ~Due(kept[Host])
  <2>1. ops' = NextHost
    BY <1>4 DEF PassHost
  <2>2. ops.spent <= ops.i * MaxTook
    BY <1>1, <1>2, <1>3
  <2>3. ASSUME kept[Host].content = "whole" PROVE kept[Host].age - ops.spent <= LeftBy(Host)
    <3>1. kept[Host] # Nothing /\ ~(kept[Host].age - ops.spent >= IntervalOf(kept[Host]) - Slack)
      BY <1>4 DEF Due, AgeAtStart
    <3>2. kept[Host].rate = RateFor(Cadence[Host]) /\ kept[Host].age \in Nat
      BY <1>1, <1>2, <2>3, <3>1 DEF KeptIsOfItsHost, ReadingOf, Readings
    <3>3. RateFor(Cadence[Host]) \in Nat /\ RateFor(Cadence[Host]) >= 1 /\ Slack \in Nat
      BY <1>2, PollConstants
    <3>4. IntervalOf(kept[Host]) = RateFor(Cadence[Host])
      BY <3>1, <3>2, <3>3 DEF IntervalOf, MostOf
    <3>5. kept[Host].age - ops.spent <= RateFor(Cadence[Host]) - Slack - 1
      BY <1>1, <3>1, <3>2, <3>3, <3>4
    <3>6. ops.spent \in Nat /\ kept[Host].age \in Nat /\ LeftBy(Host) >= RateFor(Cadence[Host]) - Slack - 1
      BY <1>1, <1>2, <3>2, <3>3 DEF LeftBy, MostOf
    <3>7. LeftBy(Host) \in Nat
      BY <1>2, PollConstants
    <3> QED
      BY <3>3, <3>5, <3>6, <3>7
  <2>4. KeptIsOfItsHost'
    BY <1>1 DEF KeptIsOfItsHost
  <2> QED
    BY <1>1, <2>1, <2>2, <2>3, <2>4, HostIsDone
<1>5. CASE Due(kept[Host])
  <2>1. PICK t \in 0..MaxTook : ops' = [ops EXCEPT !.pc = "ask", !.t = t, !.draft = kept[Host]]
    BY <1>5 DEF PassHost
  <2>2. t \in Nat /\ t <= MaxTook
    BY <1>2
  <2>3. /\ ops' \in [pc : {"pass", "ask", "write", "rename", "wait"}, i : 1..Len(OpsHosts) + 1,
                     t : Nat, spent : Nat, draft : Readings]
        /\ ops'.pc = "ask" /\ ops'.i = ops.i /\ ops'.spent = ops.spent /\ ops'.t = t
        /\ ops'.draft = kept[Host]
    BY <1>1, <1>2, <2>1, <2>2
  <2>4. ops'.spent + ops'.t <= ops'.i * MaxTook
    BY <1>1, <1>2, <1>3, <2>2, <2>3
  <2>5. AgentInv'
    BY <1>1, <1>2, <2>3, <2>4 DEF AgentInv, Host, KeptIsOfItsHost
  <2> QED
    BY <1>1, <2>3, <2>5, HostIsAsked
<1> QED
  BY <1>4, <1>5

\* A host answers, or it does not: then the agent has missed it.
LEMMA PassAskKeeps ==
  ASSUME PollsInv, PassAsk
  PROVE  PollsInv'
<1>1. /\ ops \in [pc : {"pass", "ask", "write", "rename", "wait"}, i : 1..Len(OpsHosts) + 1,
                  t : Nat, spent : Nat, draft : Readings]
      /\ kept \in [Hosts -> Readings] /\ missed \in [Hosts -> BOOLEAN] /\ pollFaults \in Nat
      /\ ops.pc = "ask" /\ ops.t = 0 /\ UNCHANGED <<kept, view, opsScreen>>
      /\ KeptIsOfItsHost /\ ops.spent + ops.t <= ops.i * MaxTook
      /\ ops.i <= Len(OpsHosts) /\ ops.draft \in ReadingOf(Host)
  BY DEF PollsInv, PollsTypeOK, PassAsk, AgentInv
<1>2. ops.i \in 1..Len(OpsHosts) /\ Host \in Hosts
  <2>1. ops.i \in 1..Len(OpsHosts)
    BY <1>1, PollConstants
  <2> QED
    BY <2>1, PollConstants DEF Host
<1>3. ops.spent <= ops.i * MaxTook
  BY <1>1
<1>4. pollFaults' \in Nat
  <2>1. pollFaults' = pollFaults \/ pollFaults' = pollFaults + 1
    BY DEF PassAsk, PollFault
  <2> QED
    BY <1>1, <2>1
<1>5. KeptIsOfItsHost'
  BY <1>1 DEF KeptIsOfItsHost
<1>6. CASE ops' = NextHost /\ missed' = [missed EXCEPT ![Host] = TRUE]
  <2>1. missed' \in [Hosts -> BOOLEAN] /\ missed'[Host] /\ \A g \in Hosts : g # Host => missed'[g] = missed[g]
    BY <1>1, <1>2, <1>6
  <2> QED
    BY <1>1, <1>3, <1>4, <1>5, <1>6, <2>1, HostIsDone
<1>7. ASSUME NEW content \in {"whole", "gap"}, UNCHANGED missed,
             ops' = [ops EXCEPT !.pc = "write", !.draft =
                       Gathered(Host, ops.draft, AgeAtStart(ops.draft), ops.spent, content)]
      PROVE  PollsInv'
  <2> DEFINE g == Gathered(Host, ops.draft, AgeAtStart(ops.draft), ops.spent, content)
  <2>1. ops.draft.age \in Int /\ ops.spent \in Nat
    BY <1>1 DEF Readings, Nothing
  <2>2. AgeAtStart(ops.draft) \in Int
    BY <2>1 DEF AgeAtStart
  <2>3. g \in ReadingOf(Host) /\ g # Nothing /\ g.age <= ops.spent
    BY <1>1, <1>2, <1>7, <2>1, <2>2, GatheredReading
  <2>4. g \in Readings
    BY <2>3 DEF ReadingOf
  <2>5. ops' = [ops EXCEPT !.pc = "write", !.draft = g]
    BY <1>7
  <2> HIDE DEF g
  <2>6. /\ ops' \in [pc : {"pass", "ask", "write", "rename", "wait"}, i : 1..Len(OpsHosts) + 1,
                     t : Nat, spent : Nat, draft : Readings]
        /\ ops'.pc = "write" /\ ops'.i = ops.i /\ ops'.spent = ops.spent /\ ops'.draft = g
    BY <1>1, <2>4, <2>5
  <2>7. AgentInv'
    BY <1>1, <1>3, <2>3, <2>6 DEF AgentInv, Host
  <2> QED
    BY <1>1, <1>4, <1>7, <2>6, <2>7, HostIsAsked
<1>8. \/ ops' = NextHost /\ missed' = [missed EXCEPT ![Host] = TRUE]
      \/ \E content \in {"whole", "gap"} :
           /\ UNCHANGED missed
           /\ ops' = [ops EXCEPT !.pc = "write", !.draft =
                        Gathered(Host, ops.draft, AgeAtStart(ops.draft), ops.spent, content)]
  <2>1. Outcomes \subseteq {"whole", "gap", "ended"}
    BY DEF Outcomes
  <2> QED
    BY <2>1 DEF PassAsk
<1> QED
  BY <1>6, <1>7, <1>8

\* What is kept is left if it is newer than what was gathered, and replaced else.
LEMMA PassKeeps ==
  ASSUME PollsInv, PassCheck \/ PassWrite
  PROVE  PollsInv'
<1>1. /\ ops \in [pc : {"pass", "ask", "write", "rename", "wait"}, i : 1..Len(OpsHosts) + 1,
                  t : Nat, spent : Nat, draft : Readings]
      /\ kept \in [Hosts -> Readings] /\ missed \in [Hosts -> BOOLEAN] /\ pollFaults \in Nat
      /\ ops.pc \in {"write", "rename"} /\ UNCHANGED <<view, opsScreen>>
      /\ PollsTypeOK /\ KeptIsOfItsHost /\ ops.spent <= ops.i * MaxTook
      /\ ops.i <= Len(OpsHosts) /\ ops.draft \in ReadingOf(Host)
      /\ ops.draft # Nothing /\ ops.draft.age <= ops.spent
  BY DEF PollsInv, PollsTypeOK, PassCheck, PassWrite, AgentInv
<1>2. ops.i \in 1..Len(OpsHosts) /\ Host \in Hosts /\ LeftBy(Host) \in Nat
  <2>1. ops.i \in 1..Len(OpsHosts)
    BY <1>1, PollConstants
  <2>2. Host \in Hosts
    BY <2>1, PollConstants DEF Host
  <2> QED
    BY <2>1, <2>2, PollConstants
<1>3. ops.draft.age \in Nat /\ ops.spent \in Nat
  BY <1>1 DEF Readings
<1>4. CASE PassCheck
  <2>1. UNCHANGED <<kept, missed, pollFaults>>
    BY <1>4 DEF PassCheck
  <2>2. CASE kept[Host] # Nothing /\ kept[Host].age < ops.draft.age
    <3>1. ops' = NextHost
      BY <1>4, <2>2 DEF PassCheck
    <3>2. kept[Host].age \in Nat
      BY <1>1, <1>2, <2>2 DEF Readings
    <3>3. kept[Host].age - ops.spent <= LeftBy(Host)
      BY <1>1, <1>2, <1>3, <2>2, <3>2
    <3>4. KeptIsOfItsHost'
      BY <1>1, <2>1 DEF KeptIsOfItsHost
    <3> QED
      BY <1>1, <2>1, <3>1, <3>3, <3>4, HostIsDone
  <2>3. CASE ~(kept[Host] # Nothing /\ kept[Host].age < ops.draft.age)
    <3>1. ops' = [ops EXCEPT !.pc = "rename"]
      BY <1>4, <2>3 DEF PassCheck
    <3>2. /\ ops' \in [pc : {"pass", "ask", "write", "rename", "wait"}, i : 1..Len(OpsHosts) + 1,
                       t : Nat, spent : Nat, draft : Readings]
          /\ ops'.pc = "rename" /\ ops'.i = ops.i /\ ops'.spent = ops.spent /\ ops'.draft = ops.draft
      BY <1>1, <3>1
    <3>3. AgentInv'
      BY <1>1, <3>2 DEF AgentInv, Host
    <3> QED
      BY <1>1, <2>1, <3>2, <3>3, HostIsAsked
  <2> QED
    BY <2>2, <2>3
<1>5. CASE PassWrite
  <2>1. ops' = NextHost
    BY <1>5 DEF PassWrite
  <2>2. CASE Replaced(Host, ops.draft) /\ missed' = [missed EXCEPT ![Host] = FALSE] /\ UNCHANGED pollFaults
    <3>1. /\ kept' \in [Hosts -> Readings] /\ KeptIsOfItsHost'
          /\ kept'[Host].age = ops.draft.age
          /\ \A g \in Hosts : g # Host => kept'[g] = kept[g]
      BY <1>1, <1>2, <2>2, ReplacedReading
    <3>2. missed' \in [Hosts -> BOOLEAN] /\ \A g \in Hosts : g # Host => missed'[g] = missed[g]
      BY <1>1, <2>2
    <3>3. kept'[Host].age - ops.spent <= LeftBy(Host)
      BY <1>1, <1>2, <1>3, <3>1
    <3> QED
      BY <1>1, <2>1, <2>2, <3>1, <3>2, <3>3, HostIsDone
  <2>3. CASE pollFaults' = pollFaults + 1 /\ missed' = [missed EXCEPT ![Host] = TRUE] /\ UNCHANGED kept
    <3>1. missed' \in [Hosts -> BOOLEAN] /\ missed'[Host] /\ \A g \in Hosts : g # Host => missed'[g] = missed[g]
      BY <1>1, <1>2, <2>3
    <3>2. KeptIsOfItsHost' /\ pollFaults' \in Nat
      BY <1>1, <2>3 DEF KeptIsOfItsHost
    <3> QED
      BY <1>1, <2>1, <2>3, <3>1, <3>2, HostIsDone
  <2> QED
    BY <1>5, <2>2, <2>3 DEF PassWrite
<1> QED
  BY <1>4, <1>5

\* Between two passes: what is left of the tick, and of the time the pass took,
\* does not make an answer older than its cadence.
LEMMA WaitKeeps ==
  ASSUME PollsInv, PassOver \/ NextPass
  PROVE  PollsInv'
<1>1. /\ ops \in [pc : {"pass", "ask", "write", "rename", "wait"}, i : 1..Len(OpsHosts) + 1,
                  t : Nat, spent : Nat, draft : Readings]
      /\ kept \in [Hosts -> Readings] /\ missed \in [Hosts -> BOOLEAN] /\ pollFaults \in Nat
      /\ UNCHANGED <<kept, view, opsScreen, missed, pollFaults>>
      /\ PollsTypeOK /\ KeptIsOfItsHost /\ Len(OpsHosts) \in Nat /\ MaxTook \in Nat
  BY PollConstants DEF PollsInv, PollsTypeOK, PassOver, NextPass
<1>2. KeptIsOfItsHost' /\ ViewInv'
  BY <1>1 DEF PollsInv, KeptIsOfItsHost, ViewInv
<1>3. CASE PassOver
  <2> DEFINE t == MostOf(0, TickOf - ops.spent)
  <2>1. /\ ops.pc = "pass" /\ ops.i > Len(OpsHosts)
        /\ ops' = [ops EXCEPT !.pc = "wait", !.i = 1, !.t = t, !.spent = 0]
    BY <1>3 DEF PassOver
  <2>2. /\ TickOf \in Nat
        /\ \A h \in Hosts : /\ TickOf <= UnreadTickBy(h)
                            /\ kept[h].content = "whole" => TickOf <= TickBy(h)
    BY <1>1, TickIsShortEnough
  <2>3. t \in Nat /\ t <= TickOf /\ (t = 0 \/ t = TickOf - ops.spent)
    BY <1>1, <2>2 DEF MostOf
  <2> HIDE DEF t
  <2>4. /\ ops' \in [pc : {"pass", "ask", "write", "rename", "wait"}, i : 1..Len(OpsHosts) + 1,
                     t : Nat, spent : Nat, draft : Readings]
        /\ ops'.pc = "wait" /\ ops'.i = 1 /\ ops'.spent = 0 /\ ops'.t = t
    <3>1. 1 \in 1..Len(OpsHosts) + 1 /\ 0 \in Nat
      BY <1>1
    <3> QED
      BY <1>1, <2>1, <2>3, <3>1
  <2>5. ASSUME NEW h \in Hosts PROVE t <= UnreadTickBy(h)
    <3>1. TickOf <= UnreadTickBy(h) /\ UnreadTickBy(h) \in Nat
      BY <2>2, PollConstants
    <3> QED
      BY <2>2, <2>3, <3>1
  <2>6. AgentInv'
    BY <2>4, <2>5 DEF AgentInv, UnreadTickBy
  <2>7. ASSUME TimelyPasses, NEW h \in Hosts, kept[h].content = "whole", ~missed[h]
        PROVE  kept[h].age + t <= Cadence[h]
    <3>1. ops.i = Len(OpsHosts) + 1
      BY <1>1, <2>1
    <3>2. Passed(h)
      BY <1>1, <3>1 DEF Passed, Hosts
    <3>3. kept[h].age - ops.spent <= LeftBy(h)
      BY <2>1, <2>7, <3>2 DEF PollsInv, InTime, AgeAtStart
    <3>4. ops.spent <= Len(OpsHosts) * MaxTook
      <4>1. ops.i - 1 = Len(OpsHosts)
        BY <1>1, <3>1
      <4> QED
        BY <2>1, <4>1 DEF PollsInv, AgentInv
    <3>5. t <= TickBy(h)
      <4>1. TickOf <= TickBy(h) /\ TickBy(h) \in Nat
        BY <2>2, <2>7, PollConstants
      <4> QED
        BY <2>2, <2>3, <4>1
    <3>6. LeftBy(h) + MostOf(Len(OpsHosts) * MaxTook, TickBy(h)) <= Cadence[h]
      BY <2>7 DEF TimelyPasses
    <3> DEFINE all == Len(OpsHosts) * MaxTook
               left == LeftBy(h)
               tick == TickBy(h)
               age == kept[h].age
    <3>7. all \in Nat /\ left \in Nat /\ tick \in Nat /\ Cadence[h] \in Nat
      BY PollConstants
    <3>8. age \in Nat /\ ops.spent \in Nat
      <4>1. kept[h] \in Readings /\ kept[h] # Nothing
        BY <1>1, <2>7 DEF Nothing
      <4> QED
        BY <1>1, <4>1 DEF Readings
    <3>9. TickOf <= tick
      BY <2>2, <2>7
    <3> HIDE DEF all, left, tick, age
    <3>10. age - ops.spent <= left /\ ops.spent <= all /\ t <= tick /\ left + MostOf(all, tick) <= Cadence[h]
      BY <3>3, <3>4, <3>5, <3>6 DEF all, left, tick, age
    <3>11. left + all <= Cadence[h] /\ left + tick <= Cadence[h]
      BY <3>7, <3>10 DEF MostOf
    <3>12. CASE t = 0
      BY <3>7, <3>8, <3>10, <3>11, <3>12 DEF age
    <3>13. CASE t = TickOf - ops.spent
      BY <2>2, <3>7, <3>8, <3>9, <3>10, <3>11, <3>13 DEF age
    <3> QED
      BY <2>3, <3>12, <3>13
  <2>8. InTime'
    BY <1>1, <2>4, <2>7 DEF InTime
  <2>9. PollsTypeOK'
    BY <1>1, <2>4 DEF PollsTypeOK
  <2> QED
    BY <1>2, <2>6, <2>8, <2>9 DEF PollsInv
<1>4. CASE NextPass
  <2>1. ops.pc = "wait" /\ ops.t = 0 /\ ops.i = 1 /\ ops.spent = 0 /\ ops' = [ops EXCEPT !.pc = "pass"]
    BY <1>4 DEF NextPass, PollsInv, AgentInv
  <2>2. /\ ops' \in [pc : {"pass", "ask", "write", "rename", "wait"}, i : 1..Len(OpsHosts) + 1,
                     t : Nat, spent : Nat, draft : Readings]
        /\ ops'.pc = "pass" /\ ops'.i = 1 /\ ops'.spent = 0
    BY <1>1, <2>1
  <2>3. AgentInv'
    BY <1>1, <2>2 DEF AgentInv
  <2>4. ASSUME TimelyPasses, NEW h \in Hosts, kept[h].content = "whole", ~missed[h]
        PROVE  AgeAtStart(kept[h])' <= Cadence[h] /\ ~Passed(h)'
    <3>1. kept[h].age + 0 <= Cadence[h]
      BY <2>1, <2>4 DEF PollsInv, InTime
    <3>2. kept[h].age \in Nat
      <4>1. kept[h] \in Readings /\ kept[h] # Nothing
        BY <1>1, <2>4 DEF Nothing
      <4> QED
        BY <4>1 DEF Readings
    <3>3. AgeAtStart(kept[h])' = kept[h].age
      BY <1>1, <2>2, <3>2 DEF AgeAtStart
    <3>4. ~Passed(h)'
      BY <2>2 DEF Passed
    <3> QED
      BY <3>1, <3>2, <3>3, <3>4
  <2>5. InTime'
    BY <1>1, <2>2, <2>4 DEF InTime
  <2>6. PollsTypeOK'
    BY <1>1, <2>2 DEF PollsTypeOK
  <2> QED
    BY <1>2, <2>3, <2>5, <2>6 DEF PollsInv
<1> QED
  BY <1>3, <1>4

\* Time passes: answers grow older, while the pass spends as much or the wait
\* shrinks as much.
LEMMA TickKeeps ==
  ASSUME PollsInv, Tick
  PROVE  PollsInv'
<1>1. /\ ops \in [pc : {"pass", "ask", "write", "rename", "wait"}, i : 1..Len(OpsHosts) + 1,
                  t : Nat, spent : Nat, draft : Readings]
      /\ view \in [pc : {"off", "sleep", "look", "open", "ask", "write", "rename"}, t : Nat,
                   session : BOOLEAN, shown : Int, draft : Readings, took : 0..MaxTook]
      /\ opsScreen \in [says : {"asking", "ready", "failed"}, answer : Readings]
      /\ kept \in [Hosts -> Readings] /\ UNCHANGED <<missed, pollFaults>>
      /\ kept' = [h \in Hosts |-> OlderBy1(kept[h])]
  BY DEF PollsInv, PollsTypeOK, Tick
<1>2. \A h \in Hosts : kept[h] \in Readings /\ kept'[h] = OlderBy1(kept[h])
  BY <1>1
<1>3. kept' \in [Hosts -> Readings] /\ KeptIsOfItsHost'
  <2>1. kept' \in [Hosts -> Readings]
    BY <1>1, <1>2, OlderReading
  <2>2. ASSUME NEW h \in Hosts PROVE kept'[h] \in ReadingOf(h)
    <3>1. kept[h] \in ReadingOf(h)
      BY DEF PollsInv, KeptIsOfItsHost
    <3> QED
      BY <1>2, <3>1, OlderReading
  <2> QED
    BY <2>1, <2>2 DEF KeptIsOfItsHost
<1>4. /\ view' \in [pc : {"off", "sleep", "look", "open", "ask", "write", "rename"}, t : Nat,
                    session : BOOLEAN, shown : Int, draft : Readings, took : 0..MaxTook]
      /\ ViewInv'
  <2> DEFINE draft == OlderBy1(view.draft)
             shown == IF view.shown < 0 THEN view.shown ELSE Aged(view.shown)
  <2>1. view' = [view EXCEPT !.t = Counted(view), !.draft = draft, !.shown = shown]
    BY <1>1 DEF Tick
  <2>2. draft \in Readings /\ draft \in ReadingOf(Watched)
    BY <1>1, PollConstants, OlderReading DEF PollsInv, ViewInv
  <2>3. shown \in Int
    <3>1. view.shown \in Int /\ Old \in Nat
      BY <1>1, PollConstants
    <3> QED
      BY <3>1 DEF Aged, LeastOf
  <2>4. Counted(view) \in Nat
    BY <1>1 DEF Counted
  <2> HIDE DEF draft, shown
  <2>5. /\ view' \in [pc : {"off", "sleep", "look", "open", "ask", "write", "rename"}, t : Nat,
                      session : BOOLEAN, shown : Int, draft : Readings, took : 0..MaxTook]
        /\ view'.draft = draft /\ view'.pc = view.pc
    BY <1>1, <2>1, <2>2, <2>3, <2>4
  <2>6. view.pc \notin {"write", "rename"}
    BY DEF Tick, Idle
  <2> QED
    BY <2>2, <2>5, <2>6 DEF ViewInv
<1>5. opsScreen' \in [says : {"asking", "ready", "failed"}, answer : Readings]
  <2>1. OlderBy1(opsScreen.answer) \in Readings
    BY <1>1, OlderReading
  <2> QED
    BY <1>1, <2>1 DEF Tick
<1> DEFINE spent == IF ops.pc = "ask" THEN ops.spent + 1 ELSE ops.spent
           draft == OlderBy1(ops.draft)
<1>6. ops.pc \in {"ask", "wait"} /\ ops.t > 0
  BY <1>1 DEF Tick, Idle
<1>7. ops.t - 1 \in Nat /\ spent \in Nat /\ draft \in Readings
  BY <1>1, <1>6, OlderReading
<1>8. ops' = [ops EXCEPT !.t = ops.t - 1, !.draft = draft, !.spent = spent]
  BY <1>1, <1>6 DEF Tick, Counted
<1>9. spent = IF ops.pc = "ask" THEN ops.spent + 1 ELSE ops.spent
  OBVIOUS
<1>10. ops.draft \in Readings /\ \A h \in Hosts : ops.draft \in ReadingOf(h) => draft \in ReadingOf(h)
  BY <1>1, OlderReading
<1> HIDE DEF spent, draft
<1>11. /\ ops' \in [pc : {"pass", "ask", "write", "rename", "wait"}, i : 1..Len(OpsHosts) + 1,
                    t : Nat, spent : Nat, draft : Readings]
       /\ ops'.pc = ops.pc /\ ops'.i = ops.i /\ ops'.t = ops.t - 1 /\ ops'.spent = spent
       /\ ops'.draft = draft
  BY <1>1, <1>7, <1>8
<1>12. AgentInv'
  <2>1. CASE ops.pc = "ask"
    <3>1. ops.i <= Len(OpsHosts) /\ ops.draft \in ReadingOf(Host) /\ ops.spent + ops.t <= ops.i * MaxTook
      BY <2>1 DEF PollsInv, AgentInv
    <3>2. ops.i \in 1..Len(OpsHosts)
      BY <1>1, <3>1, PollConstants
    <3>3. Host \in Hosts /\ Host' = Host
      BY <1>11, <3>2, PollConstants DEF Host
    <3>4. ops'.spent + ops'.t <= ops'.i * MaxTook
      <4>1. ops'.spent + ops'.t = ops.spent + ops.t
        BY <1>1, <1>9, <1>11, <2>1
      <4> QED
        BY <1>11, <3>1, <4>1
    <3> QED
      BY <1>10, <1>11, <2>1, <3>1, <3>3, <3>4 DEF AgentInv
  <2>2. CASE ops.pc = "wait"
    <3>1. ops.i = 1 /\ ops.spent = 0 /\ \A h \in Hosts : ops.t <= UnreadTickBy(h)
      BY <2>2 DEF PollsInv, AgentInv
    <3>2. ASSUME NEW h \in Hosts PROVE ops'.t <= UnreadTickBy(h)
      <4>1. ops.t <= UnreadTickBy(h) /\ UnreadTickBy(h) \in Nat
        BY <3>1, PollConstants
      <4> QED
        BY <1>1, <1>11, <4>1
    <3>3. ops'.spent = 0
      BY <1>9, <1>11, <2>2, <3>1
    <3> QED
      BY <1>11, <2>2, <3>1, <3>2, <3>3 DEF AgentInv, UnreadTickBy
  <2> QED
    BY <1>6, <2>1, <2>2
<1>13. ASSUME TimelyPasses, NEW h \in Hosts, kept'[h].content = "whole", ~missed'[h]
       PROVE  /\ ops'.pc = "wait" => kept'[h].age + ops'.t <= Cadence[h]
              /\ ops'.pc # "wait" => AgeAtStart(kept[h])' <= Cadence[h]
              /\ ops'.pc # "wait" /\ Passed(h)' => AgeAtStart(kept[h])' <= LeftBy(h)
  <2>1. kept[h].content = "whole" /\ kept[h] # Nothing
    BY <1>2, <1>13, OlderReading DEF Nothing
  <2>2. kept[h].age \in Nat /\ kept'[h].age \in Nat /\ kept'[h].age <= kept[h].age + 1
    BY <1>2, <2>1, OlderReading
  <2>3. ~missed[h]
    BY <1>1, <1>13
  <2>4. Cadence[h] \in Nat /\ LeftBy(h) \in Nat
    BY PollConstants
  <2>5. CASE ops.pc = "ask"
    <3>1. AgeAtStart(kept[h]) <= Cadence[h] /\ (Passed(h) => AgeAtStart(kept[h]) <= LeftBy(h))
      BY <1>13, <2>1, <2>3, <2>5 DEF PollsInv, InTime
    <3>2. AgeAtStart(kept[h])' = kept'[h].age - (ops.spent + 1)
      BY <1>9, <1>11, <2>5 DEF AgeAtStart
    <3>3. AgeAtStart(kept[h]) = kept[h].age - ops.spent
      BY DEF AgeAtStart
    <3>4. AgeAtStart(kept[h])' \in Int /\ AgeAtStart(kept[h]) \in Int /\ AgeAtStart(kept[h])' <= AgeAtStart(kept[h])
      <4>1. ops.spent \in Nat
        BY <1>1
      <4> QED
        BY <2>2, <3>2, <3>3, <4>1
    <3>5. Passed(h)' <=> Passed(h)
      BY <1>11 DEF Passed
    <3> QED
      BY <1>11, <2>4, <2>5, <3>1, <3>4, <3>5
  <2>6. CASE ops.pc = "wait"
    <3>1. kept[h].age + ops.t <= Cadence[h]
      BY <1>13, <2>1, <2>3, <2>6 DEF PollsInv, InTime
    <3>2. kept'[h].age + ops'.t <= Cadence[h]
      <4>1. ops'.t = ops.t - 1 /\ ops.t \in Nat
        BY <1>1, <1>11
      <4> QED
        BY <2>2, <2>4, <3>1, <4>1
    <3> QED
      BY <1>11, <2>6, <3>2
  <2> QED
    BY <1>6, <2>5, <2>6
<1>14. InTime'
  BY <1>13 DEF InTime
<1>15. PollsTypeOK'
  BY <1>1, <1>3, <1>4, <1>5, <1>11 DEF PollsInv, PollsTypeOK
<1> QED
  BY <1>3, <1>4, <1>12, <1>14, <1>15 DEF PollsInv

\* Every step keeps the invariant.
LEMMA PollsNext == ASSUME PollsInv, [OpsNext]_opsVars PROVE PollsInv'
<1>1. CASE UNCHANGED opsVars
  <2>1. UNCHANGED <<kept, view, opsScreen, ops, missed, pollFaults>>
    BY <1>1 DEF opsVars
  <2>2. PollsTypeOK' /\ KeptIsOfItsHost' /\ ViewInv'
    BY <2>1 DEF PollsInv, PollsTypeOK, KeptIsOfItsHost, ViewInv
  <2>3. AgentInv' /\ InTime'
    BY <2>1 DEF PollsInv, AgentInv, InTime, AgeAtStart, Passed, Host
  <2> QED
    BY <2>2, <2>3 DEF PollsInv
<1> QED
  BY <1>1, ViewLooks, ViewAsks, ViewWrites, PassHostKeeps, PassAskKeeps, PassKeeps, WaitKeeps,
     TickKeeps DEF OpsNext, View, Agent

\* The invariant of the polls.
THEOREM PollsInvariant == OpsSpec => []PollsInv
<1>1. OpsInit => PollsInv
  BY PollsInit
<1>2. PollsInv /\ [OpsNext]_opsVars => PollsInv'
  BY PollsNext
<1> QED
  BY <1>1, <1>2, PTL DEF OpsSpec

\* ops_agent::cycle and pass::run: with timing constants under which the agent is
\* in time, an answer is replaced within its host's own cadence, unless asking
\* the host failed, whatever the view keeps in between.
THEOREM HostsAreReadInTime == ASSUME TimelyPasses PROVE OpsSpec => []ReadOncePerCadence
<1>1. ASSUME PollsInv PROVE ReadOncePerCadence
  <2> SUFFICES ASSUME NEW h \in Hosts, kept[h].content = "whole", ~missed[h]
               PROVE  AgeAtStart(kept[h]) <= Cadence[h]
    BY DEF ReadOncePerCadence
  <2>1. CASE ops.pc = "wait"
    <3>1. kept[h].age + ops.t <= Cadence[h] /\ ops.spent = 0
      BY <1>1, <2>1 DEF PollsInv, InTime, AgentInv
    <3>2. ops.t \in Nat /\ kept[h].age \in Nat
      <4>1. kept[h] \in Readings /\ kept[h] # Nothing
        BY <1>1 DEF PollsInv, PollsTypeOK, Nothing
      <4> QED
        BY <1>1, <4>1 DEF PollsInv, PollsTypeOK, Readings
    <3>3. Cadence[h] \in Nat
      BY PollConstants
    <3> QED
      BY <3>1, <3>2, <3>3 DEF AgeAtStart
  <2>2. CASE ops.pc # "wait"
    BY <1>1, <2>2 DEF PollsInv, InTime
  <2> QED
    BY <2>1, <2>2
<1>2. PollsInv => ReadOncePerCadence
  BY <1>1
<1> QED
  BY <1>2, PollsInvariant, PTL

\* ops_poll::poll, pass::gather_one: what a session had answered when it ended is
\* neither kept nor shown as an answer, whatever the timing.
THEOREM NothingHalfIsKept == OpsSpec => []NoHalfAnswerKept
<1>1. ASSUME PollsInv PROVE NoHalfAnswerKept
  <2>1. \A a \in Readings : a.content # "ended"
    BY DEF Readings, Nothing
  <2>2. (\A h \in Hosts : kept[h] \in Readings) /\ opsScreen.answer \in Readings
    BY <1>1 DEF PollsInv, PollsTypeOK
  <2> QED
    BY <2>1, <2>2 DEF NoHalfAnswerKept
<1>2. PollsInv => NoHalfAnswerKept
  BY <1>1
<1> QED
  BY <1>2, PollsInvariant, PTL
=============================================================================
