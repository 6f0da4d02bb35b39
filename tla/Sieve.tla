------------------------------- MODULE Sieve -------------------------------
(***************************************************************************)
(* The sieve that takes the agent's markers out of what a terminal says:   *)
(* crates/agent/src/exec/sieve.rs, fed by crates/agent/src/exec/pump.rs.   *)
(*                                                                         *)
(* The shell and the operator's command write to one terminal; the agent   *)
(* reads it in chunks that end anywhere.  A byte is text, a blank, a       *)
(* carriage return, a newline, or a part of a marker: the part all markers *)
(* share ("m") and the part that tells them apart (a kind).                *)
(***************************************************************************)
EXTENDS Naturals, Sequences, FiniteSetsExt, SequencesExt

CONSTANTS
  MarkKinds,   \* the markers
  NoMark,        \* no marker: a piece of output
  MaxText,       \* bound: bytes and newlines of output
  MaxMarks,      \* bound: markers echoed
  SplitsNewline  \* whether a read may end within the two bytes of a newline

ASSUME SieveAssumption ==
  /\ {"m", "text", "blank", "cr", "nl"} \cap MarkKinds = {}
  /\ NoMark \notin MarkKinds
  /\ MaxText \in Nat /\ MaxMarks \in Nat
  /\ SplitsNewline \in BOOLEAN

VARIABLES
  phase,    \* the terminal: open, ended, or its sieve finished
  tty,      \* bytes written and not read
  partial,  \* Sieve.partial
  pieces,   \* what the sieve has found, with the bytes it found it in
  written   \* history: every byte written

sieveVars == <<phase, tty, partial, pieces, written>>

OutText        == {"m", "text", "blank", "cr"}
Bytes          == OutText \cup {"nl"} \cup MarkKinds
MarkerText(k) == <<"m", k>>
NewLine       == <<"cr", "nl">>   \* what the terminal makes of a newline
Echo(k)       == MarkerText(k) \o NewLine

Piece(k, bytes) == [mark |-> k, bytes |-> bytes]

---------------------------------------------------------------------------
\* marker_of: a line is a marker if any state a carriage return left it in is
\* one, blanks aside; the first such state decides.
Blanks   == {"blank", "nl"}
Solid(s) == {i \in DOMAIN s : s[i] \notin Blanks}

Trim(s) ==
  IF Solid(s) = {} THEN <<>> ELSE SubSeq(s, Min(Solid(s)), Max(Solid(s)))

Returns(s) == {i \in DOMAIN s : s[i] = "cr"}
Starts(s)  == {1} \cup {i + 1 : i \in Returns(s)}

StateAt(s, i) == SubSeq(s, i, Min({j - 1 : j \in {r \in Returns(s) : r >= i}}
                                    \cup {Len(s)}))

IsMarkerAt(s, i) == \E k \in MarkKinds : Trim(StateAt(s, i)) = MarkerText(k)

MarkerOf(s) ==
  LET found == {i \in Starts(s) : IsMarkerAt(s, i)} IN
  IF found = {} THEN NoMark ELSE Trim(StateAt(s, Min(found)))[2]

\* could_become_marker, on the state after the last carriage return.
LastState(s) == StateAt(s, Max(Starts(s)))
TrimStart(s) == IF Solid(s) = {} THEN <<>> ELSE SubSeq(s, Min(Solid(s)), Len(s))
Longest      == 2   \* the length of a MarkerText

\* Mutant: the length budget measures the whole line.
MeasuresAll(s) ==
  /\ Len(s) <= Longest
  /\ TrimStart(LastState(s)) # <<>>
  /\ \E k \in MarkKinds : IsPrefix(TrimStart(LastState(s)), MarkerText(k))

CouldBecomeMarker(s) ==
  /\ Len(LastState(s)) <= Longest
  /\ TrimStart(LastState(s)) # <<>>
  /\ \E k \in MarkKinds : IsPrefix(TrimStart(LastState(s)), MarkerText(k))

\* feed: complete lines first, then the tail.
Ends(s) == {i \in DOMAIN s : s[i] = "nl"}
Rest(s) == SubSeq(s, Max(Ends(s) \cup {0}) + 1, Len(s))

\* Where the j-th line ends.
EndOf(s, j) == CHOOSE i \in Ends(s) \cup {0} : Cardinality({e \in Ends(s) : e <= i}) = j
Lines(s) ==
  [j \in 1..Cardinality(Ends(s)) |-> SubSeq(s, EndOf(s, j - 1) + 1, EndOf(s, j))]

Sifted(s) == [j \in DOMAIN Lines(s) |-> Piece(MarkerOf(Lines(s)[j]), Lines(s)[j])]

Released(s) == s # <<>> /\ ~CouldBecomeMarker(s)

---------------------------------------------------------------------------
SieveInit ==
  /\ phase = "open"
  /\ tty = <<>> /\ partial = <<>> /\ pieces = <<>> /\ written = <<>>

\* How many markers and how many bytes and newlines of output are written.
Marks == Cardinality({i \in DOMAIN written : written[i] \in MarkKinds})
Texts == Cardinality({i \in DOMAIN written : written[i] # "nl"}) - 3 * Marks

Write(bytes) ==
  /\ tty' = tty \o bytes
  /\ written' = written \o bytes
  /\ UNCHANGED <<partial, pieces>>

\* The command writes what it likes, one byte or newline at a time; the script
\* echoes a marker, which a shell killed on a full terminal may leave half
\* written.
Output ==
  /\ phase = "open" /\ Texts < MaxText
  /\ Write(NewLine) \/ \E b \in OutText : Write(<<b>>)
  /\ UNCHANGED phase

EchoMarker ==
  /\ phase = "open" /\ Marks < MaxMarks
  /\ \E k \in MarkKinds : Write(Echo(k))
  /\ UNCHANGED phase

KilledInEcho ==
  /\ phase = "open" /\ Marks < MaxMarks
  /\ \E k \in MarkKinds, n \in 0..Longest : Write(SubSeq(Echo(k), 1, n))
  /\ phase' = "ended"

EndsWithinNewline(n) == SubSeq(tty, n, n + 1) = NewLine

\* Mutant: the tail goes out and stays.
FeedAndKeep ==
  /\ phase # "finished"
  /\ \E n \in DOMAIN tty :
       LET all == partial \o SubSeq(tty, 1, n) IN
       /\ n < Len(tty) /\ EndsWithinNewline(n) => SplitsNewline
       /\ tty' = SubSeq(tty, n + 1, Len(tty))
       /\ pieces' = pieces \o Sifted(all)
                      \o IF Released(Rest(all)) THEN <<Piece(NoMark, Rest(all))>> ELSE <<>>
       /\ partial' = Rest(all)
  /\ UNCHANGED <<phase, written>>

\* feed, on whatever one read brings.
FeedSieve ==
  /\ phase # "finished"
  /\ \E n \in DOMAIN tty :
       LET all == partial \o SubSeq(tty, 1, n) IN
       /\ n < Len(tty) /\ EndsWithinNewline(n) => SplitsNewline
       /\ tty' = SubSeq(tty, n + 1, Len(tty))
       /\ IF Released(Rest(all))
            THEN /\ pieces' = pieces \o Sifted(all) \o <<Piece(NoMark, Rest(all))>>
                 /\ partial' = <<>>
            ELSE pieces' = pieces \o Sifted(all) /\ partial' = Rest(all)
  /\ UNCHANGED <<phase, written>>

\* finish, at the end of the stream.
FinishSieve ==
  /\ phase = "ended" /\ tty = <<>>
  /\ pieces' = IF partial = <<>> THEN pieces
               ELSE Append(pieces, Piece(MarkerOf(partial), partial))
  /\ partial' = <<>>
  /\ phase' = "finished"
  /\ UNCHANGED <<tty, written>>

SieveNext == Output \/ EchoMarker \/ KilledInEcho \/ FeedSieve \/ FinishSieve

SieveSpec == SieveInit /\ [][SieveNext]_sieveVars

---------------------------------------------------------------------------
\* The values of the variables; a sieve that is finished holds nothing back.
SieveTypeOK ==
  /\ phase = "finished" => partial = <<>>
  /\ phase \in {"open", "ended", "finished"}
  /\ \A s \in {tty, partial, written} : s \in Seq(Bytes)
  /\ pieces \in Seq([mark : MarkKinds \cup {NoMark}, bytes : Seq(Bytes)])

\* However the reads fall, every byte of the terminal goes to exactly one piece
\* and in order: no output is lost, and none is emitted again by a later read.
NothingLostOrTwice ==
  FlattenSeq([i \in DOMAIN pieces |-> pieces[i].bytes]) \o partial \o tty = written

\* A prompt goes out the moment it arrives: what is held back would be a marker
\* if nothing but the rest of one and a newline came next.
HeldMayBeMarker ==
  partial # <<>> =>
    \E k \in MarkKinds, i \in 1..(Longest + 1) :
      MarkerOf(partial \o SubSeq(Echo(k), i, Len(Echo(k)))) # NoMark

\* Where the script's own markers are in what was written, and which of them
\* start a line, or a line a carriage return went back on.
Echoes     == {i \in DOMAIN written : i + 3 <= Len(written) /\ written[i + 1] \in MarkKinds}
AtStart(i) == i = 1 \/ written[i - 1] \in {"cr", "nl"}

\* How far into what was written a piece reaches.
Reaches(j) == Len(FlattenSeq([i \in 1..j |-> pieces[i].bytes]))
ReadChunk == Len(written) - Len(tty)

Found(i) ==
  \E j \in DOMAIN pieces : pieces[j].mark = written[i + 1] /\ Reaches(j) = i + 3

\* A marker on a line of its own, or on one a progress bar went back on, is
\* found as itself wherever reads split it, and before anything behind it.
MarkersAreFound ==
  \A i \in Echoes : AtStart(i) /\ i + 3 <= ReadChunk => Found(i)

\* A marker cannot be missed for want of a newline before it.
MarkersNeedNoNewline == \A i \in Echoes : i + 3 <= ReadChunk => Found(i)

\* A marker needs its newline to be a marker; a partial that never got one is
\* output.
MarkersHaveNewlines ==
  \A j \in DOMAIN pieces : pieces[j].mark # NoMark => Last(pieces[j].bytes) = "nl"
=============================================================================
