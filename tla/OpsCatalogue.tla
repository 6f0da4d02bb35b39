----------------------------- MODULE OpsCatalogue -----------------------------
(***************************************************************************)
(* One reading of a host over MCP: a session is opened, the list of tools  *)
(* is taken from the server or from the copy kept on disk                  *)
(* (mcp/client.rs, mcp/catalogue.rs), and each section of the Ops card is  *)
(* asked of the tool that answers it (ops/gather.rs).                      *)
(*                                                                         *)
(* Two pollers read one host and share the kept list.  A server is the one *)
(* that ran when the session was opened; it publishes the digest of its    *)
(* list, or it is the agent's own server (agent mcp.rs), which publishes   *)
(* none, and whose list follows the machine from one request to the next.  *)
(***************************************************************************)
EXTENDS Integers, Sequences, FiniteSets

CONSTANTS
  Pollers,    \* the processes that read the host
  Sections,   \* the tools of the card's sections, in the order they are asked
  Versions,   \* the versions a server names; "" names none
  Window,     \* how long the server says that its list may be kept (ttlMs)
  MaxMoves,   \* bound of the changes of the server
  MaxBreaks   \* bound of the answers that do not come, and of the failed writes

ASSUME CatalogueAssumption ==
  /\ Sections \in Seq({Sections[i] : i \in DOMAIN Sections})
  /\ Window \in Nat /\ MaxMoves \in Nat /\ MaxBreaks \in Nat

VARIABLES
  server,    \* what the host runs now
  keptList,  \* the kept list, or NoList
  reader,    \* the session of each poller
  served,    \* history: how long ago each list was the answer of tools/list
  listings,  \* history: tools/list answered since the server moved or a list expired
  moves, breaks

catVars == <<server, keptList, reader, served, listings, moves, breaks>>

Tools == {Sections[i] : i \in 1..Len(Sections)}
NoList == [version |-> "none", absent |-> {}, tools |-> {}, digest |-> <<>>, age |-> 0]

\* What a server offers; its schema is what a digest sees and the names do not tell.
Offers == [version : Versions, tools : SUBSET Tools, schema : 1..2, publishes : BOOLEAN]
\* The digest of the exact list, of the servers that publish one.
Digest(s) == IF s.publishes THEN <<s.tools, s.schema>> ELSE <<>>
\* fingerprint: the names of the tools that the server says it does not offer.
Fingerprint(s) == Tools \ s.tools

CatIdle == [pc |-> "off", says |-> server, tools |-> {}, proof |-> "none",
         broken |-> FALSE, card |-> <<>>]

CatInit ==
  /\ server \in {s \in Offers : s.schema = 1 /\ s.tools = Tools}
  /\ keptList = NoList
  /\ reader = [p \in Pollers |-> CatIdle]
  /\ served = [t \in SUBSET Tools |-> Window]
  /\ listings = 0
  /\ moves = 0 /\ breaks = 0

---------------------------------------------------------------------------
\* Entry::is_fresh.
InWindow(k) == k.age < Window

\* Mutant: the version alone is the key, digest or none.
HitByVersion(k, s) ==
  IF k = NoList \/ ~InWindow(k) \/ k.version # s.version THEN "missed"
  ELSE IF s.publishes THEN "digest" ELSE "guess"
\* Store::hit: a published digest decides; without one the version and the absent
\* set do, and the answer says that this was the weaker check.
Hit(k, s) ==
  IF k = NoList \/ ~InWindow(k) THEN "missed"
  ELSE IF s.publishes THEN (IF k.digest = Digest(s) THEN "digest" ELSE "missed")
  ELSE IF k.version = s.version /\ k.absent = Fingerprint(s) THEN "guess" ELSE "missed"

\* open, and connect_with up to the list: what discover says, and the kept list
\* held against it.
OpenCatSession(p) ==
  /\ reader[p].pc = "off"
  /\ LET proof == Hit(keptList, server)
     IN reader' = [reader EXCEPT ![p] =
          [CatIdle EXCEPT !.says = server, !.proof = proof,
                       !.pc = IF proof = "missed" THEN "list" ELSE "ask",
                       !.tools = IF proof = "missed" THEN {} ELSE keptList.tools]]
  /\ UNCHANGED <<server, keptList, served, listings, moves, breaks>>

\* Server::list_tools answers with what the machine has now; a server that
\* publishes its digest answers with the list it is of.
ListOf(p) == IF reader[p].says.publishes THEN reader[p].says.tools ELSE server.tools

\* list_tools: every page; then Store::store, unless the server names no version.
ListTools(p, write) ==
  /\ reader[p].pc = "list"
  /\ reader' = [reader EXCEPT ![p].pc = "ask", ![p].tools = ListOf(p), ![p].proof = "listed"]
  /\ served' = [served EXCEPT ![ListOf(p)] = 0]
  /\ listings' = IF reader[p].says # server \/ listings = 2 * Cardinality(Pollers)
                 THEN listings ELSE listings + 1
  /\ keptList' = IF ~write \/ reader[p].says.version = "" THEN keptList
                 ELSE [version |-> reader[p].says.version, absent |-> Fingerprint(reader[p].says),
                       tools |-> ListOf(p), digest |-> Digest(reader[p].says), age |-> 0]
  /\ write \/ breaks < MaxBreaks
  /\ breaks' = IF write THEN breaks ELSE breaks + 1
  /\ UNCHANGED <<server, moves>>

\* A list that does not come: connect_with fails, and nothing is kept.
ListFails(p) ==
  /\ reader[p].pc = "list" /\ breaks < MaxBreaks
  /\ reader' = [reader EXCEPT ![p] = CatIdle]
  /\ breaks' = breaks + 1
  /\ UNCHANGED <<server, keptList, served, listings, moves>>

\* The section that is asked next.
NextTool(p) == Sections[Len(reader[p].card) + 1]
Asking(p) == reader[p].pc = "ask" /\ Len(reader[p].card) < Len(Sections)
Put(p, answer) == [reader EXCEPT ![p].card = Append(@, answer)]

\* Mutant: what a broken session did not read is not there.
SkipAsAbsent(p) ==
  /\ Asking(p)
  /\ \/ NextTool(p) \notin reader[p].tools
     \/ NextTool(p) \in reader[p].tools /\ reader[p].broken
  /\ reader' = Put(p, "absent")
  /\ UNCHANGED <<server, keptList, served, listings, moves, breaks>>

\* gather_raw: a tool that the list does not name is absent; ask: one that it
\* names is not read when the session has ended.
Skip(p) ==
  /\ Asking(p)
  /\ \/ NextTool(p) \notin reader[p].tools /\ reader' = Put(p, "absent")
     \/ NextTool(p) \in reader[p].tools /\ reader[p].broken /\ reader' = Put(p, "unknown")
  /\ UNCHANGED <<server, keptList, served, listings, moves, breaks>>

\* A tool is called, and answers: Server::call, which knows the tools it has now.
AskTool(p) ==
  /\ Asking(p) /\ NextTool(p) \in reader[p].tools /\ ~reader[p].broken
  /\ reader' = Put(p, IF NextTool(p) \in ListOf(p) THEN "value" ELSE "failed")
  /\ UNCHANGED <<server, keptList, served, listings, moves, breaks>>

\* Error::is_unread: the two ways in which nothing is read.  One that closes the
\* session is remembered; a late answer leaves it as it is.
Unread == [closed |-> TRUE, late |-> FALSE]

\* request, within.
AskInVain(p, how) ==
  /\ Asking(p) /\ NextTool(p) \in reader[p].tools /\ ~reader[p].broken
  /\ breaks < MaxBreaks
  /\ reader' = [Put(p, "unknown") EXCEPT ![p].broken = Unread[how]]
  /\ breaks' = breaks + 1
  /\ UNCHANGED <<server, keptList, served, listings, moves>>

EndSession(p) ==
  /\ reader[p].pc = "ask" /\ Len(reader[p].card) = Len(Sections)
  /\ reader' = [reader EXCEPT ![p] = CatIdle]
  /\ UNCHANGED <<server, keptList, served, listings, moves, breaks>>

\* Another server is put on the host, or the machine gains or loses a tool.
Move(s) ==
  /\ moves < MaxMoves /\ s # server
  /\ server' = s /\ moves' = moves + 1 /\ listings' = 0
  /\ UNCHANGED <<keptList, reader, served, breaks>>

\* Time passes, up to the window.
CatTick ==
  /\ keptList # NoList /\ InWindow(keptList)
  /\ keptList' = [keptList EXCEPT !.age = @ + 1]
  /\ served' = [t \in SUBSET Tools |-> IF served[t] < Window THEN served[t] + 1 ELSE Window]
  /\ listings' = 0
  /\ UNCHANGED <<server, reader, moves, breaks>>

CatNext ==
  \/ \E p \in Pollers :
       \/ OpenCatSession(p) \/ ListFails(p) \/ Skip(p) \/ AskTool(p) \/ EndSession(p)
       \/ \E write \in BOOLEAN : ListTools(p, write)
       \/ \E how \in DOMAIN Unread : AskInVain(p, how)
  \/ \E s \in Offers : Move(s)
  \/ CatTick

CatSpec == CatInit /\ [][CatNext]_catVars

---------------------------------------------------------------------------
\* The kept list "is an optimisation, never a filter" (catalogue.rs:51-54), of a
\* server that publishes its digest: a section is told as absent exactly when
\* the server of the session does not offer its tool, whoever kept the list,
\* under whatever version, and wherever the session broke.
NeverAFilter ==
  \A p \in Pollers : reader[p].pc = "ask" /\ reader[p].says.publishes =>
    \A i \in 1..Len(reader[p].card) :
      reader[p].card[i] = "absent" <=> Sections[i] \notin reader[p].says.tools

\* No list is used that the server last answered longer ago than the window it
\* gave ("a kept list past the server's window is not used at all",
\* catalogue.rs:56-58).
OldListExpires ==
  [][\A p \in Pollers : reader[p].pc = "off" /\ reader'[p].pc = "ask" =>
        served[reader'[p].tools] < Window]_catVars

\* A host is not asked for its list at every session, whether it publishes a
\* digest or none: while it offers the same and the list can be kept, each
\* poller asks for it once more at most for what the other one's session of
\* the server before has kept.
ListedOnce ==
  server.version # "" /\ breaks = 0 => listings < 2 * Cardinality(Pollers)

\* A tool that the server offers is in the list that the session reads by,
\* whoever kept it ("a tool the cache omits cannot vanish from the panel",
\* catalogue.rs:51-54).  The agent's own server looks at the machine once for
\* discover and again for the list, and what lies between them is kept under
\* the first and for the whole window.
NothingVanishes ==
  \A p \in Pollers : reader[p].proof = "guess" /\ reader[p].says = server =>
    server.tools \subseteq reader[p].tools
=============================================================================
