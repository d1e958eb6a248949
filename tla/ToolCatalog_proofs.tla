-------------------------- MODULE ToolCatalog_proofs --------------------------
(***************************************************************************)
(* The tool catalogue, for any servers, tools, connections and sessions.    *)
(***************************************************************************)
EXTENDS ToolCatalog, TLAPS

Types ==
  /\ proc \in [Conn -> {"none", "up", "down"}]
  /\ serverOf \in [Conn -> Server \cup {None}]
  /\ clients \in [Server -> Conn \cup {None}] /\ registry \in [Tool -> Conn \cup {None}]
  /\ adding \subseteq Conn /\ removing \subseteq Conn /\ searchable \in BOOLEAN
  /\ promoted \in [Session -> SUBSET Tool]
  /\ shutdown \in {{None}, {None, "closed"}} \cup SUBSET Conn

\* Whatever is listed or registered came with a tool_search, which nothing removes.
SearchComesFirst == Connected \cup Registered # {} => searchable

\* A connection that is still being added is of a server, was never listed and is not
\* about to be closed.
AddingIsNew ==
  \A c \in adding :
    /\ serverOf[c] \in Server /\ proc[c] # "none" /\ c \notin removing
    /\ \A s \in Server : clients[s] # c
    /\ ~Closing => proc[c] = "up"

\* A listed connection was made for the server it is listed under.
ListedIsOwn ==
  \A s \in Server : clients[s] # None => serverOf[clients[s]] = s /\ proc[clients[s]] # "none"

\* A connection that is about to be closed was started, and no tool calls it any more.
RemovingIsUnused ==
  \A c \in removing : proc[c] # "none" /\ \A t \in Tool : registry[t] # c

\* A tool calls a connection of its own server, whose add it is no longer a part of.
RegisteredIsOwn ==
  \A t \in Registered : serverOf[registry[t]] = t[1] /\ proc[registry[t]] # "none"

IInv ==
  /\ Types /\ SearchComesFirst /\ AddingIsNew /\ ListedIsOwn /\ RemovingIsUnused
  /\ RegisteredIsOwn /\ SearchIsTrue /\ RegisteredIsLive

-----------------------------------------------------------------------------
LEMMA InitIInv == Init => IInv
<1> SUFFICES ASSUME Init PROVE IInv
  OBVIOUS
<1>1. Types /\ ~Closing
  BY DEF Init, Types, Closing
<1>2. Registered = {} /\ Connected = {}
  BY DEF Init, Registered, Connected
<1> QED
  BY <1>1, <1>2 DEF Init, IInv, SearchComesFirst, AddingIsNew, ListedIsOwn, RemovingIsUnused,
                    RegisteredIsOwn, SearchIsTrue, RegisteredIsLive, Connected

\* A connection that was never used is started.
LEMMA Adds ==
  ASSUME IInv, NEW c \in Conn, NEW s \in Server, Add(c, s)
  PROVE  IInv'
<1> USE DEF IInv
<1>1. /\ proc[c] = "none" /\ proc' = [proc EXCEPT ![c] = "up"]
      /\ serverOf' = [serverOf EXCEPT ![c] = s] /\ adding' = adding \cup {c}
      /\ UNCHANGED <<clients, registry, searchable, indexed, deferred, promoted, removing, shutdown>>
  BY DEF Add, catalog
<1>2. Registered' = Registered /\ Connected' = Connected /\ Closing' = Closing
  BY <1>1 DEF Registered, Connected, Closing
<1>3. Types'
  BY <1>1 DEF Types
<1>4. c \notin removing /\ (\A s1 \in Server : clients[s1] # c) /\ \A t \in Tool : registry[t] # c
  BY <1>1, CatalogAssumption DEF RemovingIsUnused, ListedIsOwn, RegisteredIsOwn, Registered
<1>5. AddingIsNew'
  BY <1>1, <1>2, <1>4 DEF AddingIsNew, Types
<1>6. ListedIsOwn' /\ RemovingIsUnused'
  BY <1>1, <1>4 DEF ListedIsOwn, RemovingIsUnused, Types
<1>7. RegisteredIsOwn' /\ RegisteredIsLive'
  BY <1>1, <1>2, <1>4 DEF RegisteredIsOwn, RegisteredIsLive, Registered, Types
<1> QED
  BY <1>1, <1>2, <1>3, <1>5, <1>6, <1>7 DEF SearchComesFirst, SearchIsTrue

\* What a registration does to the tools that are there: it adds some that are not.
LEMMA Registers ==
  ASSUME Types, NEW c \in Conn, NEW ts \in SUBSET Tool, Register(c, ts)
  PROVE  /\ registry' \in [Tool -> Conn \cup {None}]
         /\ Registered' = Registered \cup ts
         /\ \A t \in Tool : registry'[t] = IF t \in ts THEN c ELSE registry[t]
         /\ indexed' = indexed \cup ts /\ deferred' = deferred \cup ts
BY CatalogAssumption DEF Types, Register, Registered

LEMMA AddsTools ==
  ASSUME IInv, NEW c \in Conn, AddRegisters(c)
  PROVE  IInv'
<1> USE DEF IInv
<1>1. /\ c \in adding /\ adding' = adding \ {c}
      /\ UNCHANGED <<proc, serverOf, promoted, removing, shutdown>>
      /\ serverOf[c] \in Server /\ proc[c] # "none" /\ c \notin removing
      /\ (\A s \in Server : clients[s] # c) /\ (~Closing => proc[c] = "up")
  BY DEF AddRegisters, AddingIsNew
<1>2. PICK ts \in SUBSET Tool :
        /\ Register(c, ts) /\ \A t \in ts : t[1] = serverOf[c]
        /\ \/ Connect(c)
           \/ /\ UNCHANGED <<clients, searchable>>
              /\ \E t \in Registered : t[1] = serverOf[c]
  <2>1. PICK ls \in SUBSET Local :
          LET ts == {serverOf[c]} \X ls
          IN  \/ ts \cap Registered = {} /\ Register(c, ts) /\ Connect(c)
              \/ /\ ts \cap Registered # {}
                 /\ \E before \in SUBSET (ts \ Registered) : Register(c, before)
                 /\ UNCHANGED <<clients, searchable>>
    BY DEF AddRegisters
  <2> DEFINE all == {serverOf[c]} \X ls
  <2>2. all \subseteq Tool /\ \A t \in all : t[1] = serverOf[c]
    BY <1>1 DEF Tool
  <2>3. CASE all \cap Registered = {} /\ Register(c, all) /\ Connect(c)
    BY <2>2, <2>3
  <2>4. CASE /\ all \cap Registered # {}
             /\ \E before \in SUBSET (all \ Registered) : Register(c, before)
             /\ UNCHANGED <<clients, searchable>>
    BY <2>2, <2>4
  <2> QED
    BY <2>1, <2>3, <2>4
<1>3. /\ registry' \in [Tool -> Conn \cup {None}] /\ Registered' = Registered \cup ts
      /\ \A t \in Tool : registry'[t] = IF t \in ts THEN c ELSE registry[t]
      /\ indexed' = indexed \cup ts /\ deferred' = deferred \cup ts
  BY <1>2, Registers
<1>4. /\ clients' \in [Server -> Conn \cup {None}]
      /\ \A s \in Server : clients'[s] = clients[s] \/ (s = serverOf[c] /\ clients'[s] = c)
      /\ searchable' \in BOOLEAN /\ (searchable => searchable')
  <2>1. CASE Connect(c)
    <3>1. clients' = [clients EXCEPT ![serverOf[c]] = c]
      BY <2>1 DEF Connect
    <3>2. searchable' = (searchable \/ Connected \cup {serverOf[c]} = {serverOf[c]})
      BY <2>1 DEF Connect
    <3> QED
      BY <1>1, <3>1, <3>2 DEF Types
  <2>2. CASE UNCHANGED <<clients, searchable>>
    BY <2>2 DEF Types
  <2> QED
    BY <1>2, <2>1, <2>2
<1>5. Types'
  BY <1>1, <1>3, <1>4 DEF Types
<1>6. (~Closing => clients'[serverOf[c]] # None) /\ searchable'
  <2>1. CASE Connect(c)
    <3>1. clients'[serverOf[c]] = c
      BY <1>1, <2>1 DEF Connect, Types
    <3>2. Connected = {} => searchable'
      BY <2>1 DEF Connect
    <3> QED
      BY <1>4, <3>1, <3>2, CatalogAssumption DEF SearchComesFirst
  <2>2. CASE UNCHANGED <<clients, searchable>> /\ \E t \in Registered : t[1] = serverOf[c]
    <3>1. PICK t \in Registered : t[1] = serverOf[c]
      BY <2>2
    <3>2. t \in Tool /\ registry[t] \in Conn
      BY DEF Types, Registered
    <3>3. searchable'
      BY <2>2, <3>1 DEF SearchComesFirst
    <3>4. ~Closing => clients[t[1]] # None
      BY <3>1 DEF RegisteredIsLive
    <3> QED
      BY <2>2, <3>1, <3>3, <3>4
  <2> QED
    BY <1>2, <2>1, <2>2
<1>7. Closing' = Closing /\ SearchComesFirst'
  BY <1>1, <1>6 DEF Closing, SearchComesFirst
<1>8. AddingIsNew'
  BY <1>1, <1>4, <1>7 DEF AddingIsNew
<1>9. ListedIsOwn'
  BY <1>1, <1>4 DEF ListedIsOwn
<1>10. RemovingIsUnused'
  BY <1>1, <1>3 DEF RemovingIsUnused
<1>11. RegisteredIsOwn'
  <2> SUFFICES ASSUME NEW t \in Registered'
               PROVE  serverOf[registry'[t]] = t[1] /\ proc[registry'[t]] # "none"
    BY <1>1 DEF RegisteredIsOwn
  <2>1. t \in Tool
    BY DEF Registered
  <2> QED
    BY <1>1, <1>2, <1>3, <2>1 DEF RegisteredIsOwn
<1>12. SearchIsTrue'
  BY <1>3, <1>6 DEF SearchIsTrue
<1>13. RegisteredIsLive'
  <2> SUFFICES ASSUME ~Closing, NEW t \in Registered'
               PROVE  proc[registry'[t]] = "up" /\ clients'[t[1]] # None
    BY <1>1, <1>7 DEF RegisteredIsLive
  <2>1. CASE t \in ts
    BY <1>1, <1>2, <1>3, <1>6, <2>1
  <2>2. CASE t \notin ts
    <3>1. t \in Registered /\ t[1] \in Server /\ registry'[t] = registry[t]
      BY <1>3, <2>2 DEF Registered, Tool
    <3>2. c # None
      BY CatalogAssumption
    <3> QED
      BY <1>4, <3>1, <3>2 DEF RegisteredIsLive
  <2> QED
    BY <2>1, <2>2
<1> QED
  BY <1>5, <1>7, <1>8, <1>9, <1>10, <1>11, <1>12, <1>13

\* What remove_mcp_server unregisters: at least the tools of its own server.
LEMMA Removes ==
  ASSUME IInv, NEW s \in Server, Remove(s)
  PROVE  IInv'
<1> USE DEF IInv
<1> DEFINE gone == {t \in Registered : <<s, t[1]>> \in Prefix}
           old == clients[s]
<1>1. /\ old # None /\ old \in Conn /\ serverOf[old] = s /\ proc[old] # "none"
      /\ clients' = [clients EXCEPT ![s] = None] /\ removing' = removing \cup {old}
      /\ registry' = [t \in Tool |-> IF t \in gone THEN None ELSE registry[t]]
      /\ indexed' = indexed \ gone /\ deferred' = deferred \ gone
      /\ UNCHANGED <<proc, serverOf, adding, searchable, promoted, shutdown>>
  BY DEF Remove, Unregister, Types, ListedIsOwn
<1>2. Registered' = Registered \ gone
  BY <1>1 DEF Registered
<1>3. \A t \in Registered' : t \in Tool /\ t \in Registered /\ t[1] # s /\ t[1] \in Server /\ registry'[t] = registry[t]
  BY <1>1, <1>2, CatalogAssumption DEF Registered, Tool
<1>4. Connected' \subseteq Connected
  BY <1>1 DEF Connected, Types
<1> HIDE DEF gone, old
<1>5. clients' \in [Server -> Conn \cup {None}]
  BY <1>1 DEF Types
<1>6. registry' \in [Tool -> Conn \cup {None}]
  BY <1>1 DEF Types
<1>7. Types'
  BY <1>1, <1>5, <1>6 DEF Types
<1>8. SearchComesFirst' /\ SearchIsTrue'
  BY <1>1, <1>2, <1>4 DEF SearchComesFirst, SearchIsTrue
<1>9. \A s1 \in Server : clients'[s1] = None \/ clients'[s1] = clients[s1]
  BY <1>1 DEF Types
<1>10. old \notin adding
  BY <1>1 DEF AddingIsNew, old
<1>11. AddingIsNew'
  <2>1. Closing' = Closing
    BY <1>1 DEF Closing
  <2>2. \A c \in adding : c # None
    BY CatalogAssumption DEF Types
  <2> QED
    BY <1>1, <1>9, <1>10, <2>1, <2>2 DEF AddingIsNew
<1>12. ListedIsOwn'
  BY <1>1, <1>9 DEF ListedIsOwn
<1>13. RemovingIsUnused'
  <2> SUFFICES ASSUME NEW c \in removing', NEW t \in Tool, registry'[t] = c
               PROVE  FALSE
    BY <1>1 DEF RemovingIsUnused
  <2>1. c # None
    BY <1>1, CatalogAssumption DEF Types
  <2>2. t \in Registered'
    BY <2>1 DEF Registered
  <2>3. registry[t] = c /\ t[1] # s /\ t \in Registered
    BY <1>3, <2>2
  <2>4. c # old
    BY <1>1, <2>3 DEF RegisteredIsOwn
  <2> QED
    BY <1>1, <2>3, <2>4 DEF RemovingIsUnused
<1>14. RegisteredIsOwn'
  BY <1>1, <1>3 DEF RegisteredIsOwn
<1>15. RegisteredIsLive'
  <2>1. \A t \in Registered' : clients'[t[1]] = clients[t[1]]
    BY <1>1, <1>3 DEF Types
  <2> QED
    BY <1>1, <1>3, <2>1 DEF RegisteredIsLive, Closing
<1> QED
  BY <1>7, <1>8, <1>11, <1>12, <1>13, <1>14, <1>15

\* The subprocess goes: no tool calls it any more, or the agent is closing.
LEMMA Closes ==
  ASSUME IInv, NEW c \in Conn, RemoveCloses(c) \/ CloseNext(c)
  PROVE  IInv'
<1> USE DEF IInv
<1>1. /\ proc' = [proc EXCEPT ![c] = "down"] /\ removing' \subseteq removing
      /\ UNCHANGED <<serverOf, adding, clients, registry, searchable, indexed, deferred, promoted>>
      /\ shutdown' \in {shutdown, shutdown \ {c}}
  BY DEF RemoveCloses, CloseNext, catalog
<1>2. /\ Registered' = Registered /\ Connected' = Connected
      /\ \A d \in Conn : proc'[d] = IF d = c THEN "down" ELSE proc[d]
  BY <1>1 DEF Registered, Connected, Types
<1>3. shutdown' \in {{None}, {None, "closed"}} \cup SUBSET Conn /\ Closing' = Closing
  <2>1. CASE RemoveCloses(c)
    BY <2>1 DEF RemoveCloses, Types, Closing
  <2>2. CASE CloseNext(c)
    BY <2>2, CatalogAssumption DEF CloseNext, Types, Closing
  <2> QED
    BY <2>1, <2>2
<1>4. Types'
  BY <1>1, <1>3 DEF Types
<1>5. ~Closing => c \in removing
  BY DEF RemoveCloses, CloseNext, Closing
<1>6. AddingIsNew'
  BY <1>1, <1>2, <1>3, <1>5 DEF AddingIsNew, Types
<1>7. ListedIsOwn'
  BY <1>1, <1>2 DEF ListedIsOwn, Types
<1>8. RemovingIsUnused'
  BY <1>1, <1>2 DEF RemovingIsUnused, Types
<1>9. \A t \in Registered : registry[t] \in Conn /\ t \in Tool
  BY DEF Registered, Types
<1>10. RegisteredIsOwn'
  BY <1>1, <1>2, <1>9 DEF RegisteredIsOwn
<1>11. RegisteredIsLive'
  BY <1>1, <1>2, <1>3, <1>5, <1>9 DEF RegisteredIsLive, RemovingIsUnused
<1> QED
  BY <1>1, <1>2, <1>4, <1>6, <1>7, <1>8, <1>10, <1>11 DEF SearchComesFirst, SearchIsTrue

\* close() only changes what is listed.
LEMMA Shuts ==
  ASSUME IInv, CloseBegins \/ CloseEnds
  PROVE  IInv'
<1> USE DEF IInv
<1>1. /\ UNCHANGED <<proc, serverOf, adding, registry, searchable, indexed, deferred, promoted, removing>>
      /\ \A s \in Server : clients'[s] \in {clients[s], None}
      /\ clients' \in [Server -> Conn \cup {None}]
      /\ shutdown' \in {{None, "closed"}} \cup SUBSET Conn
  BY DEF CloseBegins, CloseEnds, catalog, Types, Connected
<1>2. Closing' /\ Registered' = Registered /\ Connected' \subseteq Connected
  BY <1>1, CatalogAssumption DEF Closing, Registered, Connected, None
<1>3. \A c \in adding : c # None
  BY CatalogAssumption DEF Types
<1>4. Types'
  BY <1>1 DEF Types
<1>5. AddingIsNew' /\ ListedIsOwn' /\ RemovingIsUnused'
  BY <1>1, <1>2, <1>3 DEF AddingIsNew, ListedIsOwn, RemovingIsUnused
<1> QED
  BY <1>1, <1>2, <1>4, <1>5 DEF SearchComesFirst, SearchIsTrue, RegisteredIsOwn, RegisteredIsLive

LEMMA Searches ==
  ASSUME IInv, NEW se \in Session, Search(se)
  PROVE  IInv'
<1>1. /\ UNCHANGED <<proc, serverOf, adding, clients, registry, searchable, indexed, removing, shutdown>>
      /\ deferred' \subseteq deferred
  BY DEF Search
<1>2. promoted' \in [Session -> SUBSET Tool]
  BY DEF Search, IInv, Types, Registered
<1>3. Registered' = Registered /\ Connected' = Connected /\ Closing' = Closing
  BY <1>1 DEF Registered, Connected, Closing
<1> QED
  BY <1>1, <1>2, <1>3 DEF IInv, Types, SearchComesFirst, AddingIsNew, ListedIsOwn, RemovingIsUnused,
                          RegisteredIsOwn, SearchIsTrue, RegisteredIsLive

LEMMA AddGivesUp ==
  ASSUME IInv, NEW c \in Conn, AddFails(c)
  PROVE  IInv'
<1>1. /\ UNCHANGED <<proc, serverOf, clients, registry, searchable, indexed, deferred, promoted,
                     removing, shutdown>>
      /\ adding' \subseteq adding
  BY DEF AddFails, catalog
<1>2. Registered' = Registered /\ Connected' = Connected /\ Closing' = Closing
  BY <1>1 DEF Registered, Connected, Closing
<1> QED
  BY <1>1, <1>2 DEF IInv, Types, SearchComesFirst, AddingIsNew, ListedIsOwn, RemovingIsUnused,
                    RegisteredIsOwn, SearchIsTrue, RegisteredIsLive

LEMMA StepIInv == IInv /\ [Next]_vars => IInv'
<1> SUFFICES ASSUME IInv, [Next]_vars PROVE IInv'
  OBVIOUS
<1>1. CASE UNCHANGED vars
  BY <1>1 DEF vars, IInv, Types, SearchComesFirst, AddingIsNew, ListedIsOwn, RemovingIsUnused,
              RegisteredIsOwn, SearchIsTrue, RegisteredIsLive, Registered, Connected, Closing
<1> QED
  BY <1>1, Adds, AddGivesUp, AddsTools, Removes, Closes, Shuts, Searches DEF Next

LEMMA Invariance == Spec => []IInv
BY InitIInv, StepIInv, PTL DEF Spec

-----------------------------------------------------------------------------
(* The theorems.                                                           *)

\* tool_search finds only tools that are there, and is there as long as one is hidden:
\* for any servers with any overlap of their prefixes (agent.py 563-564).
THEOREM SearchFindsWhatIsThere == Spec => []SearchIsTrue
<1>1. IInv => SearchIsTrue
  BY DEF IInv
<1> QED
  BY <1>1, Invariance, PTL

\* Until the agent is closed a registered tool can be called and removed, however adds
\* and removals interleave and whichever of them raised half-way (agent.py 533-574).
THEOREM RegisteredCanBeCalled == Spec => []RegisteredIsLive
<1>1. IInv => RegisteredIsLive
  BY DEF IInv
<1> QED
  BY <1>1, Invariance, PTL

\* What a session was offered stays offered while it is registered, and what it promoted
\* whenever it is (loop.py 169-178).
THEOREM NothingHiddenAgain == Spec => OfferedStaysOffered
<1> DEFINE A == \A se \in Session : \A t \in Offered(se) \cup promoted[se] :
                  t \in Registered' => t \in Offered(se)'
<1>1. ASSUME IInv, [Next]_vars PROVE A \/ UNCHANGED vars
  <2> SUFFICES ASSUME ~UNCHANGED vars, NEW se \in Session, NEW t \in Offered(se) \cup promoted[se],
                      t \in Registered', t \notin promoted'[se]
               PROVE  t \notin deferred'
    BY DEF Offered, Hidden
  <2>1. promoted[se] \subseteq promoted'[se]
    BY <1>1 DEF IInv, Types, Next, Add, AddFails, AddRegisters, RemoveCloses, CloseNext, Remove,
                CloseBegins, CloseEnds, Search, catalog
  <2>2. t \in Registered /\ t \notin deferred
    BY <1>1, <2>1 DEF Offered, Hidden, IInv, SearchIsTrue
  <2>3. ASSUME NEW c \in Conn, AddRegisters(c) PROVE t \notin deferred'
    BY <2>2, <2>3 DEF AddRegisters, Register
  <2>4. ASSUME NEW s \in Server, Remove(s) PROVE t \notin deferred'
    BY <2>2, <2>4 DEF Remove, Unregister
  <2> QED
    BY <1>1, <2>2, <2>3, <2>4 DEF Next, Add, AddFails, RemoveCloses, CloseNext,
                CloseBegins, CloseEnds, Search, catalog
<1> QED
  BY <1>1, Invariance, PTL DEF Spec, OfferedStaysOffered
=============================================================================
