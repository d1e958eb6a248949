------------------------------ MODULE ToolCatalog ------------------------------
(***************************************************************************)
(* Which MCP tools an agent offers: add_mcp_server, remove_mcp_server and     *)
(* close of NeoAgent, the ToolRegistry, the DeferredToolRegistry, the         *)
(* tool_search tool and the sessions that use it. The three agent calls await *)
(* the server, so they interleave with each other and with the sessions.      *)
(*                                                                         *)
(* A tool is named <<server, local name>> for the "server__tool" of the code. *)
(* A connection is one MCPClient with its subprocess.                         *)
(***************************************************************************)
EXTENDS Integers, FiniteSets

CONSTANTS Server,     \* logical server names
          Local,      \* names a server may give its tools
          Conn,       \* bound: connections ever made
          Session,    \* sessions that use the agent
          Prefix      \* pairs <<s, p>>: the tools of p are named with the prefix
                      \* "s__" ("a__b__x" begins with "a__")

None == "none"

ASSUME CatalogAssumption ==
  /\ Prefix \subseteq Server \X Server /\ \A s \in Server : <<s, s>> \in Prefix
  /\ {None, "closed"} \cap Conn = {}

Tool == Server \X Local

VARIABLES
  proc,        \* subprocess of each connection: none, up, down
  serverOf,    \* the server name a connection was made for
  adding,      \* connections whose add_mcp_server has not come back
  clients,     \* NeoAgent._mcp_clients: server name to connection
  registry,    \* ToolRegistry: tool to the connection it calls, or None
  searchable,  \* tool_search is in the ToolRegistry
  indexed,     \* DeferredToolRegistry._all
  deferred,    \* DeferredToolRegistry._deferred
  promoted,    \* SessionState.promoted_tools
  removing,    \* connections a remove_mcp_server is about to close
  shutdown     \* connections close() has still to close; None outside close()

vars == <<proc, serverOf, adding, clients, registry, searchable, indexed, deferred,
          promoted, removing, shutdown>>
catalog == <<clients, registry, searchable, indexed, deferred>>

Registered == {t \in Tool : registry[t] # None}
Connected == {s \in Server : clients[s] # None}

Init ==
  /\ proc = [c \in Conn |-> "none"]
  /\ serverOf = [c \in Conn |-> None]
  /\ adding = {} /\ removing = {} /\ shutdown = {None}
  /\ clients = [s \in Server |-> None]
  /\ registry = [t \in Tool |-> None]
  /\ searchable = FALSE
  /\ indexed = {} /\ deferred = {}
  /\ promoted = [se \in Session |-> {}]

-----------------------------------------------------------------------------
(* add_mcp_server.                                                         *)

\* The subprocess is spawned; the handshake and the tool list are awaited.
Add(c, s) ==
  /\ proc[c] = "none"
  /\ proc' = [proc EXCEPT ![c] = "up"]
  /\ serverOf' = [serverOf EXCEPT ![c] = s]
  /\ adding' = adding \cup {c}
  /\ UNCHANGED <<catalog, promoted, removing, shutdown>>

\* The handshake or tools/list fails: the exception leaves the subprocess behind.
AddFails(c) ==
  /\ c \in adding
  /\ adding' = adding \ {c}
  /\ UNCHANGED <<proc, serverOf, catalog, promoted, removing, shutdown>>

\* Tools enter both registries.
Register(c, ts) ==
  /\ registry' = [t \in Tool |-> IF t \in ts THEN c ELSE registry[t]]
  /\ indexed' = indexed \cup ts
  /\ deferred' = deferred \cup ts

\* Bug variant: the client is recorded after tool_search is registered, which
\* raises when an earlier server has registered it.
ConnectLast(c) ==
  LET first == Connected \cup {serverOf[c]} = {serverOf[c]}
  IN  /\ clients' = IF first /\ searchable THEN clients
                    ELSE [clients EXCEPT ![serverOf[c]] = c]
      /\ searchable' = (searchable \/ first)

\* The client is recorded (in the place of one of the same name), and with the
\* only client comes tool_search: registering it again raises, with all else done.
Connect(c) ==
  /\ clients' = [clients EXCEPT ![serverOf[c]] = c]
  /\ searchable' = (searchable \/ Connected \cup {serverOf[c]} = {serverOf[c]})

\* The list has arrived: the rest of the call is one step. ToolRegistry.register
\* raises at the first tool that is already there, after those listed before it.
AddRegisters(c) ==
  /\ c \in adding
  /\ \E ls \in SUBSET Local :
       LET ts == {serverOf[c]} \X ls
       IN  \/ ts \cap Registered = {} /\ Register(c, ts) /\ Connect(c)
           \/ /\ ts \cap Registered # {}
              /\ \E before \in SUBSET (ts \ Registered) : Register(c, before)
              /\ UNCHANGED <<clients, searchable>>
  /\ adding' = adding \ {c}
  /\ UNCHANGED <<proc, serverOf, promoted, removing, shutdown>>

-----------------------------------------------------------------------------
(* remove_mcp_server and close.                                            *)

\* Bug variant: the tools leave the ToolRegistry only.
UnregisterFromRegistry(s) ==
  /\ registry' = [t \in Tool |-> IF <<s, t[1]>> \in Prefix THEN None ELSE registry[t]]
  /\ UNCHANGED <<indexed, deferred>>

\* Every tool whose name begins with the prefix of s leaves both registries.
Unregister(s) ==
  LET gone == {t \in Registered : <<s, t[1]>> \in Prefix}
  IN  /\ registry' = [t \in Tool |-> IF t \in gone THEN None ELSE registry[t]]
      /\ indexed' = indexed \ gone
      /\ deferred' = deferred \ gone

\* Up to the await of client.close().
Remove(s) ==
  /\ clients[s] # None
  /\ clients' = [clients EXCEPT ![s] = None]
  /\ Unregister(s)
  /\ removing' = removing \cup {clients[s]}
  /\ UNCHANGED <<proc, serverOf, adding, searchable, promoted, shutdown>>

\* The subprocess is terminated.
RemoveCloses(c) ==
  /\ c \in removing
  /\ removing' = removing \ {c}
  /\ proc' = [proc EXCEPT ![c] = "down"]
  /\ UNCHANGED <<serverOf, adding, catalog, promoted, shutdown>>

\* close() goes over the clients there are when it is called, one await each.
CloseBegins ==
  /\ shutdown = {None}
  /\ shutdown' = {clients[s] : s \in Connected}
  /\ UNCHANGED <<proc, serverOf, adding, catalog, promoted, removing>>

CloseNext(c) ==
  /\ c \in shutdown \ {None}
  /\ proc' = [proc EXCEPT ![c] = "down"]
  /\ shutdown' = shutdown \ {c}
  /\ UNCHANGED <<serverOf, adding, catalog, promoted, removing>>

\* _mcp_clients.clear(); the registries keep what they have. The agent is not
\* closed twice here.
CloseEnds ==
  /\ shutdown = {}
  /\ clients' = [s \in Server |-> None]
  /\ shutdown' = {None, "closed"}
  /\ UNCHANGED <<proc, serverOf, adding, registry, searchable, indexed, deferred, promoted, removing>>

-----------------------------------------------------------------------------
(* Sessions.                                                               *)

\* What a query may find: by name, by keyword or by pattern, deferred tools only.
Found == SUBSET deferred \ {{}}

\* tool_search: the tools found that are in the ToolRegistry are promoted in the
\* session and for everyone.
Search(se) ==
  /\ searchable
  /\ \E found \in Found :
       /\ promoted' = [promoted EXCEPT ![se] = @ \cup (found \cap Registered)]
       /\ deferred' = deferred \ (found \cap Registered)
  /\ UNCHANGED <<proc, serverOf, adding, clients, registry, searchable, indexed, removing, shutdown>>

\* Bug variant: the filter asks the deferred registry only.
HiddenGlobally(se, t) == t \in indexed /\ t \in deferred

\* _is_hidden of the query loop: managed, not promoted here, not promoted globally.
Hidden(se, t) == t \in indexed /\ t \notin promoted[se] /\ t \in deferred

\* The MCP tools whose schemas a turn of the session sends to the model.
Offered(se) == {t \in Registered : ~Hidden(se, t)}

Next ==
  \/ \E c \in Conn : \/ \E s \in Server : Add(c, s)
                     \/ AddFails(c) \/ AddRegisters(c) \/ RemoveCloses(c) \/ CloseNext(c)
  \/ \E s \in Server : Remove(s)
  \/ CloseBegins \/ CloseEnds
  \/ \E se \in Session : Search(se)

Spec == Init /\ [][Next]_vars

-----------------------------------------------------------------------------
(* Properties.                                                             *)

Closing == shutdown # {None}

\* tool_search never finds a tool that is gone, whatever adds failed half-way and
\* whatever prefixes overlap (the comment at agent.py 563-564), and as long as a tool
\* is kept from the model there is a tool_search to find it.
SearchIsTrue ==
  deferred \subseteq indexed /\ indexed \subseteq Registered /\ (deferred # {} => searchable)

\* Until close(), every tool in the registry calls a connection that is up and belongs
\* to a server that is listed, so that remove_mcp_server reaches it, whichever adds of
\* it raised (agent.py 533-574).
RegisteredIsLive ==
  ~Closing => \A t \in Registered : proc[registry[t]] = "up" /\ clients[t[1]] # None

\* A tool that a session was offered, or has promoted by a search of its own, is offered
\* for as long as it is registered: no add that comes later, completes or raises half-way
\* hides it, and what the session promoted is offered also when the server goes and comes
\* back (docs/guide.md 1026; loop.py 169-178, agent.py 538-540).
OfferedStaysOffered ==
  [][\A se \in Session : \A t \in Offered(se) \cup promoted[se] :
       t \in Registered' => t \in Offered(se)']_vars
=============================================================================
