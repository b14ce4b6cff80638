------------------------------- MODULE Registry -------------------------------
(***************************************************************************)
(* How rooms come to be and are found: POST /api/rooms of src/routes.rs,   *)
(* the map behind an RwLock of src/registry.rs, and the first frame of a   *)
(* socket in src/ws.rs, which looks a room up and asks for a role in it.   *)
(*                                                                         *)
(* A room is the number of its host token; 0 is none.  The lock is fair:   *)
(* who asks for it waits in line.  Looking up and removing do not wait     *)
(* inside it, and are one step; drawing a code takes as long as it takes.  *)
(* `remove` is called by nothing in src/ yet; the rest is what it does.    *)
(***************************************************************************)
EXTENDS Integers, Sequences, SequencesExt

CONSTANTS
  Client,    \* who sends requests, one at a time
  Code,      \* what random_code may draw
  MaxRooms   \* bound on the rooms asked for

Room == 1 .. MaxRooms
None == "none"

ASSUME RegistryAssumption ==
  /\ None \notin Client
  /\ MaxRooms \in Nat

VARIABLES
  rooms,   \* Registry.rooms
  line,    \* who waits for the lock, in order
  inside,  \* who draws a code under it, or None
  at,      \* where each client's request is
  ask,     \* what it asks
  handle,  \* the room whose RoomHandle the client's socket handler holds
  held,    \* the role the handler sends with each command
  told,    \* the role last acknowledged to the client
  shown,   \* history: the tokens presented on the socket
  minted,  \* tokens drawn so far
  handed,  \* history: the codes and tokens hosts have been given
  ended    \* history: rooms removed, or of a process that stopped

mapVars  == <<rooms, line, inside>>
sockVars == <<handle, held, told, shown>>
pastVars == <<minted, handed, ended>>
regVars  == <<mapVars, at, ask, sockVars, pastVars>>

Stage == {"idle", "catalog", "line", "inside", "drawn", "created", "joining", "in"}

Ask == [kind : {None, "info"}]
         \cup [kind : {"create"}, token : Room \cup {0}]
         \cup [kind : {"drawn", "created"}, code : Code, token : Room]
         \cup [kind : {"remove"}, code : Code]
         \cup [kind : {"socket"}, code : Code, role : {"host", "player"},
               token : Room \cup {0}]

nothing == [kind |-> None]

RegInit ==
  /\ rooms = [k \in Code |-> 0]
  /\ line = <<>> /\ inside = None
  /\ at = [c \in Client |-> "idle"]
  /\ ask = [c \in Client |-> nothing]
  /\ handle = [c \in Client |-> 0]
  /\ held = [c \in Client |-> None]
  /\ told = [c \in Client |-> None]
  /\ shown = [c \in Client |-> {}]
  /\ minted = 0 /\ handed = {} /\ ended = {}

-----------------------------------------------------------------------------
(* Creating a room *)

Goes(c, stage, what) ==
  /\ at' = [at EXCEPT ![c] = stage]
  /\ ask' = [ask EXCEPT ![c] = what]

\* Variant with a fault: the lock is taken before the catalog is read.
PostLocked(c) ==
  /\ at[c] = "idle" /\ inside = None /\ line = <<>>
  /\ inside' = c
  /\ Goes(c, "catalog", [kind |-> "create", token |-> 0])
  /\ UNCHANGED <<rooms, line, sockVars, pastVars>>

\* POST /api/rooms; the handler reads the catalog.
Post(c) ==
  /\ at[c] = "idle"
  /\ Goes(c, "catalog", [kind |-> "create", token |-> 0])
  /\ UNCHANGED <<mapVars, sockVars, pastVars>>

\* The database fails, or there is no prompt set: 500.
CatalogFails(c) ==
  /\ at[c] = "catalog"
  /\ Goes(c, "idle", nothing)
  /\ UNCHANGED <<mapVars, sockVars, pastVars>>

\* The catalog is there.  The token is drawn before the lock is asked for.
CatalogLoaded(c) ==
  /\ at[c] = "catalog"
  /\ minted < MaxRooms
  /\ minted' = minted + 1
  /\ Goes(c, "line", [kind |-> "create", token |-> minted'])
  /\ line' = Append(line, c)
  /\ UNCHANGED <<rooms, inside, sockVars, handed, ended>>

\* The lock is this client's to take.
MayEnter(c) == at[c] = "line" /\ inside = None /\ Head(line) = c

Enter(c) ==
  /\ MayEnter(c)
  /\ ask[c].kind = "create"
  /\ inside' = c /\ line' = Tail(line)
  /\ Goes(c, "inside", ask[c])
  /\ UNCHANGED <<rooms, sockVars, pastVars>>

\* A candidate that leads nowhere yet.
FreeCode(k) == rooms[k] = 0

Draws(c) ==
  /\ at[c] = "inside"
  /\ \E k \in Code :
       /\ FreeCode(k)
       /\ Goes(c, "drawn", [kind |-> "drawn", code |-> k, token |-> ask[c].token])

\* Variant with a fault: the lock is let go between the look and the insertion.
DrawUnlocked(c) ==
  /\ Draws(c)
  /\ inside' = None
  /\ UNCHANGED <<rooms, line, sockVars, pastVars>>

\* The loop ends with a free candidate; one that is taken changes nothing.
Draw(c) ==
  /\ Draws(c)
  /\ UNCHANGED <<mapVars, sockVars, pastVars>>

\* The room goes into the map, without another look, and the lock is let go.
Insert(c) ==
  /\ at[c] = "drawn"
  /\ rooms' = [rooms EXCEPT ![ask[c].code] = ask[c].token]
  /\ inside' = None
  /\ Goes(c, "created", [kind |-> "created", code |-> ask[c].code, token |-> ask[c].token])
  /\ UNCHANGED <<line, sockVars, pastVars>>

\* The response arrives, or its reader is gone and nobody knows of the room.
Created(c) ==
  /\ at[c] = "created"
  /\ handed' \in {handed, handed \cup {[code |-> ask[c].code, token |-> ask[c].token]}}
  /\ Goes(c, "idle", nothing)
  /\ UNCHANGED <<mapVars, sockVars, minted, ended>>

-----------------------------------------------------------------------------
(* Looking rooms up *)

Queues(c, what) ==
  /\ at[c] = "idle"
  /\ Goes(c, "line", what)
  /\ line' = Append(line, c)
  /\ UNCHANGED <<rooms, inside, sockVars, pastVars>>

\* GET /api/rooms/:code: what it answers changes nothing.
AskInfo(c) == Queues(c, [kind |-> "info"])

\* Registry::remove
AskRemove(c) == \E k \in Code : Queues(c, [kind |-> "remove", code |-> k])

\* A role in a room, and for a host some token they have been given.
Tokens == {0} \cup {h.token : h \in handed}

Wish == [role : {"player"}, token : {0}] \cup [role : {"host"}, token : Tokens]

\* The first frame: join_room with a code, a role and perhaps a token.
AskSocket(c) ==
  \E k \in Code, w \in Wish :
    Queues(c, [kind |-> "socket", code |-> k, role |-> w.role, token |-> w.token])

Answered(c) ==
  /\ MayEnter(c)
  /\ line' = Tail(line)
  /\ UNCHANGED <<inside, minted, handed>>

Inform(c) ==
  /\ Answered(c)
  /\ ask[c].kind = "info"
  /\ Goes(c, "idle", nothing)
  /\ UNCHANGED <<rooms, sockVars, ended>>

TakeOut(c) ==
  /\ Answered(c)
  /\ ask[c].kind = "remove"
  /\ rooms' = [rooms EXCEPT ![ask[c].code] = 0]
  /\ ended' = ended \cup ({rooms[ask[c].code]} \ {0})
  /\ Goes(c, "idle", nothing)
  /\ UNCHANGED sockVars

\* The handler keeps the room it found, whatever becomes of the code.
Find(c) ==
  /\ Answered(c)
  /\ ask[c].kind = "socket"
  /\ LET found == rooms[ask[c].code]
     IN  /\ handle' = [handle EXCEPT ![c] = found]
         /\ IF found = 0 THEN Goes(c, "idle", nothing) ELSE Goes(c, "joining", ask[c])
  /\ UNCHANGED <<rooms, held, told, shown, ended>>

-----------------------------------------------------------------------------
(* Roles: `join` of src/room.rs, and what the handler makes of the reply *)

\* The actor's room is gone only when nobody has a handle.
Admits(c, w) == w.role = "host" => w.token = handle[c]

Close(c) ==
  /\ Goes(c, "idle", nothing)
  /\ handle' = [handle EXCEPT ![c] = 0]
  /\ held' = [held EXCEPT ![c] = None]
  /\ told' = [told EXCEPT ![c] = None]
  /\ shown' = [shown EXCEPT ![c] = {}]

\* The handler adopts the role of the acknowledgement, or ends.
Join(c) ==
  /\ at[c] = "joining"
  /\ IF Admits(c, ask[c])
     THEN /\ Goes(c, "in", nothing)
          /\ held' = [held EXCEPT ![c] = ask[c].role]
          /\ told' = [told EXCEPT ![c] = ask[c].role]
          /\ shown' = [shown EXCEPT ![c] = {ask[c].token} \ {0}]
          /\ UNCHANGED handle
     ELSE Close(c)
  /\ UNCHANGED <<mapVars, pastVars>>

\* Variant with a fault: the handler adopts the role of the frame.
RoleAfterFrame(c, w) == w.role

\* The handler keeps the role of its first join.
RoleAfter(c, w) == held[c]

\* Another join_room on the socket is answered like the first one.
JoinAgain(c) ==
  /\ at[c] = "in"
  /\ \E w \in Wish :
       /\ told' = [told EXCEPT ![c] = IF Admits(c, w) THEN w.role ELSE @]
       /\ held' = [held EXCEPT ![c] = RoleAfter(c, w)]
       /\ shown' = [shown EXCEPT ![c] = (@ \cup {w.token}) \ {0}]
  /\ UNCHANGED <<mapVars, at, ask, handle, pastVars>>

Leave(c) == at[c] = "in" /\ Close(c) /\ UNCHANGED <<mapVars, pastVars>>

-----------------------------------------------------------------------------
(* Failures *)

\* Variant with a fault: the request keeps its place in line.
CancelInLine(c) ==
  /\ at[c] \in {"catalog", "line"}
  /\ Close(c)
  /\ UNCHANGED <<mapVars, pastVars>>

\* The client goes away while its handler waits: the handler is dropped, and
\* with it its place in line.
Cancel(c) ==
  /\ at[c] \in {"catalog", "line"}
  /\ Close(c)
  /\ IF at[c] = "line"
     THEN \E i \in DOMAIN line : line[i] = c /\ line' = RemoveAt(line, i)
     ELSE UNCHANGED line
  /\ UNCHANGED <<rooms, inside, pastVars>>

\* The process starts again, with an empty map.  After some room: a bound.
Restart ==
  /\ ended # 1 .. minted
  /\ rooms' = [k \in Code |-> 0]
  /\ line' = <<>> /\ inside' = None
  /\ at' = [c \in Client |-> "idle"]
  /\ ask' = [c \in Client |-> nothing]
  /\ handle' = [c \in Client |-> 0]
  /\ held' = [c \in Client |-> None]
  /\ told' = [c \in Client |-> None]
  /\ shown' = [c \in Client |-> {}]
  /\ ended' = 1 .. minted
  /\ UNCHANGED <<minted, handed>>

Request(c) == Post(c) \/ AskInfo(c) \/ AskRemove(c) \/ AskSocket(c) \/ Cancel(c)

\* What is done by and under the lock.
Locked(c) ==
  Enter(c) \/ Draw(c) \/ Insert(c) \/ Inform(c) \/ TakeOut(c) \/ Find(c)

Serve(c) ==
  \/ Locked(c)
  \/ CatalogFails(c) \/ CatalogLoaded(c) \/ Created(c)
  \/ Join(c) \/ JoinAgain(c) \/ Leave(c)

RegNext == (\E c \in Client : Request(c) \/ Serve(c)) \/ Restart

RegSpec == RegInit /\ [][RegNext]_regVars

\* The lock is granted, what is done under it gets done, and a draw among
\* codes some of which are free finds one of them sooner or later.  Nothing is
\* assumed of the database, the clients and their sockets.
RegFairness == \A c \in Client : WF_regVars(Locked(c))

RegFairSpec == RegSpec /\ RegFairness

-----------------------------------------------------------------------------
(* Properties *)

\* The variables have their types; who waits, and nobody else, is in line, and
\* once; who draws or enters a code is inside the lock.
RegistryTypeOK ==
  /\ rooms \in [Code -> 0 .. minted]
  /\ minted \in 0 .. MaxRooms
  /\ at \in [Client -> Stage] /\ ask \in [Client -> Ask]
  /\ handle \in [Client -> 0 .. minted]
  /\ held \in [Client -> {None, "host", "player"}]
  /\ told \in [Client -> {None, "host", "player"}]
  /\ handed \subseteq [code : Code, token : 1 .. minted]
  /\ ended \subseteq 1 .. minted
  /\ IsInjective(line) /\ ToSet(line) = {c \in Client : at[c] = "line"}
  /\ \A c \in Client : at[c] \in {"inside", "drawn"} => inside = c

\* Registry: `uniquely` generated codes.  As long as a room is not removed and
\* the process runs, the code its host was given leads to it, however many
\* creations, cancelled requests and removals of other rooms go on at once: no
\* creation enters a code another took after it looked, though a code may be
\* drawn again when its room is gone.
CodesLeadHome ==
  \A h \in handed : h.token \notin ended => rooms[h.code] = h.token

\* Nobody is treated as the host of a room, or told they are, who did not show
\* that room's token on the same socket: not by the same code of an earlier
\* room, nor by another join on a player's socket (`join` of src/room.rs and
\* the handshake of src/ws.rs).
HostHoldsToken ==
  \A c \in Client :
    held[c] = "host" \/ told[c] = "host" => handle[c] \in shown[c]

\* Whoever waits for the lock gets it, or is gone, whatever the database does
\* meanwhile; unless every code is taken, for then a creation draws forever
\* and keeps everybody else out.
LookupAnswered ==
  \A c \in Client :
    at[c] = "line" ~> (at[c] # "line" \/ (inside # None /\ \A k \in Code : ~FreeCode(k)))
=============================================================================
