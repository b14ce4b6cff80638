---------------------------- MODULE Registry_proofs ----------------------------
(***************************************************************************)
(* Proofs about Registry: codes lead to the rooms they were given for, and *)
(* only the token of a room makes a host of it, for any clients and codes. *)
(***************************************************************************)
EXTENDS Registry, SequenceTheorems, TLAPS

Some == 1 .. minted

\* What a request says at each stage.
AskTypeOK ==
  \A c \in Client :
    /\ at[c] \in {"line", "inside"} /\ ask[c].kind = "create" => ask[c].token \in Some
    /\ at[c] = "line" /\ ask[c].kind = "remove" => ask[c].code \in Code
    /\ at[c] = "line" /\ ask[c].kind = "socket" => ask[c].code \in Code
    /\ at[c] = "inside" => ask[c].kind = "create"
    /\ at[c] \in {"drawn", "created"} => ask[c].code \in Code /\ ask[c].token \in Some

TypeInv ==
  /\ minted \in Nat
  /\ rooms \in [Code -> 0 .. minted]
  /\ DOMAIN at = Client /\ DOMAIN ask = Client
  /\ DOMAIN handle = Client /\ DOMAIN held = Client
  /\ DOMAIN told = Client /\ DOMAIN shown = Client
  /\ handed \subseteq [code : Code, token : Some]
  /\ ended \subseteq Some
  /\ AskTypeOK

\* A room whose response is on the way is where the response says.
AnswersLeadHome ==
  \A c \in Client :
    at[c] = "created" /\ ask[c].token \notin ended
      => rooms[ask[c].code] = ask[c].token

\* A socket in a room has one, and only such a socket has a role.
SocketHasRoom ==
  \A c \in Client :
    /\ at[c] \in {"joining", "in"} => handle[c] # 0
    /\ at[c] # "in" => held[c] = None /\ told[c] = None

\* Who draws or enters a code holds the lock: at most one does.
OneInside == \A c \in Client : at[c] \in {"inside", "drawn"} => inside = c

\* A code that has been drawn is free until its room is entered.
DrawnFree == \A c \in Client : at[c] = "drawn" => rooms[ask[c].code] = 0

RegInv ==
  /\ TypeInv
  /\ OneInside
  /\ DrawnFree
  /\ CodesLeadHome
  /\ AnswersLeadHome
  /\ SocketHasRoom
  /\ HostHoldsToken

-----------------------------------------------------------------------------
\* At the start there is no room, no request and no host.
LEMMA InitInv == RegInit => RegInv
  BY DEF RegInit, RegInv, TypeInv, AskTypeOK, CodesLeadHome, AnswersLeadHome,
         SocketHasRoom, HostHoldsToken, OneInside, DrawnFree, nothing, None, Some

USE DEF Goes, Some, mapVars, sockVars, pastVars

\* A step that touches no variable keeps the invariant.
LEMMA StutterInv == RegInv /\ UNCHANGED regVars => RegInv'
  BY DEF RegInv, TypeInv, AskTypeOK, CodesLeadHome, AnswersLeadHome,
         SocketHasRoom, HostHoldsToken, OneInside, DrawnFree, regVars

\* A request begins.
LEMMA PostInv == ASSUME RegInv, NEW c \in Client, Post(c) PROVE RegInv'
<1>1. TypeInv'
  BY DEF RegInv, TypeInv, AskTypeOK, nothing, None, Post
<1>2. CodesLeadHome'
  BY DEF RegInv, TypeInv, AskTypeOK, CodesLeadHome, AnswersLeadHome, Post
<1>3. AnswersLeadHome'
  BY DEF RegInv, TypeInv, AskTypeOK, CodesLeadHome, AnswersLeadHome, Post
<1>4. SocketHasRoom'
  BY DEF RegInv, TypeInv, SocketHasRoom, nothing, None, Post
<1>5. HostHoldsToken'
  BY DEF RegInv, TypeInv, SocketHasRoom, HostHoldsToken, None, Post
<1>6. OneInside' /\ DrawnFree'
  BY RegistryAssumption
     DEF RegInv, TypeInv, AskTypeOK, OneInside, DrawnFree, nothing, None, Post
<1> QED
  BY <1>1, <1>2, <1>3, <1>4, <1>5, <1>6 DEF RegInv

\* A creation fails for want of a catalog.
LEMMA CatalogFailsInv == ASSUME RegInv, NEW c \in Client, CatalogFails(c) PROVE RegInv'
<1>1. TypeInv'
  BY DEF RegInv, TypeInv, AskTypeOK, nothing, None, CatalogFails
<1>2. CodesLeadHome'
  BY DEF RegInv, TypeInv, AskTypeOK, CodesLeadHome, AnswersLeadHome, CatalogFails
<1>3. AnswersLeadHome'
  BY DEF RegInv, TypeInv, AskTypeOK, CodesLeadHome, AnswersLeadHome, CatalogFails
<1>4. SocketHasRoom'
  BY DEF RegInv, TypeInv, SocketHasRoom, nothing, None, CatalogFails
<1>5. HostHoldsToken'
  BY DEF RegInv, TypeInv, SocketHasRoom, HostHoldsToken, None, CatalogFails
<1>6. OneInside' /\ DrawnFree'
  BY RegistryAssumption
     DEF RegInv, TypeInv, AskTypeOK, OneInside, DrawnFree, nothing, None, CatalogFails
<1> QED
  BY <1>1, <1>2, <1>3, <1>4, <1>5, <1>6 DEF RegInv

\* A token is drawn that no room has.
LEMMA CatalogLoadedInv == ASSUME RegInv, NEW c \in Client, CatalogLoaded(c) PROVE RegInv'
<1>1. TypeInv'
  BY DEF RegInv, TypeInv, AskTypeOK, nothing, None, CatalogLoaded
<1>2. CodesLeadHome'
  BY DEF RegInv, TypeInv, AskTypeOK, CodesLeadHome, AnswersLeadHome, CatalogLoaded
<1>3. AnswersLeadHome'
  BY DEF RegInv, TypeInv, AskTypeOK, CodesLeadHome, AnswersLeadHome, CatalogLoaded
<1>4. SocketHasRoom'
  BY DEF RegInv, TypeInv, SocketHasRoom, nothing, None, CatalogLoaded
<1>5. HostHoldsToken'
  BY DEF RegInv, TypeInv, SocketHasRoom, HostHoldsToken, None, CatalogLoaded
<1>6. OneInside' /\ DrawnFree'
  BY RegistryAssumption
     DEF RegInv, TypeInv, AskTypeOK, OneInside, DrawnFree, nothing, None, CatalogLoaded
<1> QED
  BY <1>1, <1>2, <1>3, <1>4, <1>5, <1>6 DEF RegInv

\* A creation gets the lock.
LEMMA EnterInv == ASSUME RegInv, NEW c \in Client, Enter(c) PROVE RegInv'
<1>1. TypeInv'
  BY DEF RegInv, TypeInv, AskTypeOK, nothing, None, Enter, MayEnter
<1>2. CodesLeadHome'
  BY DEF RegInv, TypeInv, AskTypeOK, CodesLeadHome, AnswersLeadHome, Enter, MayEnter
<1>3. AnswersLeadHome'
  BY DEF RegInv, TypeInv, AskTypeOK, CodesLeadHome, AnswersLeadHome, Enter, MayEnter
<1>4. SocketHasRoom'
  BY DEF RegInv, TypeInv, SocketHasRoom, nothing, None, Enter, MayEnter
<1>5. HostHoldsToken'
  BY DEF RegInv, TypeInv, SocketHasRoom, HostHoldsToken, None, Enter, MayEnter
<1>6. OneInside' /\ DrawnFree'
  BY RegistryAssumption
     DEF RegInv, TypeInv, AskTypeOK, OneInside, DrawnFree, nothing, None, Enter, MayEnter
<1> QED
  BY <1>1, <1>2, <1>3, <1>4, <1>5, <1>6 DEF RegInv

\* A code is drawn that leads nowhere: nothing changes yet.
LEMMA DrawInv == ASSUME RegInv, NEW c \in Client, Draw(c) PROVE RegInv'
<1>1. TypeInv'
  BY DEF RegInv, TypeInv, AskTypeOK, nothing, None, Draw, Draws, FreeCode
<1>2. CodesLeadHome'
  BY DEF RegInv, TypeInv, AskTypeOK, CodesLeadHome, AnswersLeadHome, Draw, Draws, FreeCode
<1>3. AnswersLeadHome'
  BY DEF RegInv, TypeInv, AskTypeOK, CodesLeadHome, AnswersLeadHome, Draw, Draws, FreeCode
<1>4. SocketHasRoom'
  BY DEF RegInv, TypeInv, SocketHasRoom, nothing, None, Draw, Draws, FreeCode
<1>5. HostHoldsToken'
  BY DEF RegInv, TypeInv, SocketHasRoom, HostHoldsToken, None, Draw, Draws, FreeCode
<1>6. OneInside' /\ DrawnFree'
  BY RegistryAssumption
     DEF RegInv, TypeInv, AskTypeOK, OneInside, DrawnFree, nothing, None, Draw, Draws, FreeCode
<1> QED
  BY <1>1, <1>2, <1>3, <1>4, <1>5, <1>6 DEF RegInv

\* The code drawn still leads nowhere when the room is entered: no code handed out changes.
LEMMA InsertInv == ASSUME RegInv, NEW c \in Client, Insert(c) PROVE RegInv'
<1>1. TypeInv'
  BY DEF RegInv, TypeInv, AskTypeOK, nothing, None, Insert
<1>2. CodesLeadHome'
  BY DEF RegInv, TypeInv, AskTypeOK, CodesLeadHome, AnswersLeadHome, OneInside, DrawnFree, Insert
<1>3. AnswersLeadHome'
  BY DEF RegInv, TypeInv, AskTypeOK, CodesLeadHome, AnswersLeadHome, OneInside, DrawnFree, Insert
<1>4. SocketHasRoom'
  BY DEF RegInv, TypeInv, SocketHasRoom, nothing, None, Insert
<1>5. HostHoldsToken'
  BY DEF RegInv, TypeInv, SocketHasRoom, HostHoldsToken, None, Insert
<1>6. OneInside' /\ DrawnFree'
  BY RegistryAssumption
     DEF RegInv, TypeInv, AskTypeOK, OneInside, DrawnFree, nothing, None, Insert
<1> QED
  BY <1>1, <1>2, <1>3, <1>4, <1>5, <1>6 DEF RegInv

\* The host learns a code that leads to the room, or nobody does.
LEMMA CreatedInv == ASSUME RegInv, NEW c \in Client, Created(c) PROVE RegInv'
<1>1. TypeInv'
  BY DEF RegInv, TypeInv, AskTypeOK, nothing, None, Created
<1>2. CodesLeadHome'
  BY DEF RegInv, TypeInv, AskTypeOK, CodesLeadHome, AnswersLeadHome, Created
<1>3. AnswersLeadHome'
  BY DEF RegInv, TypeInv, AskTypeOK, CodesLeadHome, AnswersLeadHome, Created
<1>4. SocketHasRoom'
  BY DEF RegInv, TypeInv, SocketHasRoom, nothing, None, Created
<1>5. HostHoldsToken'
  BY DEF RegInv, TypeInv, SocketHasRoom, HostHoldsToken, None, Created
<1>6. OneInside' /\ DrawnFree'
  BY RegistryAssumption
     DEF RegInv, TypeInv, AskTypeOK, OneInside, DrawnFree, nothing, None, Created
<1> QED
  BY <1>1, <1>2, <1>3, <1>4, <1>5, <1>6 DEF RegInv

\* A lookup joins the line.
LEMMA AskInfoInv == ASSUME RegInv, NEW c \in Client, AskInfo(c) PROVE RegInv'
<1>1. TypeInv'
  BY DEF RegInv, TypeInv, AskTypeOK, nothing, None, AskInfo, Queues
<1>2. CodesLeadHome'
  BY DEF RegInv, TypeInv, AskTypeOK, CodesLeadHome, AnswersLeadHome, AskInfo, Queues
<1>3. AnswersLeadHome'
  BY DEF RegInv, TypeInv, AskTypeOK, CodesLeadHome, AnswersLeadHome, AskInfo, Queues
<1>4. SocketHasRoom'
  BY DEF RegInv, TypeInv, SocketHasRoom, nothing, None, AskInfo, Queues
<1>5. HostHoldsToken'
  BY DEF RegInv, TypeInv, SocketHasRoom, HostHoldsToken, None, AskInfo, Queues
<1>6. OneInside' /\ DrawnFree'
  BY RegistryAssumption
     DEF RegInv, TypeInv, AskTypeOK, OneInside, DrawnFree, nothing, None, AskInfo, Queues
<1> QED
  BY <1>1, <1>2, <1>3, <1>4, <1>5, <1>6 DEF RegInv

\* A removal joins the line.
LEMMA AskRemoveInv == ASSUME RegInv, NEW c \in Client, AskRemove(c) PROVE RegInv'
<1>1. TypeInv'
  BY DEF RegInv, TypeInv, AskTypeOK, nothing, None, AskRemove, Queues
<1>2. CodesLeadHome'
  BY DEF RegInv, TypeInv, AskTypeOK, CodesLeadHome, AnswersLeadHome, AskRemove, Queues
<1>3. AnswersLeadHome'
  BY DEF RegInv, TypeInv, AskTypeOK, CodesLeadHome, AnswersLeadHome, AskRemove, Queues
<1>4. SocketHasRoom'
  BY DEF RegInv, TypeInv, SocketHasRoom, nothing, None, AskRemove, Queues
<1>5. HostHoldsToken'
  BY DEF RegInv, TypeInv, SocketHasRoom, HostHoldsToken, None, AskRemove, Queues
<1>6. OneInside' /\ DrawnFree'
  BY RegistryAssumption
     DEF RegInv, TypeInv, AskTypeOK, OneInside, DrawnFree, nothing, None, AskRemove, Queues
<1> QED
  BY <1>1, <1>2, <1>3, <1>4, <1>5, <1>6 DEF RegInv

\* A socket's lookup joins the line.
LEMMA AskSocketInv == ASSUME RegInv, NEW c \in Client, AskSocket(c) PROVE RegInv'
<1>1. TypeInv'
  BY DEF RegInv, TypeInv, AskTypeOK, nothing, None, AskSocket, Queues, Wish
<1>2. CodesLeadHome'
  BY DEF RegInv, TypeInv, AskTypeOK, CodesLeadHome, AnswersLeadHome, AskSocket, Queues, Wish
<1>3. AnswersLeadHome'
  BY DEF RegInv, TypeInv, AskTypeOK, CodesLeadHome, AnswersLeadHome, AskSocket, Queues, Wish
<1>4. SocketHasRoom'
  BY DEF RegInv, TypeInv, SocketHasRoom, nothing, None, AskSocket, Queues, Wish
<1>5. HostHoldsToken'
  BY DEF RegInv, TypeInv, SocketHasRoom, HostHoldsToken, None, AskSocket, Queues, Wish
<1>6. OneInside' /\ DrawnFree'
  BY RegistryAssumption
     DEF RegInv, TypeInv, AskTypeOK, OneInside, DrawnFree, nothing, None, AskSocket, Queues, Wish
<1> QED
  BY <1>1, <1>2, <1>3, <1>4, <1>5, <1>6 DEF RegInv

\* A lookup is answered.
LEMMA InformInv == ASSUME RegInv, NEW c \in Client, Inform(c) PROVE RegInv'
<1>1. TypeInv'
  BY DEF RegInv, TypeInv, AskTypeOK, nothing, None, Inform, Answered, MayEnter
<1>2. CodesLeadHome'
  BY DEF RegInv, TypeInv, AskTypeOK, CodesLeadHome, AnswersLeadHome, Inform, Answered, MayEnter
<1>3. AnswersLeadHome'
  BY DEF RegInv, TypeInv, AskTypeOK, CodesLeadHome, AnswersLeadHome, Inform, Answered, MayEnter
<1>4. SocketHasRoom'
  BY DEF RegInv, TypeInv, SocketHasRoom, nothing, None, Inform, Answered, MayEnter
<1>5. HostHoldsToken'
  BY DEF RegInv, TypeInv, SocketHasRoom, HostHoldsToken, None, Inform, Answered, MayEnter
<1>6. OneInside' /\ DrawnFree'
  BY RegistryAssumption
     DEF RegInv, TypeInv, AskTypeOK, OneInside, DrawnFree, nothing, None, Inform, Answered, MayEnter
<1> QED
  BY <1>1, <1>2, <1>3, <1>4, <1>5, <1>6 DEF RegInv

\* Removing a room ends it, and changes no other code.
LEMMA TakeOutInv == ASSUME RegInv, NEW c \in Client, TakeOut(c) PROVE RegInv'
<1>1. TypeInv'
  <2>1. ask[c].code \in Code /\ rooms[ask[c].code] \in 0 .. minted
    BY DEF RegInv, TypeInv, AskTypeOK, TakeOut, Answered, MayEnter
  <2>2. {rooms[ask[c].code]} \ {0} \subseteq Some
    BY <2>1 DEF RegInv, TypeInv
  <2>3. minted' = minted /\ handed' = handed
    BY DEF TakeOut, Answered
  <2>4. ended' \subseteq Some
    BY <2>2 DEF RegInv, TypeInv, TakeOut
  <2>5. rooms' \in [Code -> 0 .. minted]
    BY <2>1 DEF RegInv, TypeInv, TakeOut
  <2>6. AskTypeOK'
    BY DEF RegInv, TypeInv, AskTypeOK, nothing, TakeOut, Answered
  <2> QED
    BY <2>3, <2>4, <2>5, <2>6 DEF RegInv, TypeInv, TakeOut
<1>2. CodesLeadHome'
  BY DEF RegInv, TypeInv, AskTypeOK, CodesLeadHome, AnswersLeadHome, TakeOut, Answered, MayEnter
<1>3. AnswersLeadHome'
  BY DEF RegInv, TypeInv, AskTypeOK, CodesLeadHome, AnswersLeadHome, TakeOut, Answered, MayEnter
<1>4. SocketHasRoom'
  BY DEF RegInv, TypeInv, SocketHasRoom, nothing, None, TakeOut, Answered, MayEnter
<1>5. HostHoldsToken'
  BY DEF RegInv, TypeInv, SocketHasRoom, HostHoldsToken, None, TakeOut, Answered, MayEnter
<1>6. OneInside' /\ DrawnFree'
  BY RegistryAssumption
     DEF RegInv, TypeInv, AskTypeOK, OneInside, DrawnFree, nothing, None, TakeOut, Answered, MayEnter
<1> QED
  BY <1>1, <1>2, <1>3, <1>4, <1>5, <1>6 DEF RegInv

\* A socket gets the room the code leads to.
LEMMA FindInv == ASSUME RegInv, NEW c \in Client, Find(c) PROVE RegInv'
<1>1. TypeInv'
  BY DEF RegInv, TypeInv, AskTypeOK, nothing, None, Find, Answered, MayEnter
<1>2. CodesLeadHome'
  BY DEF RegInv, TypeInv, AskTypeOK, CodesLeadHome, AnswersLeadHome, Find, Answered, MayEnter
<1>3. AnswersLeadHome'
  BY DEF RegInv, TypeInv, AskTypeOK, CodesLeadHome, AnswersLeadHome, Find, Answered, MayEnter
<1>4. SocketHasRoom'
  BY DEF RegInv, TypeInv, SocketHasRoom, nothing, None, Find, Answered, MayEnter
<1>5. HostHoldsToken'
  BY DEF RegInv, TypeInv, SocketHasRoom, HostHoldsToken, None, Find, Answered, MayEnter
<1>6. OneInside' /\ DrawnFree'
  BY RegistryAssumption
     DEF RegInv, TypeInv, AskTypeOK, OneInside, DrawnFree, nothing, None, Find, Answered, MayEnter
<1> QED
  BY <1>1, <1>2, <1>3, <1>4, <1>5, <1>6 DEF RegInv

\* Who becomes host has shown the token of the room found.
LEMMA JoinInv == ASSUME RegInv, NEW c \in Client, Join(c) PROVE RegInv'
<1>1. TypeInv'
  BY DEF RegInv, TypeInv, AskTypeOK, nothing, None, Join, Admits, Close
<1>2. CodesLeadHome'
  BY DEF RegInv, TypeInv, AskTypeOK, CodesLeadHome, AnswersLeadHome, Join, Admits, Close
<1>3. AnswersLeadHome'
  BY DEF RegInv, TypeInv, AskTypeOK, CodesLeadHome, AnswersLeadHome, Join, Admits, Close
<1>4. SocketHasRoom'
  BY DEF RegInv, TypeInv, SocketHasRoom, nothing, None, Join, Admits, Close
<1>5. HostHoldsToken'
  BY DEF RegInv, TypeInv, SocketHasRoom, HostHoldsToken, None, Join, Admits, Close
<1>6. OneInside' /\ DrawnFree'
  BY RegistryAssumption
     DEF RegInv, TypeInv, AskTypeOK, OneInside, DrawnFree, nothing, None, Join, Admits, Close
<1> QED
  BY <1>1, <1>2, <1>3, <1>4, <1>5, <1>6 DEF RegInv

\* Another join on the socket: what it is told, it has shown the token for.
LEMMA JoinAgainInv == ASSUME RegInv, NEW c \in Client, JoinAgain(c) PROVE RegInv'
<1>1. TypeInv'
  BY DEF RegInv, TypeInv, AskTypeOK, nothing, None, JoinAgain, Admits, RoleAfter, Wish
<1>2. CodesLeadHome'
  BY DEF RegInv, TypeInv, AskTypeOK, CodesLeadHome, AnswersLeadHome, JoinAgain, Admits, RoleAfter, Wish
<1>3. AnswersLeadHome'
  BY DEF RegInv, TypeInv, AskTypeOK, CodesLeadHome, AnswersLeadHome, JoinAgain, Admits, RoleAfter, Wish
<1>4. SocketHasRoom'
  BY DEF RegInv, TypeInv, SocketHasRoom, nothing, None, JoinAgain, Admits, RoleAfter, Wish
<1>5. HostHoldsToken'
  BY DEF RegInv, TypeInv, SocketHasRoom, HostHoldsToken, None, JoinAgain, Admits, RoleAfter, Wish
<1>6. OneInside' /\ DrawnFree'
  BY RegistryAssumption
     DEF RegInv, TypeInv, AskTypeOK, OneInside, DrawnFree, nothing, None, JoinAgain, Admits, RoleAfter, Wish
<1> QED
  BY <1>1, <1>2, <1>3, <1>4, <1>5, <1>6 DEF RegInv

\* A socket closes.
LEMMA LeaveInv == ASSUME RegInv, NEW c \in Client, Leave(c) PROVE RegInv'
<1>1. TypeInv'
  BY DEF RegInv, TypeInv, AskTypeOK, nothing, None, Leave, Close
<1>2. CodesLeadHome'
  BY DEF RegInv, TypeInv, AskTypeOK, CodesLeadHome, AnswersLeadHome, Leave, Close
<1>3. AnswersLeadHome'
  BY DEF RegInv, TypeInv, AskTypeOK, CodesLeadHome, AnswersLeadHome, Leave, Close
<1>4. SocketHasRoom'
  BY DEF RegInv, TypeInv, SocketHasRoom, nothing, None, Leave, Close
<1>5. HostHoldsToken'
  BY DEF RegInv, TypeInv, SocketHasRoom, HostHoldsToken, None, Leave, Close
<1>6. OneInside' /\ DrawnFree'
  BY RegistryAssumption
     DEF RegInv, TypeInv, AskTypeOK, OneInside, DrawnFree, nothing, None, Leave, Close
<1> QED
  BY <1>1, <1>2, <1>3, <1>4, <1>5, <1>6 DEF RegInv

\* A waiting request is dropped.
LEMMA CancelInv == ASSUME RegInv, NEW c \in Client, Cancel(c) PROVE RegInv'
<1>1. TypeInv'
  BY DEF RegInv, TypeInv, AskTypeOK, nothing, None, Cancel, Close
<1>2. CodesLeadHome'
  BY DEF RegInv, TypeInv, AskTypeOK, CodesLeadHome, AnswersLeadHome, Cancel, Close
<1>3. AnswersLeadHome'
  BY DEF RegInv, TypeInv, AskTypeOK, CodesLeadHome, AnswersLeadHome, Cancel, Close
<1>4. SocketHasRoom'
  BY DEF RegInv, TypeInv, SocketHasRoom, nothing, None, Cancel, Close
<1>5. HostHoldsToken'
  BY DEF RegInv, TypeInv, SocketHasRoom, HostHoldsToken, None, Cancel, Close
<1>6. OneInside' /\ DrawnFree'
  BY RegistryAssumption
     DEF RegInv, TypeInv, AskTypeOK, OneInside, DrawnFree, nothing, None, Cancel, Close
<1> QED
  BY <1>1, <1>2, <1>3, <1>4, <1>5, <1>6 DEF RegInv

\* The process starts again: every room has ended.
LEMMA RestartInv == RegInv /\ Restart => RegInv'
  BY DEF RegInv, TypeInv, AskTypeOK, CodesLeadHome, AnswersLeadHome,
         SocketHasRoom, HostHoldsToken, OneInside, DrawnFree, nothing, None, Restart

\* Every step of the registry, its clients and the process keeps the invariant.
THEOREM RegistryStep == RegInv /\ [RegNext]_regVars => RegInv'
<1>1. ASSUME RegInv, NEW c \in Client, Request(c) PROVE RegInv'
  BY <1>1, PostInv, AskInfoInv, AskRemoveInv, AskSocketInv, CancelInv DEF Request
<1>2. ASSUME RegInv, NEW c \in Client, Locked(c) PROVE RegInv'
  BY <1>2, EnterInv, DrawInv, InsertInv, InformInv, TakeOutInv, FindInv DEF Locked
<1>3. ASSUME RegInv, NEW c \in Client, Serve(c) PROVE RegInv'
  BY <1>2, <1>3, CatalogFailsInv, CatalogLoadedInv, CreatedInv, JoinInv, JoinAgainInv,
     LeaveInv DEF Serve
<1> QED
  BY <1>1, <1>3, RestartInv, StutterInv DEF RegNext

\* The inductive invariant holds in every reachable state.
THEOREM RegistryInvariant == RegSpec => []RegInv
  BY InitInv, RegistryStep, PTL DEF RegSpec

\* The code of a room that is neither removed nor of a stopped process leads to
\* it, for any number of clients, codes and rooms (Registry::create_room).
THEOREM AlwaysLeadsHome == RegSpec => []CodesLeadHome
<1>1. RegInv => CodesLeadHome
  BY DEF RegInv
<1> QED
  BY <1>1, RegistryInvariant, PTL

\* Nobody is host of a room, in the eyes of the handler or their own, without
\* the token of that very room (join of src/room.rs, src/ws.rs).
THEOREM HostsShowTokens == RegSpec => []HostHoldsToken
<1>1. RegInv => HostHoldsToken
  BY DEF RegInv
<1> QED
  BY <1>1, RegistryInvariant, PTL

-----------------------------------------------------------------------------
(* The line before the lock, and the types *)

\* Who stands in line s, where everybody stands once, and who is at the end of
\* it when somebody else joins.
LEMMA JoinLine ==
  ASSUME NEW S, NEW s \in Seq(S), IsInjective(s), NEW e \in S, e \notin ToSet(s)
  PROVE  /\ Append(s, e) \in Seq(S)
         /\ IsInjective(Append(s, e))
         /\ ToSet(Append(s, e)) = ToSet(s) \cup {e}
<1> DEFINE t == Append(s, e)
<1>1. /\ t \in Seq(S) /\ DOMAIN t = 1 .. Len(s) + 1 /\ DOMAIN s = 1 .. Len(s)
      /\ Len(s) \in Nat
      /\ t[Len(s) + 1] = e
      /\ \A i \in 1 .. Len(s) : t[i] = s[i]
  OBVIOUS
<1> HIDE DEF t
<1>2. IsInjective(t)
  <2> SUFFICES ASSUME NEW i \in DOMAIN t, NEW j \in DOMAIN t, t[i] = t[j] PROVE i = j
    BY DEF IsInjective
  <2>1. \A k \in 1 .. Len(s) : t[k] # e
    BY <1>1 DEF ToSet
  <2>2. CASE i \in 1 .. Len(s) /\ j \in 1 .. Len(s)
    BY <1>1, <2>2 DEF IsInjective
  <2>3. CASE i = Len(s) + 1 \/ j = Len(s) + 1
    BY <1>1, <2>1, <2>3
  <2> QED
    BY <1>1, <2>2, <2>3
<1>3. ToSet(t) = ToSet(s) \cup {e}
  <2>1. ASSUME NEW x \in ToSet(t) PROVE x \in ToSet(s) \cup {e}
    BY <1>1 DEF ToSet
  <2>2. ASSUME NEW x \in ToSet(s) PROVE x \in ToSet(t)
    BY <1>1 DEF ToSet
  <2>3. e \in ToSet(t)
    BY <1>1 DEF ToSet
  <2> QED
    BY <2>1, <2>2, <2>3
<1> QED
  BY <1>1, <1>2, <1>3 DEF t

\* Who stands in the line that a request has left, from wherever it stood.
LEMMA LeaveLine ==
  ASSUME NEW S, NEW s \in Seq(S), IsInjective(s), NEW p \in DOMAIN s
  PROVE  /\ RemoveAt(s, p) \in Seq(S)
         /\ IsInjective(RemoveAt(s, p))
         /\ ToSet(RemoveAt(s, p)) = ToSet(s) \ {s[p]}
<1> DEFINE t == RemoveAt(s, p)
           u == SubSeq(s, 1, p - 1)
           v == SubSeq(s, p + 1, Len(s))
           was(i) == IF i < p THEN i ELSE i + 1
<1>1. Len(s) \in Nat /\ p \in 1 .. Len(s) /\ DOMAIN s = 1 .. Len(s)
  OBVIOUS
<1>2. u \in Seq(S) /\ Len(u) = p - 1 /\ \A i \in 1 .. p - 1 : u[i] = s[i]
  BY <1>1
<1>3. v \in Seq(S) /\ Len(v) = Len(s) - p /\ \A i \in 1 .. Len(s) - p : v[i] = s[p + i]
  BY <1>1
<1>4. t = u \o v
  BY DEF RemoveAt
<1> HIDE DEF t, u, v
<1>5. /\ t \in Seq(S) /\ DOMAIN t = 1 .. Len(s) - 1
      /\ \A i \in 1 .. Len(s) - 1 : t[i] = IF i <= p - 1 THEN u[i] ELSE v[i - (p - 1)]
  <2>1. /\ t \in Seq(S)
        /\ Len(t) = Len(u) + Len(v)
        /\ \A i \in 1 .. Len(u) + Len(v) :
             t[i] = IF i <= Len(u) THEN u[i] ELSE v[i - Len(u)]
    BY <1>2, <1>3, <1>4, ConcatProperties
  <2>2. Len(u) + Len(v) = Len(s) - 1
    BY <1>1, <1>2, <1>3
  <2>3. DOMAIN t = 1 .. Len(t)
    BY <2>1
  <2> QED
    BY <1>2, <2>1, <2>2, <2>3
<1>6. ASSUME NEW i \in DOMAIN t
      PROVE  was(i) \in DOMAIN s /\ was(i) # p /\ t[i] = s[was(i)]
  <2>1. CASE i < p
    BY <1>1, <1>2, <1>5, <2>1
  <2>2. CASE ~(i < p)
    <3>1. i - (p - 1) \in 1 .. Len(s) - p
      BY <1>1, <1>5, <2>2
    <3>2. t[i] = v[i - (p - 1)]
      BY <1>1, <1>5, <2>2
    <3>3. v[i - (p - 1)] = s[p + (i - (p - 1))]
      BY <1>3, <3>1
    <3>4. p + (i - (p - 1)) = i + 1
      BY <1>1, <1>5
    <3> QED
      BY <1>1, <1>5, <2>2, <3>2, <3>3, <3>4
  <2> QED
    BY <2>1, <2>2
<1>7. IsInjective(t)
  <2> SUFFICES ASSUME NEW i \in DOMAIN t, NEW j \in DOMAIN t, t[i] = t[j] PROVE i = j
    BY DEF IsInjective
  <2>1. was(i) = was(j)
    BY <1>6 DEF IsInjective
  <2> QED
    BY <1>1, <1>5, <2>1
<1>8. ToSet(t) = ToSet(s) \ {s[p]}
  <2>1. ASSUME NEW i \in DOMAIN t PROVE t[i] \in ToSet(s) \ {s[p]}
    <3>1. was(i) \in DOMAIN s /\ was(i) # p /\ t[i] = s[was(i)]
      BY <1>6
    <3> HIDE DEF was
    <3> QED
      BY <3>1 DEF ToSet, IsInjective
  <2>2. ASSUME NEW k \in DOMAIN s, s[k] # s[p] PROVE s[k] \in ToSet(t)
    <3> DEFINE i == IF k < p THEN k ELSE k - 1
    <3>1. i \in DOMAIN t /\ was(i) = k
      BY <1>1, <1>5, <2>2
    <3> HIDE DEF i
    <3> QED
      BY <1>6, <3>1 DEF ToSet
  <2> QED
    BY <2>1, <2>2 DEF ToSet
<1> QED
  BY <1>5, <1>7, <1>8 DEF t

\* Taking the first of the line is leaving it from the first place.
LEMMA FirstLeaves ==
  ASSUME NEW S, NEW s \in Seq(S), s # <<>>
  PROVE  1 \in DOMAIN s /\ Head(s) = s[1] /\ Tail(s) = RemoveAt(s, 1)
<1>1. Len(s) \in Nat \ {0}
  BY EmptySeq
<1>2. SubSeq(s, 1, 0) = <<>> /\ Tail(s) = SubSeq(s, 2, Len(s))
  BY <1>1, SubSeqProperties, HeadTailProperties
<1>3. RemoveAt(s, 1) = <<>> \o SubSeq(s, 2, Len(s))
  BY <1>2 DEF RemoveAt
<1> QED
  BY <1>1, <1>2, <1>3

LineOK ==
  /\ line \in Seq(Client)
  /\ IsInjective(line)
  /\ ToSet(line) = {c \in Client : at[c] = "line"}

\* Each request is well formed; one that asks for a role is a socket's.
RequestOK ==
  /\ minted \in 0 .. MaxRooms
  /\ at \in [Client -> Stage]
  /\ ask \in [Client -> Ask]
  /\ \A c \in Client : at[c] = "joining" => ask[c].kind = "socket"

SocketOK ==
  /\ handle \in [Client -> 0 .. minted]
  /\ held \in [Client -> {None, "host", "player"}]
  /\ told \in [Client -> {None, "host", "player"}]

RegTypes == LineOK /\ RequestOK /\ SocketOK

\* At the start nobody asks, and the line is empty.
LEMMA InitTypes == RegInit => RegTypes
  BY RegistryAssumption
     DEF RegInit, RegTypes, LineOK, RequestOK, SocketOK, IsInjective, ToSet,
         Stage, Ask, nothing, None

\* A step that moves nobody into the line or out of it keeps the line.
LEMMA SameLine ==
  ASSUME LineOK, UNCHANGED line,
         \A d \in Client : at'[d] = "line" <=> at[d] = "line"
  PROVE  LineOK'
  BY DEF LineOK

\* A request takes its place at the end of the line.
LEMMA InLine ==
  ASSUME LineOK, at \in [Client -> Stage], NEW c \in Client, at[c] # "line",
         at' = [at EXCEPT ![c] = "line"], line' = Append(line, c)
  PROVE  LineOK'
<1>1. c \notin ToSet(line)
  BY DEF LineOK
<1>2. /\ Append(line, c) \in Seq(Client)
      /\ IsInjective(Append(line, c))
      /\ ToSet(Append(line, c)) = ToSet(line) \cup {c}
  BY <1>1, JoinLine DEF LineOK
<1>3. {d \in Client : at'[d] = "line"} = {d \in Client : at[d] = "line"} \cup {c}
  OBVIOUS
<1> QED
  BY <1>2, <1>3 DEF LineOK

\* A request gives its place up.
LEMMA OutOfLine ==
  ASSUME LineOK, at \in [Client -> Stage], NEW c \in Client, NEW stage, stage # "line",
         NEW p \in DOMAIN line, line[p] = c,
         at' = [at EXCEPT ![c] = stage], line' = RemoveAt(line, p)
  PROVE  LineOK'
<1>1. /\ RemoveAt(line, p) \in Seq(Client)
      /\ IsInjective(RemoveAt(line, p))
      /\ ToSet(RemoveAt(line, p)) = ToSet(line) \ {c}
  BY LeaveLine DEF LineOK
<1>2. {d \in Client : at'[d] = "line"} = {d \in Client : at[d] = "line"} \ {c}
  OBVIOUS
<1> QED
  BY <1>1, <1>2 DEF LineOK

\* Who may take the lock is the first of the line, and leaves it.
LEMMA FirstIn ==
  ASSUME LineOK, at \in [Client -> Stage], NEW c \in Client, MayEnter(c),
         NEW stage, stage # "line",
         at' = [at EXCEPT ![c] = stage], line' = Tail(line)
  PROVE  LineOK'
<1>1. line # <<>>
  <2>1. c \in ToSet(line)
    BY DEF LineOK, MayEnter
  <2> QED
    BY <2>1 DEF ToSet
<1>2. 1 \in DOMAIN line /\ line[1] = c /\ Tail(line) = RemoveAt(line, 1)
  BY <1>1, FirstLeaves DEF LineOK, MayEnter
<1> QED
  BY <1>2, OutOfLine

\* A token that has been drawn is a room's, within the bound.
LEMMA Drawn == ASSUME RegInv, RequestOK PROVE Tokens \subseteq Room \cup {0}
<1>1. minted \in Nat /\ MaxRooms \in Nat /\ minted <= MaxRooms
  BY RegistryAssumption DEF RequestOK
<1>2. \A h \in handed : h.token \in 1 .. minted
  BY DEF RegInv, TypeInv
<1> QED
  BY <1>1, <1>2 DEF Tokens, Room

\* A request comes in, or is dropped.
LEMMA RequestTypes ==
  ASSUME RegInv, RegTypes, NEW c \in Client, Request(c)
  PROVE  RegTypes'
<1> USE DEF nothing, None, Stage
<1>0. Tokens \subseteq Room \cup {0}
  BY Drawn DEF RegTypes
<1>1. CASE Post(c)
  <2>1. LineOK'
    BY <1>1, SameLine DEF RegTypes, RequestOK, Post
  <2>2. RequestOK' /\ SocketOK'
    BY <1>1 DEF RegTypes, RequestOK, SocketOK, Ask, Post
  <2> QED
    BY <2>1, <2>2 DEF RegTypes
<1>2. ASSUME NEW what \in Ask, Queues(c, what) PROVE RegTypes'
  <2>1. LineOK'
    BY <1>2, InLine DEF RegTypes, RequestOK, Queues
  <2>2. RequestOK' /\ SocketOK'
    BY <1>2 DEF RegTypes, RequestOK, SocketOK, Queues
  <2> QED
    BY <2>1, <2>2 DEF RegTypes
<1>3. CASE AskInfo(c)
  BY <1>2, <1>3 DEF AskInfo, Ask
<1>4. CASE AskRemove(c)
  BY <1>2, <1>4 DEF AskRemove, Ask
<1>5. CASE AskSocket(c)
  <2>1. PICK k \in Code, w \in Wish :
          Queues(c, [kind |-> "socket", code |-> k, role |-> w.role, token |-> w.token])
    BY <1>5 DEF AskSocket
  <2>2. w.role \in {"host", "player"} /\ w.token \in Room \cup {0}
    BY <1>0 DEF Wish
  <2>3. [kind |-> "socket", code |-> k, role |-> w.role, token |-> w.token] \in Ask
    BY <2>2 DEF Ask
  <2> QED
    BY <1>2, <2>1, <2>3
<1>6. CASE Cancel(c)
  <2>1. LineOK'
    <3>1. CASE at[c] = "line"
      <4>1. PICK p \in DOMAIN line : line[p] = c /\ line' = RemoveAt(line, p)
        BY <1>6, <3>1 DEF Cancel
      <4> QED
        BY <1>6, <4>1, OutOfLine DEF RegTypes, RequestOK, Cancel, Close
    <3>2. CASE at[c] # "line"
      BY <1>6, <3>2, SameLine DEF RegTypes, RequestOK, Cancel, Close
    <3> QED
      BY <3>1, <3>2
  <2>2. RequestOK' /\ SocketOK'
    BY <1>6 DEF RegTypes, RequestOK, SocketOK, Ask, RegInv, TypeInv, Cancel, Close
  <2> QED
    BY <2>1, <2>2 DEF RegTypes
<1> QED
  BY <1>1, <1>3, <1>4, <1>5, <1>6 DEF Request

\* What is done by and under the lock.
LEMMA LockedTypes ==
  ASSUME RegInv, RegTypes, NEW c \in Client, Locked(c)
  PROVE  RegTypes'
<1> USE DEF nothing, None, Stage
<1>1. CASE Enter(c)
  <2>1. LineOK'
    BY <1>1, FirstIn DEF RegTypes, RequestOK, Enter
  <2>2. RequestOK' /\ SocketOK'
    BY <1>1, RegistryAssumption DEF RegTypes, RequestOK, SocketOK, Enter, MayEnter
  <2> QED
    BY <2>1, <2>2 DEF RegTypes
<1>2. CASE Draw(c)
  <2>1. LineOK'
    BY <1>2, SameLine DEF RegTypes, RequestOK, Draw, Draws
  <2>2. RequestOK'
    <3>1. ask[c].token \in Room
      <4>1. ask[c].kind = "create" /\ ask[c].token \in 1 .. minted
        BY <1>2 DEF RegInv, TypeInv, AskTypeOK, Draw, Draws
      <4>2. minted \in 0 .. MaxRooms /\ MaxRooms \in Nat
        BY RegistryAssumption DEF RegTypes, RequestOK
      <4> QED
        BY <4>1, <4>2 DEF Room
    <3> QED
      BY <1>2, <3>1 DEF RegTypes, RequestOK, Ask, Draw, Draws
  <2>3. SocketOK'
    BY <1>2 DEF RegTypes, RequestOK, SocketOK, Draw
  <2> QED
    BY <2>1, <2>2, <2>3 DEF RegTypes
<1>3. CASE Inform(c)
  <2>1. LineOK'
    BY <1>3, FirstIn DEF RegTypes, RequestOK, Inform, Answered
  <2>2. RequestOK' /\ SocketOK'
    BY <1>3 DEF RegTypes, RequestOK, SocketOK, Ask, Inform, Answered
  <2> QED
    BY <2>1, <2>2 DEF RegTypes
<1>4. CASE TakeOut(c)
  <2>1. LineOK'
    BY <1>4, FirstIn DEF RegTypes, RequestOK, TakeOut, Answered
  <2>2. RequestOK' /\ SocketOK'
    BY <1>4 DEF RegTypes, RequestOK, SocketOK, Ask, TakeOut, Answered
  <2> QED
    BY <2>1, <2>2 DEF RegTypes
<1>5. CASE Find(c)
  <2>1. LineOK'
    BY <1>5, FirstIn DEF RegTypes, RequestOK, Find, Answered
  <2>2. RequestOK'
    BY <1>5 DEF RegTypes, RequestOK, Ask, Find, Answered
  <2>3. SocketOK'
    <3>1. rooms[ask[c].code] \in 0 .. minted
      BY <1>5 DEF RegInv, TypeInv, AskTypeOK, Find, Answered, MayEnter
    <3> QED
      BY <1>5, <3>1 DEF RegTypes, SocketOK, Find, Answered
  <2> QED
    BY <2>1, <2>2, <2>3 DEF RegTypes
<1>6. CASE Insert(c)
  <2>1. LineOK'
    BY <1>6, SameLine DEF RegTypes, RequestOK, Insert
  <2>2. RequestOK'
    <3>1. ask[c].code \in Code /\ ask[c].token \in Room
      <4>1. ask[c].code \in Code /\ ask[c].token \in 1 .. minted
        BY <1>6 DEF RegInv, TypeInv, AskTypeOK, Insert
      <4>2. minted \in 0 .. MaxRooms /\ MaxRooms \in Nat
        BY RegistryAssumption DEF RegTypes, RequestOK
      <4> QED
        BY <4>1, <4>2 DEF Room
    <3> QED
      BY <1>6, <3>1 DEF RegTypes, RequestOK, Ask, Insert
  <2>3. SocketOK'
    BY <1>6 DEF RegTypes, RequestOK, SocketOK, Insert
  <2> QED
    BY <2>1, <2>2, <2>3 DEF RegTypes
<1> QED
  BY <1>1, <1>2, <1>3, <1>4, <1>5, <1>6 DEF Locked

\* What goes on without the lock: the catalog, the response, the socket.
LEMMA ServeTypes ==
  ASSUME RegInv, RegTypes, NEW c \in Client, Serve(c)
  PROVE  RegTypes'
<1> USE DEF nothing, None, Stage
<1>0. Tokens \subseteq Room \cup {0}
  BY Drawn DEF RegTypes
<1>1. CASE CatalogFails(c)
  <2>1. LineOK'
    BY <1>1, SameLine DEF RegTypes, RequestOK, CatalogFails
  <2>2. RequestOK' /\ SocketOK'
    BY <1>1 DEF RegTypes, RequestOK, SocketOK, Ask, CatalogFails
  <2> QED
    BY <2>1, <2>2 DEF RegTypes
<1>2. CASE CatalogLoaded(c)
  <2>1. LineOK'
    BY <1>2, InLine DEF RegTypes, RequestOK, CatalogLoaded
  <2>2. minted' = minted + 1 /\ minted' \in 0 .. MaxRooms /\ minted' \in Room
    BY <1>2, RegistryAssumption DEF RegTypes, RequestOK, CatalogLoaded, Room
  <2>3. RequestOK'
    <3>1. [kind |-> "create", token |-> minted'] \in Ask
      BY <2>2 DEF Ask
    <3> QED
      BY <1>2, <2>2, <3>1 DEF RegTypes, RequestOK, CatalogLoaded
  <2>4. SocketOK'
    BY <1>2, <2>2 DEF RegTypes, RequestOK, SocketOK, CatalogLoaded
  <2> QED
    BY <2>1, <2>3, <2>4 DEF RegTypes
<1>3. CASE Created(c)
  <2>1. LineOK'
    BY <1>3, SameLine DEF RegTypes, RequestOK, Created
  <2>2. RequestOK' /\ SocketOK'
    BY <1>3 DEF RegTypes, RequestOK, SocketOK, Ask, Created
  <2> QED
    BY <2>1, <2>2 DEF RegTypes
<1>4. CASE Join(c)
  <2>1. LineOK'
    BY <1>4, SameLine DEF RegTypes, RequestOK, Join, Close
  <2>2. RequestOK'
    BY <1>4 DEF RegTypes, RequestOK, Ask, Join, Close
  <2>3. SocketOK'
    <3>1. ask[c].role \in {"host", "player"}
      BY <1>4 DEF RegTypes, RequestOK, Ask, Join
    <3> QED
      BY <1>4, <3>1 DEF RegTypes, RequestOK, SocketOK, Join, Close
  <2> QED
    BY <2>1, <2>2, <2>3 DEF RegTypes
<1>5. CASE JoinAgain(c)
  <2>1. LineOK'
    BY <1>5, SameLine DEF RegTypes, JoinAgain
  <2>2. RequestOK'
    BY <1>5 DEF RegTypes, RequestOK, JoinAgain
  <2>3. SocketOK'
    BY <1>5 DEF RegTypes, SocketOK, JoinAgain, RoleAfter, Wish
  <2> QED
    BY <2>1, <2>2, <2>3 DEF RegTypes
<1>6. CASE Leave(c)
  <2>1. LineOK'
    BY <1>6, SameLine DEF RegTypes, RequestOK, Leave, Close
  <2>2. RequestOK' /\ SocketOK'
    BY <1>6 DEF RegTypes, RequestOK, SocketOK, Ask, Leave, Close
  <2> QED
    BY <2>1, <2>2 DEF RegTypes
<1> QED
  BY <1>1, <1>2, <1>3, <1>4, <1>5, <1>6, LockedTypes DEF Serve

\* The line, the requests and the sockets stay well formed in every step.
LEMMA TypesStep == RegInv /\ RegTypes /\ [RegNext]_regVars => RegTypes'
<1> SUFFICES ASSUME RegInv, RegTypes, [RegNext]_regVars PROVE RegTypes'
  OBVIOUS
<1>1. CASE Restart
  BY <1>1 DEF RegTypes, LineOK, RequestOK, SocketOK, IsInjective, ToSet,
              Stage, Ask, nothing, None, Restart
<1>2. CASE UNCHANGED regVars
  BY <1>2 DEF RegTypes, LineOK, RequestOK, SocketOK, regVars
<1> QED
  BY <1>1, <1>2, RequestTypes, ServeTypes DEF RegNext

\* The lock's line is, in every reachable state, exactly the requests that wait
\* for it, each once; a request that is dropped leaves no place behind, and two
\* never draw codes at a time (the RwLock of src/registry.rs).  The variables
\* have their types, for any number of clients, codes and rooms.
THEOREM RegistryTypes == RegSpec => []RegistryTypeOK
<1>1. RegInv /\ RegTypes => RegistryTypeOK
  BY DEF RegInv, TypeInv, OneInside, RegTypes, LineOK, RequestOK, SocketOK, RegistryTypeOK
<1> QED
  BY <1>1, InitTypes, TypesStep, RegistryInvariant, PTL DEF RegSpec
==============================================================================
