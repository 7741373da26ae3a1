-------------------------- MODULE NodeServerProofs --------------------------
(***************************************************************************)
(* Theorems about NodeServer for any finite set of clients: its safety,    *)
(* and that its steps are those of Ownership.                              *)
(***************************************************************************)
EXTENDS NodeServer, FiniteSetTheorems, TLAPS

(* The accept loop holds a pointer to the client object cur.               *)
Busy == {"run", "wait", "release", "destroyClient"}

(* A thread that runs, up to the deletion of its own client object.        *)
Running == {"begin", "mark", "session", "command", "stopSelf", "unref",
            "destroyClient"}

(* A thread that has not taken its own reference yet has its starter still *)
(* waiting for it.                                                         *)
StartInv ==
  /\ \A o \in Object : pc[o] \in {"unborn", "begin"} =>
       ~started[o] /\ state[o] # "Stopped"
  /\ pc[Main] \in {"new", "run"} => pc[Server] = "unborn"
  /\ pc[Server] = "begin" => pc[Main] = "wait"
  /\ pc[Server] = "unborn" => pc[Main] \in {"new", "run", "wait"}
  /\ \A c \in Clients : pc[c] = "begin" => pc[Server] = "wait" /\ cur = c
  /\ pc[Server] \in Busy \cup {"construct"} => cur \in Clients
  /\ pc[Server] \in {"construct", "run"} => pc[cur] = "unborn"
  /\ pc[Server] \in {"release", "destroyClient"} =>
       pc[cur] \notin {"unborn", "begin"}

(* The server is alive exactly while somebody owns it or deletes it.       *)
ServerLife ==
  /\ (life[Server] = "unborn") <=> (pc[Main] = "new")
  /\ life[Server] # "live" => refCount[Server] = 0
  /\ life[Server] = "live" =>
       refCount[Server] # 0 \/ \E p \in Process : pc[p] = "destroyServer"

(* A client is alive exactly while its thread or the accept loop has to do *)
(* with it.                                                                *)
ClientLife ==
  /\ \A c \in Clients : life[c] = "unborn" => pc[c] = "unborn"
  /\ pc[Server] = "construct" => life[cur] = "unborn"
  /\ pc[Server] \in Busy => life[cur] = "live"
  /\ \A c \in Clients : pc[c] \in Running => life[c] = "live"
  /\ \A c \in Clients : life[c] = "live" =>
       pc[c] \in Running \/ (pc[Server] \in Busy /\ cur = c)

(* The count of every object is the number of its owners.                  *)
RefInv == \A o \in Object : refCount[o] = Cardinality(Owners(o))

(* A thread that is about to delete an object is alone with it.            *)
DoomInv ==
  /\ \A p \in Process : pc[p] = "destroyServer" =>
       life[Server] = "live" /\ refCount[Server] = 0
  /\ \A p, q \in Process :
       pc[p] = "destroyServer" /\ pc[q] = "destroyServer" => p = q
  /\ pc[Server] = "destroyClient" => refCount[cur] = 0
  /\ \A c \in Clients : pc[c] = "destroyClient" => refCount[c] = 0
  /\ \A c \in Clients :
       pc[Server] = "destroyClient" /\ pc[c] = "destroyClient" => cur # c

IInv == TypeOK /\ StartInv /\ ServerLife /\ ClientLife /\ RefInv /\ DoomInv

-----------------------------------------------------------------------------
(* Every set of owners is finite, and empty exactly when the count is 0.   *)
LEMMA OwnersFinite ==
  ASSUME NEW o \in Object
  PROVE  IsFiniteSet(Owners(o))
<1>1. IsFiniteSet(Clients)
  BY ClientsAssumption
<1>2. IsFiniteSet({"creator", "run", "thread"})
  <2>1. IsFiniteSet({}) /\ {} \cup {"creator"} = {"creator"}
    BY FS_EmptySet
  <2>2. IsFiniteSet({"creator"})
    BY <2>1, FS_AddElement
  <2>3. IsFiniteSet({"creator"} \cup {"run"})
    BY <2>2, FS_AddElement
  <2>4. IsFiniteSet({"creator"} \cup {"run"} \cup {"thread"})
    BY <2>3, FS_AddElement
  <2>5. {"creator"} \cup {"run"} \cup {"thread"} = {"creator", "run", "thread"}
    OBVIOUS
  <2>6. QED
    BY <2>4, <2>5
<1>3. IsFiniteSet(Owner)
  BY <1>1, <1>2, FS_Union DEF Owner
<1>4. Owners(o) \subseteq Owner
  BY DEF Owners
<1>5. QED
  BY <1>3, <1>4, FS_Subset

(* A count of zero is an object without owners.                            *)
LEMMA CountZero ==
  ASSUME RefInv, NEW o \in Object
  PROVE  refCount[o] = 0 <=> \A x \in Owner : ~Owns(x, o)
<1>1. refCount[o] = Cardinality(Owners(o))
  BY DEF RefInv
<1>2. Cardinality(Owners(o)) = 0 <=> Owners(o) = {}
  BY OwnersFinite, FS_EmptySet
<1>3. QED
  BY <1>1, <1>2 DEF Owners

(* How the count follows the owners in a step that changes nobody, adds    *)
(* one owner x of k, or takes one away.                                    *)
LEMMA CountSame ==
  ASSUME RefInv, UNCHANGED refCount,
         \A o \in Object : \A x \in Owner : Owns(x, o)' <=> Owns(x, o)
  PROVE  RefInv'
<1>1. ASSUME NEW o \in Object PROVE Owners(o)' = Owners(o)
  BY <1>1 DEF Owners
<1>2. QED
  BY <1>1 DEF RefInv

(* One more owner and one more on the count.                               *)
LEMMA CountAdd ==
  ASSUME TypeOK, RefInv, NEW k \in Object, NEW y \in Owner, AddRef(k),
         ~Owns(y, k),
         \A o \in Object : \A x \in Owner :
           Owns(x, o)' <=> Owns(x, o) \/ (o = k /\ x = y)
  PROVE  RefInv'
<1>1. ASSUME NEW o \in Object \ {k} PROVE Owners(o)' = Owners(o)
  BY <1>1 DEF Owners
<1>2. Owners(k)' = Owners(k) \cup {y} /\ y \notin Owners(k)
  BY DEF Owners
<1>3. Cardinality(Owners(k) \cup {y}) = Cardinality(Owners(k)) + 1
  BY <1>2, OwnersFinite, FS_AddElement
<1>4. refCount' = [refCount EXCEPT ![k] = refCount[k] + 1]
  BY DEF AddRef
<1>5. ASSUME NEW o \in Object PROVE refCount'[o] = Cardinality(Owners(o)')
  BY <1>1, <1>2, <1>3, <1>4 DEF TypeOK, RefInv
<1>6. QED
  BY <1>5 DEF RefInv

(* One owner less and one less on the count.                               *)
LEMMA CountRemove ==
  ASSUME TypeOK, RefInv, NEW k \in Object, NEW y \in Owner,
         refCount' = [refCount EXCEPT ![k] = @ - 1],
         Owns(y, k),
         \A o \in Object : \A x \in Owner :
           Owns(x, o)' <=> Owns(x, o) /\ ~(o = k /\ x = y)
  PROVE  RefInv' /\ refCount[k] # 0 /\ refCount' \in [Object -> Nat]
<1>1. ASSUME NEW o \in Object \ {k} PROVE Owners(o)' = Owners(o)
  BY <1>1 DEF Owners
<1>2. Owners(k)' = Owners(k) \ {y} /\ y \in Owners(k)
  BY DEF Owners
<1>3. Cardinality(Owners(k) \ {y}) = Cardinality(Owners(k)) - 1
  BY <1>2, OwnersFinite, FS_RemoveElement
<1>4. refCount[k] # 0
  BY CountZero
<1>5. ASSUME NEW o \in Object PROVE refCount'[o] = Cardinality(Owners(o)')
  BY <1>1, <1>2, <1>3 DEF TypeOK, RefInv
<1>6. refCount' \in [Object -> Nat]
  BY <1>4 DEF TypeOK
<1>7. QED
  BY <1>4, <1>5, <1>6 DEF RefInv
(* If one owner is not all there is, there is another one.                 *)
LEMMA CountMany ==
  ASSUME RefInv, NEW o \in Object, NEW y \in Owner, Owns(y, o),
         refCount[o] # 1
  PROVE  \E x \in Owner : x # y /\ Owns(x, o)
<1>1. refCount[o] = Cardinality(Owners(o))
  BY DEF RefInv
<1>2. Cardinality({y}) = 1
  BY FS_Singleton
<1>3. Owners(o) # {y}
  BY <1>1, <1>2
<1>4. QED
  BY <1>3 DEF Owners

(* With two owners the count is not one: who lets go does not delete.      *)
LEMMA CountTwo ==
  ASSUME RefInv, NEW o \in Object, NEW y \in Owner, NEW z \in Owner,
         Owns(y, o), Owns(z, o), y # z
  PROVE  refCount[o] # 1
<1>1. refCount[o] = Cardinality(Owners(o))
  BY DEF RefInv
<1>2. IsFiniteSet(Owners(o)) /\ y \in Owners(o) /\ z \in Owners(o) \ {y}
  BY OwnersFinite DEF Owners
<1>3. Cardinality(Owners(o) \ {y}) = Cardinality(Owners(o)) - 1
  BY <1>2, FS_RemoveElement
<1>4. Cardinality(Owners(o) \ {y}) # 0 /\ Cardinality(Owners(o)) \in Nat
  BY <1>2, FS_EmptySet, FS_RemoveElement, FS_CardinalityType
<1>5. QED
  BY <1>1, <1>3, <1>4

(* While somebody owns the server it is alive and nobody deletes it.       *)
LEMMA ServerOwned ==
  ASSUME IInv, \E x \in Owner : Owns(x, Server)
  PROVE  /\ refCount[Server] # 0
         /\ life[Server] = "live"
         /\ \A p \in Process : pc[p] # "destroyServer"
<1>1. refCount[Server] # 0
  BY CountZero DEF IInv, Object
<1>2. QED
  BY <1>1 DEF IInv, ServerLife, DoomInv

-----------------------------------------------------------------------------
(* Every action keeps the inductive invariant.                             *)
USE DEF Main, Server, Object, Process, Starter

(* main between the message loop and its last reference.                   *)
LEMMA MainMoves ==
  ASSUME IInv, pc[Main] \in {"serve", "stop", "close"},
         NEW next \in {"stop", "close", "unref"}, Goto(Main, next),
         NEW s \in {"Waiting", "Stopped", "Running"},
         state' = [state EXCEPT ![Server] = s],
         UNCHANGED <<life, refCount, started, cur>>,
         sock' \in {"none", "created", "bound", "listening", "closed"}
  PROVE  IInv'
<1> USE DEF IInv, Goto
<1>1. TypeOK'
  BY ClientsAssumption DEF TypeOK, MainLabel, ServerLabel, ClientLabel
<1>2. StartInv'
  BY ClientsAssumption DEF TypeOK, StartInv, Busy
<1>3. \A k \in Object : \A x \in Owner : Owns(x, k)' <=> Owns(x, k)
  BY ClientsAssumption
  DEF TypeOK, Owner, Owns, CreatorOwns, RunOwns, ThreadOwns, Target
<1>4. RefInv'
  BY <1>3, CountSame
<1>5. ServerLife'
  BY ClientsAssumption DEF TypeOK, ServerLife
<1>6. ClientLife'
  BY ClientsAssumption DEF TypeOK, StartInv, ClientLife, Busy, Running
<1>7. DoomInv'
  BY ClientsAssumption DEF TypeOK, DoomInv
<1>8. QED
  BY <1>1, <1>2, <1>4, <1>5, <1>6, <1>7

(* The server thread while it has no client in its hands.                  *)
LEMMA ServerMoves ==
  ASSUME IInv, pc[Server] \in {"create", "bind", "listen", "test", "accept"},
         NEW next \in {"bind", "listen", "test", "accept", "stopSelf"},
         Goto(Server, next),
         UNCHANGED <<life, refCount, state, started, cur>>,
         sock' \in {"none", "created", "bound", "listening", "closed"}
  PROVE  IInv'
<1> USE DEF IInv, Goto
<1>1. TypeOK'
  BY ClientsAssumption DEF TypeOK, MainLabel, ServerLabel, ClientLabel
<1>2. StartInv'
  BY ClientsAssumption DEF TypeOK, StartInv, Busy
<1>3. \A k \in Object : \A x \in Owner : Owns(x, k)' <=> Owns(x, k)
  BY ClientsAssumption
  DEF TypeOK, Owner, Owns, CreatorOwns, RunOwns, ThreadOwns, Target
<1>4. RefInv'
  BY <1>3, CountSame
<1>5. ServerLife'
  BY ClientsAssumption DEF TypeOK, ServerLife
<1>6. ClientLife'
  BY ClientsAssumption DEF TypeOK, StartInv, ClientLife, Busy, Running
<1>7. DoomInv'
  BY ClientsAssumption DEF TypeOK, DoomInv
<1>8. QED
  BY <1>1, <1>2, <1>4, <1>5, <1>6, <1>7

(* A client in its session.                                                *)
LEMMA ClientMoves ==
  ASSUME IInv, NEW c \in Clients, pc[c] \in {"session", "command"},
         NEW next \in {"session", "command", "stopSelf"}, Goto(c, next),
         UNCHANGED <<life, refCount, state, started, sock, cur>>
  PROVE  IInv'
<1> USE DEF IInv, Goto
<1>1. TypeOK'
  BY ClientsAssumption DEF TypeOK, MainLabel, ServerLabel, ClientLabel
<1>2. StartInv'
  BY ClientsAssumption DEF TypeOK, StartInv, Busy
<1>3. \A k \in Object : \A x \in Owner : Owns(x, k)' <=> Owns(x, k)
  BY ClientsAssumption
  DEF TypeOK, Owner, Owns, CreatorOwns, RunOwns, ThreadOwns, Target
<1>4. RefInv'
  BY <1>3, CountSame
<1>5. ServerLife'
  BY ClientsAssumption DEF TypeOK, ServerLife
<1>6. ClientLife'
  BY ClientsAssumption DEF TypeOK, StartInv, ClientLife, Busy, Running
<1>7. DoomInv'
  BY ClientsAssumption DEF TypeOK, DoomInv
<1>8. QED
  BY <1>1, <1>2, <1>4, <1>5, <1>6, <1>7

(* Run() has seen its thread start.                                        *)
LEMMA RunPollKeeps ==
  ASSUME IInv, NEW p \in Starter, RunPoll(p)
  PROVE  IInv'
<1> USE DEF IInv, RunPoll, Target, TestDestroy, Goto
<1>1. TypeOK'
  BY ClientsAssumption DEF TypeOK, MainLabel, ServerLabel, ClientLabel
<1>2. StartInv'
  BY ClientsAssumption DEF TypeOK, StartInv, Busy
<1>3. \A k \in Object : \A x \in Owner : Owns(x, k)' <=> Owns(x, k)
  BY ClientsAssumption
  DEF TypeOK, Owner, Owns, CreatorOwns, RunOwns, ThreadOwns, Target
<1>4. RefInv'
  BY <1>3, CountSame
<1>5. ServerLife'
  BY ClientsAssumption DEF TypeOK, ServerLife
<1>6. ClientLife'
  BY ClientsAssumption DEF TypeOK, StartInv, ClientLife, Busy, Running
<1>7. DoomInv'
  BY ClientsAssumption DEF TypeOK, DoomInv
<1>8. QED
  BY <1>1, <1>2, <1>4, <1>5, <1>6, <1>7

(* A thread has started, or ends.                                          *)
LEMMA ThreadMarkKeeps ==
  ASSUME IInv, NEW o \in Object, ThreadMark(o)
  PROVE  IInv'
<1> USE DEF IInv, ThreadMark, Goto
<1>1. TypeOK'
  BY ClientsAssumption DEF TypeOK, MainLabel, ServerLabel, ClientLabel
<1>2. StartInv'
  BY ClientsAssumption DEF TypeOK, StartInv, Busy
<1>3. \A k \in Object : \A x \in Owner : Owns(x, k)' <=> Owns(x, k)
  BY ClientsAssumption
  DEF TypeOK, Owner, Owns, CreatorOwns, RunOwns, ThreadOwns, Target
<1>4. RefInv'
  BY <1>3, CountSame
<1>5. ServerLife'
  BY ClientsAssumption DEF TypeOK, ServerLife
<1>6. ClientLife'
  BY ClientsAssumption DEF TypeOK, StartInv, ClientLife, Busy, Running
<1>7. DoomInv'
  BY ClientsAssumption DEF TypeOK, DoomInv
<1>8. QED
  BY <1>1, <1>2, <1>4, <1>5, <1>6, <1>7


(* The new thread stops itself at its end.                                 *)
LEMMA ThreadStopSelfKeeps ==
  ASSUME IInv, NEW o \in Object, ThreadStopSelf(o)
  PROVE  IInv'
<1> USE DEF IInv, ThreadStopSelf, Goto
<1>1. TypeOK'
  BY ClientsAssumption DEF TypeOK, MainLabel, ServerLabel, ClientLabel
<1>2. StartInv'
  BY ClientsAssumption DEF TypeOK, StartInv, Busy
<1>3. \A k \in Object : \A x \in Owner : Owns(x, k)' <=> Owns(x, k)
  BY ClientsAssumption
  DEF TypeOK, Owner, Owns, CreatorOwns, RunOwns, ThreadOwns, Target
<1>4. RefInv'
  BY <1>3, CountSame
<1>5. ServerLife'
  BY ClientsAssumption DEF TypeOK, ServerLife
<1>6. ClientLife'
  BY ClientsAssumption DEF TypeOK, StartInv, ClientLife, Busy, Running
<1>7. DoomInv'
  BY ClientsAssumption DEF TypeOK, DoomInv
<1>8. QED
  BY <1>1, <1>2, <1>4, <1>5, <1>6, <1>7

(* A new connection.                                                       *)
LEMMA ServerAcceptKeeps ==
  ASSUME IInv, NEW c \in Clients, ServerAccept(c)
  PROVE  IInv'
<1> USE DEF IInv, ServerAccept, Goto
<1>1. TypeOK'
  BY ClientsAssumption DEF TypeOK, MainLabel, ServerLabel, ClientLabel
<1>2. StartInv'
  BY ClientsAssumption DEF TypeOK, StartInv, ClientLife, Busy
<1>3. \A k \in Object : \A x \in Owner : Owns(x, k)' <=> Owns(x, k)
  BY ClientsAssumption
  DEF TypeOK, Owner, Owns, CreatorOwns, RunOwns, ThreadOwns, Target
<1>4. RefInv'
  BY <1>3, CountSame
<1>5. ServerLife'
  BY ClientsAssumption DEF TypeOK, ServerLife
<1>6. ClientLife'
  BY ClientsAssumption DEF TypeOK, StartInv, ClientLife, Busy, Running
<1>7. DoomInv'
  BY ClientsAssumption DEF TypeOK, DoomInv
<1>8. QED
  BY <1>1, <1>2, <1>4, <1>5, <1>6, <1>7

(* The server is deleted.                                                  *)
LEMMA DestroyServerKeeps ==
  ASSUME IInv, NEW p \in Process, DestroyServer(p)
  PROVE  IInv'
<1> USE DEF IInv, DestroyServer, Goto
<1>1. TypeOK'
  BY ClientsAssumption DEF TypeOK, MainLabel, ServerLabel, ClientLabel
<1>2. StartInv'
  BY ClientsAssumption DEF TypeOK, StartInv, Busy
<1>3. \A k \in Object : \A x \in Owner : Owns(x, k)' <=> Owns(x, k)
  BY ClientsAssumption
  DEF TypeOK, Owner, Owns, CreatorOwns, RunOwns, ThreadOwns, Target
<1>4. RefInv'
  BY <1>3, CountSame
<1>5. ServerLife'
  BY ClientsAssumption DEF TypeOK, ServerLife, DoomInv
<1>6. ClientLife'
  BY ClientsAssumption DEF TypeOK, StartInv, ClientLife, Busy, Running
<1>7. DoomInv'
  BY ClientsAssumption DEF TypeOK, DoomInv
<1>8. QED
  BY <1>1, <1>2, <1>4, <1>5, <1>6, <1>7

(* Steps that add an owner.                                                *)
LEMMA RunBeginKeeps ==
  ASSUME IInv, NEW p \in Starter, RunBegin(p)
  PROVE  IInv'
<1> USE DEF IInv
<1>1. /\ pc[p] = "run"
      /\ Target(p) \in Object
      /\ p # Target(p)
      /\ pc[Target(p)] = "unborn"
      /\ p = Main => Target(p) = Server
      /\ p = Server => Target(p) = cur /\ cur \in Clients
  BY ClientsAssumption DEF RunBegin, TypeOK, StartInv, Target, Busy
<1>2. /\ pc'[p] = "wait"
      /\ pc'[Target(p)] \in {"unborn", "begin"}
      /\ \A q \in Process : q # p /\ q # Target(p) => pc'[q] = pc[q]
      /\ pc' \in [Process -> MainLabel \cup ServerLabel \cup ClientLabel]
  <2>1. {"wait", "begin"} \subseteq MainLabel \cup ServerLabel \cup ClientLabel
    BY DEF MainLabel, ServerLabel, ClientLabel
  <2>2. CASE pc' = [pc EXCEPT ![p] = "wait", ![Target(p)] = "begin"]
    BY <1>1, <2>1, <2>2 DEF TypeOK
  <2>3. CASE pc' = [pc EXCEPT ![p] = "wait"]
    BY <1>1, <2>1, <2>3 DEF TypeOK
  <2>4. QED
    BY <2>2, <2>3 DEF RunBegin, Goto
<1>3. /\ refCount' \in [Object -> Nat]
      /\ refCount'[Target(p)] = refCount[Target(p)] + 1
      /\ \A o \in Object : o # Target(p) => refCount'[o] = refCount[o]
  BY <1>1 DEF RunBegin, AddRef, TypeOK
<1>4. /\ state' \in [Object -> {"Waiting", "Stopped", "Running"}]
      /\ state'[Target(p)] = "Running"
      /\ \A o \in Object : o # Target(p) => state'[o] = state[o]
      /\ UNCHANGED <<life, started, sock, cur>>
  BY <1>1 DEF RunBegin, TypeOK
<1>5. ~Owns("run", Target(p)) /\ "run" \in Owner
  BY <1>1, ClientsAssumption
  DEF TypeOK, StartInv, Owner, Owns, RunOwns, Target
<1>6. \A j \in Object : \A x \in Owner :
        Owns(x, j)' <=> Owns(x, j) \/ (j = Target(p) /\ x = "run")
  BY <1>1, <1>2, <1>4, ClientsAssumption
  DEF TypeOK, StartInv, Owner, Owns, CreatorOwns, RunOwns, ThreadOwns, Target
<1>7. RefInv'
  BY <1>1, <1>5, <1>6, CountAdd DEF RunBegin
<1>8. Owns("creator", Server) \/ Owns("thread", Server)
  BY <1>1, ClientsAssumption DEF TypeOK, Owns, CreatorOwns, ThreadOwns
<1>9. /\ refCount[Server] # 0
      /\ life[Server] = "live"
      /\ \A q \in Process : pc[q] # "destroyServer"
  BY <1>8, ServerOwned DEF Owner
<1>10. CASE p = Main
  <2>1. /\ pc[Main] = "run" /\ pc'[Main] = "wait"
        /\ pc[Server] = "unborn" /\ pc'[Server] \in {"unborn", "begin"}
        /\ \A c \in Clients : pc'[c] = pc[c]
    BY <1>1, <1>2, <1>10, ClientsAssumption
  <2>2. TypeOK'
    BY <1>2, <1>3, <1>4, <2>1 DEF TypeOK, MainLabel, ServerLabel, ClientLabel
  <2>3. StartInv'
    BY <1>1, <1>4, <1>10, <2>1, ClientsAssumption DEF TypeOK, StartInv, Busy
  <2>4. ServerLife'
    BY <1>1, <1>3, <1>4, <1>9, <1>10, <2>1 DEF TypeOK, ServerLife
  <2>5. ClientLife'
    BY <1>4, <2>1, ClientsAssumption DEF TypeOK, ClientLife, Busy, Running
  <2>6. DoomInv'
    BY <1>1, <1>3, <1>9, <1>10, <2>1, ClientsAssumption DEF TypeOK, DoomInv
  <2>7. QED
    BY <1>7, <2>2, <2>3, <2>4, <2>5, <2>6
<1>11. CASE p = Server
  <2>1. /\ pc[Server] = "run" /\ pc'[Server] = "wait"
        /\ cur \in Clients
        /\ pc[cur] = "unborn" /\ pc'[cur] \in {"unborn", "begin"}
        /\ pc'[Main] = pc[Main]
        /\ \A c \in Clients : c # cur => pc'[c] = pc[c]
    BY <1>1, <1>2, <1>11, ClientsAssumption
  <2>2. TypeOK'
    BY <1>2, <1>3, <1>4, <2>1 DEF TypeOK, MainLabel, ServerLabel, ClientLabel
  <2>3. StartInv'
    BY <1>1, <1>4, <1>11, <2>1, ClientsAssumption DEF TypeOK, StartInv, Busy
  <2>4. ServerLife'
    BY <1>1, <1>3, <1>4, <1>9, <1>11, <2>1, ClientsAssumption
    DEF TypeOK, ServerLife
  <2>5. ClientLife'
    BY <1>4, <2>1, ClientsAssumption
    DEF TypeOK, StartInv, ClientLife, Busy, Running
  <2>6. DoomInv'
    BY <1>1, <1>3, <1>4, <1>9, <1>11, <2>1, ClientsAssumption
    DEF TypeOK, DoomInv
  <2>7. QED
    BY <1>7, <2>2, <2>3, <2>4, <2>5, <2>6
<1>12. QED
  BY <1>10, <1>11

(* The new thread takes its reference.                                     *)
LEMMA ThreadAddRefKeeps ==
  ASSUME IInv, NEW o \in Object, ThreadAddRef(o)
  PROVE  IInv'
<1> USE DEF IInv, ThreadAddRef, Goto, AddRef
<1>1. TypeOK'
  BY ClientsAssumption
  DEF TypeOK, StartInv, Busy, MainLabel, ServerLabel, ClientLabel
<1>2. StartInv'
  BY ClientsAssumption DEF TypeOK, StartInv, Busy
<1>3. o \in Object /\ "thread" \in Owner
  BY ClientsAssumption DEF TypeOK, StartInv, Owner, Busy
<1>4. ~Owns("thread", o)
  BY ClientsAssumption
  DEF TypeOK, StartInv, ClientLife, Owner, Owns, CreatorOwns, RunOwns, ThreadOwns, Target
<1>5. \A j \in Object : \A x \in Owner :
        Owns(x, j)' <=> Owns(x, j) \/ (j = o /\ x = "thread")
  BY ClientsAssumption
  DEF TypeOK, StartInv, ClientLife, Owner, Owns, CreatorOwns, RunOwns, ThreadOwns, Target
<1>6. RefInv'
  BY <1>3, <1>4, <1>5, CountAdd
<1>7. /\ refCount[Server] # 0
      /\ life[Server] = "live"
      /\ \A p \in Process : pc[p] # "destroyServer"
  <2>1. \E x \in Owner : Owns(x, Server)
    BY ClientsAssumption
    DEF TypeOK, StartInv, ClientLife, Running, Owner, Owns, CreatorOwns,
        ThreadOwns
  <2>2. QED
    BY <2>1, ServerOwned
<1>8. ServerLife'
  BY <1>7, ClientsAssumption DEF TypeOK, StartInv, ServerLife, Busy
<1>9. ClientLife'
  BY ClientsAssumption DEF TypeOK, StartInv, ClientLife, Busy, Running
<1>10. DoomInv'
  BY <1>7, ClientsAssumption
  DEF TypeOK, StartInv, ServerLife, ClientLife, DoomInv, Busy, Running
<1>11. QED
  BY <1>1, <1>2, <1>6, <1>8, <1>9, <1>10

(* CService::Run makes the server.                                         *)
LEMMA NewServerKeeps ==
  ASSUME IInv, NewServer
  PROVE  IInv'
<1> USE DEF IInv, NewServer, Goto, AddRef
<1>1. TypeOK'
  BY ClientsAssumption
  DEF TypeOK, StartInv, Busy, MainLabel, ServerLabel, ClientLabel
<1>2. StartInv'
  BY ClientsAssumption DEF TypeOK, StartInv, Busy
<1>3. Server \in Object /\ "creator" \in Owner
  BY ClientsAssumption DEF TypeOK, StartInv, Owner, Busy
<1>4. ~Owns("creator", Server)
  BY ClientsAssumption
  DEF TypeOK, StartInv, ClientLife, Owner, Owns, CreatorOwns, RunOwns, ThreadOwns, Target
<1>5. \A j \in Object : \A x \in Owner :
        Owns(x, j)' <=> Owns(x, j) \/ (j = Server /\ x = "creator")
  BY ClientsAssumption
  DEF TypeOK, StartInv, ClientLife, Owner, Owns, CreatorOwns, RunOwns, ThreadOwns, Target
<1>6. RefInv'
  BY <1>3, <1>4, <1>5, CountAdd
<1>7. ServerLife'
  BY ClientsAssumption DEF TypeOK, StartInv, ServerLife, DoomInv, Busy
<1>8. ClientLife'
  BY ClientsAssumption DEF TypeOK, StartInv, ClientLife, Busy, Running
<1>9. DoomInv'
  BY ClientsAssumption
  DEF TypeOK, StartInv, ServerLife, ClientLife, DoomInv, Busy, Running
<1>10. QED
  BY <1>1, <1>2, <1>6, <1>7, <1>8, <1>9

(* The accept loop makes a client, which refers to the server.             *)
LEMMA NewClientKeeps ==
  ASSUME IInv, NewClient
  PROVE  IInv'
<1> USE DEF IInv, NewClient, Goto, AddRef
<1>1. TypeOK'
  BY ClientsAssumption
  DEF TypeOK, StartInv, Busy, MainLabel, ServerLabel, ClientLabel
<1>2. StartInv'
  BY ClientsAssumption DEF TypeOK, StartInv, Busy
<1>3. Server \in Object /\ cur \in Owner
  BY ClientsAssumption DEF TypeOK, StartInv, Owner, Busy
<1>4. ~Owns(cur, Server)
  BY ClientsAssumption
  DEF TypeOK, StartInv, ClientLife, Owner, Owns, CreatorOwns, RunOwns, ThreadOwns, Target
<1>5. \A j \in Object : \A x \in Owner :
        Owns(x, j)' <=> Owns(x, j) \/ (j = Server /\ x = cur)
  BY ClientsAssumption
  DEF TypeOK, StartInv, ClientLife, Owner, Owns, CreatorOwns, RunOwns, ThreadOwns, Target
<1>6. RefInv'
  BY <1>3, <1>4, <1>5, CountAdd
<1>7. /\ refCount[Server] # 0
      /\ life[Server] = "live"
      /\ \A p \in Process : pc[p] # "destroyServer"
  <2>1. \E x \in Owner : Owns(x, Server)
    BY ClientsAssumption
    DEF TypeOK, StartInv, ClientLife, Running, Owner, Owns, CreatorOwns,
        ThreadOwns
  <2>2. QED
    BY <2>1, ServerOwned
<1>8. ServerLife'
  BY <1>7, ClientsAssumption DEF TypeOK, StartInv, ServerLife, Busy
<1>9. ClientLife'
  BY ClientsAssumption DEF TypeOK, StartInv, ClientLife, Busy, Running
<1>10. DoomInv'
  BY <1>7, ClientsAssumption
  DEF TypeOK, StartInv, ServerLife, ClientLife, DoomInv, Busy, Running
<1>11. QED
  BY <1>1, <1>2, <1>6, <1>8, <1>9, <1>10

(* Steps that take an owner away.                                          *)
LEMMA RunReleaseKeeps ==
  ASSUME IInv, NEW p \in Starter, RunRelease(p)
  PROVE  IInv'
<1> USE DEF IInv, RunRelease, Target, Goto, RemoveRef, Destroyer
<1>1. Target(p) \in Object /\ "run" \in Owner
  BY ClientsAssumption DEF TypeOK, StartInv, Owner, Busy
<1>2. Owns("run", Target(p))
  BY ClientsAssumption
  DEF TypeOK, StartInv, ClientLife, Busy, Running, Owner, Owns, CreatorOwns, RunOwns, ThreadOwns, Target
<1>3. \A j \in Object : \A x \in Owner :
        Owns(x, j)' <=> Owns(x, j) /\ ~(j = Target(p) /\ x = "run")
  <2>1. CASE p = Main
    <3>1. /\ pc[Main] = "release" /\ pc'[Main] \in {"serve", "destroyServer"}
          /\ \A q \in Process : q # Main => pc'[q] = pc[q]
      BY <2>1, ClientsAssumption DEF TypeOK
    <3>2. refCount[Server] # 1
      <4>1. Owns("creator", Server) /\ "creator" \in Owner /\ "run" \in Owner
        BY <3>1 DEF Owns, CreatorOwns, Owner
      <4>2. Owns("run", Server)
        BY <1>2, <2>1
      <4>3. QED
        BY <4>1, <4>2, CountTwo
    <3>3. pc'[Main] = "serve"
      BY <2>1, <3>2 DEF TypeOK
    <3>4. QED
      BY <2>1, <3>1, <3>3, ClientsAssumption
      DEF TypeOK, StartInv, Busy, Owner, Owns, CreatorOwns, RunOwns, ThreadOwns
  <2>2. CASE p = Server
    <3>1. /\ pc[Server] = "release" /\ pc'[Server] \in {"test", "destroyClient"}
          /\ cur \in Clients
          /\ \A q \in Process : q # Server => pc'[q] = pc[q]
      BY <2>2, ClientsAssumption DEF TypeOK, StartInv, Busy
    <3>2. QED
      BY <2>2, <3>1, ClientsAssumption
      DEF TypeOK, Owner, Owns, CreatorOwns, RunOwns, ThreadOwns
  <2>3. QED
    BY <2>1, <2>2
<1>4. RefInv' /\ refCount[Target(p)] # 0 /\ refCount' \in [Object -> Nat]
  BY <1>1, <1>2, <1>3, CountRemove
<1>5. TypeOK'
  BY <1>4, ClientsAssumption
  DEF TypeOK, MainLabel, ServerLabel, ClientLabel
<1>6. StartInv'
  BY ClientsAssumption DEF TypeOK, StartInv, Busy
<1>7. ServerLife'
  BY <1>4, ClientsAssumption DEF TypeOK, StartInv, ServerLife, DoomInv, Busy
<1>8. ClientLife'
  <2>1. CASE p = Main
    BY <2>1, ClientsAssumption DEF TypeOK, StartInv, ClientLife, Busy, Running
  <2>2. CASE p = Server
    <3>1. cur \in Clients /\ life[cur] = "live"
      BY <2>2 DEF StartInv, ClientLife, Busy
    <3>2. CASE refCount[cur] = 1
      BY <2>2, <3>1, <3>2, ClientsAssumption
      DEF TypeOK, StartInv, ClientLife, Busy, Running
    <3>3. CASE refCount[cur] # 1
      <4>1. \E x \in Owner : x # "run" /\ Owns(x, cur)
        BY <1>1, <1>2, <2>2, <3>3, CountMany
      <4>2. pc[cur] \in Running
        BY <4>1, <3>1, ClientsAssumption
        DEF TypeOK, ClientLabel, Owns, ThreadOwns, Running
      <4>3. QED
        BY <2>2, <3>1, <3>3, <4>2, ClientsAssumption
        DEF TypeOK, StartInv, ClientLife, Busy
    <3>4. QED
      BY <3>2, <3>3
  <2>3. QED
    BY <2>1, <2>2
<1>9. DoomInv'
  BY <1>4, ClientsAssumption
  DEF TypeOK, StartInv, ServerLife, ClientLife, DoomInv, Busy, Running
<1>10. QED
  BY <1>4, <1>5, <1>6, <1>7, <1>8, <1>9

(* A thread lets go of its own object, and deletes it if it was the last.  *)
LEMMA ThreadRemoveRefKeeps ==
  ASSUME IInv, NEW o \in Object, ThreadRemoveRef(o)
  PROVE  IInv'
<1> USE DEF IInv, ThreadRemoveRef, Goto, RemoveRef, Destroyer
<1>1. o \in Object /\ "thread" \in Owner
  BY ClientsAssumption DEF TypeOK, StartInv, Owner, Busy
<1>2. Owns("thread", o)
  BY ClientsAssumption
  DEF TypeOK, StartInv, ClientLife, Busy, Running, Owner, Owns, CreatorOwns, RunOwns, ThreadOwns, Target
<1>3. \A j \in Object : \A x \in Owner :
        Owns(x, j)' <=> Owns(x, j) /\ ~(j = o /\ x = "thread")
  BY ClientsAssumption
  DEF TypeOK, StartInv, ClientLife, Owner, Owns, CreatorOwns, RunOwns, ThreadOwns, Target
<1>4. RefInv' /\ refCount[o] # 0 /\ refCount' \in [Object -> Nat]
  BY <1>1, <1>2, <1>3, CountRemove
<1>5. TypeOK'
  BY <1>4, ClientsAssumption
  DEF TypeOK, MainLabel, ServerLabel, ClientLabel
<1>6. StartInv'
  BY ClientsAssumption DEF TypeOK, StartInv, Busy
<1>7. ServerLife'
  BY <1>4, ClientsAssumption DEF TypeOK, StartInv, ServerLife, DoomInv, Busy
<1>8. ClientLife'
  <2>1. CASE o = Server \/ refCount[o] = 1
    BY <2>1, ClientsAssumption DEF TypeOK, StartInv, ClientLife, Busy, Running
  <2>2. CASE o \in Clients /\ refCount[o] # 1
    <3>1. \E x \in Owner : x # "thread" /\ Owns(x, o)
      BY <1>1, <1>2, <2>2, CountMany
    <3>2. pc[Server] \in {"wait", "release"} /\ cur = o
      BY <2>2, <3>1, ClientsAssumption DEF Owns, RunOwns, Target
    <3>3. QED
      BY <2>2, <3>2, ClientsAssumption
      DEF TypeOK, StartInv, ClientLife, Busy, Running
  <2>3. QED
    BY <2>1, <2>2
<1>9. DoomInv'
  BY <1>4, ClientsAssumption
  DEF TypeOK, StartInv, ServerLife, ClientLife, DoomInv, Busy, Running
<1>10. QED
  BY <1>4, <1>5, <1>6, <1>7, <1>8, <1>9

(* CService::Run lets go of the server.                                    *)
LEMMA ReleaseServerKeeps ==
  ASSUME IInv, ReleaseServer
  PROVE  IInv'
<1> USE DEF IInv, ReleaseServer, Goto, RemoveRef
<1>1. Server \in Object /\ "creator" \in Owner
  BY ClientsAssumption DEF TypeOK, StartInv, Owner, Busy
<1>2. Owns("creator", Server)
  BY ClientsAssumption
  DEF TypeOK, StartInv, ClientLife, Busy, Running, Owner, Owns, CreatorOwns, RunOwns, ThreadOwns, Target
<1>3. \A j \in Object : \A x \in Owner :
        Owns(x, j)' <=> Owns(x, j) /\ ~(j = Server /\ x = "creator")
  BY ClientsAssumption
  DEF TypeOK, StartInv, ClientLife, Owner, Owns, CreatorOwns, RunOwns, ThreadOwns, Target
<1>4. RefInv' /\ refCount[Server] # 0 /\ refCount' \in [Object -> Nat]
  BY <1>1, <1>2, <1>3, CountRemove
<1>5. TypeOK'
  BY <1>4, ClientsAssumption
  DEF TypeOK, MainLabel, ServerLabel, ClientLabel
<1>6. StartInv'
  BY ClientsAssumption DEF TypeOK, StartInv, Busy
<1>7. ServerLife'
  BY <1>4, ClientsAssumption DEF TypeOK, StartInv, ServerLife, DoomInv, Busy
<1>8. ClientLife'
  BY <1>4, ClientsAssumption DEF TypeOK, StartInv, ClientLife, DoomInv, Busy, Running
<1>9. DoomInv'
  BY <1>4, ClientsAssumption
  DEF TypeOK, StartInv, ServerLife, ClientLife, DoomInv, Busy, Running
<1>10. QED
  BY <1>4, <1>5, <1>6, <1>7, <1>8, <1>9

(* A client's destructor lets go of the server.                            *)
LEMMA DestroyClientKeeps ==
  ASSUME IInv, NEW p \in Process, DestroyClient(p)
  PROVE  IInv'
<1> USE DEF IInv, DestroyClient, Goto, RemoveRef, Doomed
<1>1. /\ Doomed(p) \in Clients
      /\ p = Server \/ p = Doomed(p)
      /\ p = Server => Doomed(p) = cur
      /\ life[Doomed(p)] = "live"
      /\ refCount[Doomed(p)] = 0
      /\ Server \in Object /\ Doomed(p) \in Owner
  BY ClientsAssumption
  DEF TypeOK, MainLabel, StartInv, ClientLife, DoomInv, Owner, Busy, Running
<1>2. Owns(Doomed(p), Server)
  BY <1>1, ClientsAssumption DEF Owns
<1>3. \A j \in Object : \A x \in Owner :
        Owns(x, j)' <=> Owns(x, j) /\ ~(j = Server /\ x = Doomed(p))
  <2>1. /\ pc[p] = "destroyClient" /\ p # Main
        /\ pc'[p] \in {"test", "dead", "destroyServer"}
        /\ p = Server => Owns("thread", Server)
        /\ \A q \in Process : q # p => pc'[q] = pc[q]
    BY <1>1, ClientsAssumption DEF TypeOK, Owns, ThreadOwns
  <2>2. /\ life'[Doomed(p)] = "deleted"
        /\ \A c \in Clients : c # Doomed(p) => life'[c] = life[c]
    BY <1>1 DEF TypeOK
  <2>3. p = Server => pc'[p] = "test"
    BY <1>1, <1>2, <2>1, ClientsAssumption, CountTwo DEF Owner, TypeOK
  <2>4. CASE p = Server
    BY <1>1, <2>1, <2>2, <2>3, <2>4, ClientsAssumption
    DEF TypeOK, Owner, Owns, CreatorOwns, RunOwns, ThreadOwns, Target
  <2>5. CASE p # Server
    BY <1>1, <2>1, <2>2, <2>5, ClientsAssumption
    DEF TypeOK, Owner, Owns, CreatorOwns, RunOwns, ThreadOwns, Target
  <2>6. QED
    BY <2>4, <2>5
<1>4. RefInv' /\ refCount[Server] # 0 /\ refCount' \in [Object -> Nat]
  BY <1>1, <1>2, <1>3, CountRemove
<1>5. TypeOK'
  BY <1>4, ClientsAssumption
  DEF TypeOK, MainLabel, ServerLabel, ClientLabel
<1>6. StartInv'
  BY ClientsAssumption DEF TypeOK, StartInv, Busy
<1>7. ServerLife'
  BY <1>4, ClientsAssumption DEF TypeOK, StartInv, ServerLife, DoomInv, Busy
<1>8. ClientLife'
  <2>1. \A x \in Owner : ~Owns(x, Doomed(p))
    BY <1>1, CountZero
  <2>2. /\ pc[Doomed(p)] \in {"unborn", "begin", "destroyClient",
                              "destroyServer", "dead"}
        /\ ~(pc[Server] \in {"wait", "release"} /\ cur = Doomed(p))
    BY <1>1, <2>1, ClientsAssumption
    DEF Owner, Owns, ThreadOwns, RunOwns, Target
  <2>3. CASE p = Server
    <3>1. pc[cur] \in {"destroyServer", "dead"}
      BY <1>1, <2>2, <2>3 DEF StartInv, DoomInv
    <3>2. QED
      BY <1>1, <2>3, <3>1, ClientsAssumption
      DEF TypeOK, ClientLife, Busy, Running
  <2>4. CASE p \in Clients
    <3>1. ~(pc[Server] \in Busy \cup {"construct"} /\ cur = p)
      BY <1>1, <2>2, <2>4, ClientsAssumption DEF StartInv, DoomInv, Busy
    <3>2. QED
      BY <1>1, <2>4, <3>1, ClientsAssumption
      DEF TypeOK, StartInv, ClientLife, Busy, Running
  <2>5. QED
    BY <1>1, <2>3, <2>4
<1>9. DoomInv'
  BY <1>4, ClientsAssumption
  DEF TypeOK, StartInv, ServerLife, ClientLife, DoomInv, Busy, Running
<1>10. QED
  BY <1>4, <1>5, <1>6, <1>7, <1>8, <1>9
-----------------------------------------------------------------------------
(* The invariant at first.                                                 *)
LEMMA InitIInv == Init => IInv
<1> SUFFICES ASSUME Init PROVE IInv
  OBVIOUS
<1> USE ClientsAssumption DEF Init
<1>1. TypeOK
  BY DEF TypeOK, MainLabel, ServerLabel, ClientLabel
<1>2. StartInv
  BY DEF StartInv, Busy
<1>3. ServerLife
  BY DEF ServerLife
<1>4. ClientLife
  BY DEF ClientLife, Busy, Running
<1>5. RefInv
  <2>1. ASSUME NEW o \in Object PROVE refCount[o] = Cardinality(Owners(o))
    <3>1. Owners(o) = {}
      BY DEF Owners, Owns, CreatorOwns, RunOwns, ThreadOwns
    <3>2. QED
      BY <3>1, FS_EmptySet
  <2>2. QED
    BY <2>1 DEF RefInv
<1>6. DoomInv
  BY DEF DoomInv
<1>7. QED
  BY <1>1, <1>2, <1>3, <1>4, <1>5, <1>6 DEF IInv

(* Every step keeps it.                                                    *)
LEMMA NextIInv == IInv /\ [Next]_vars => IInv'
<1> SUFFICES ASSUME IInv, [Next]_vars PROVE IInv'
  OBVIOUS
<1>1. CASE NewServer
  BY <1>1, NewServerKeeps
<1>2. CASE ServiceQuit
  BY <1>2, MainMoves DEF ServiceQuit, IInv, TypeOK
<1>3. CASE MainStop
  <2>1. CASE StopServer
    BY <2>1, MainMoves DEF StopServer, IInv, TypeOK
  <2>2. CASE CloseServer
    <3>1. sock' \in {"none", "created", "bound", "listening", "closed"}
      BY <2>2 DEF CloseServer
    <3>2. state' = [state EXCEPT ![Server] = state[Server]]
      BY <2>2 DEF CloseServer, IInv, TypeOK
    <3>3. state[Server] \in {"Waiting", "Stopped", "Running"}
      BY DEF IInv, TypeOK
    <3>4. QED
      BY <2>2, <3>1, <3>2, <3>3, MainMoves DEF CloseServer
  <2>3. CASE ReleaseServer
    BY <2>3, ReleaseServerKeeps
  <2>4. QED
    BY <1>3, <2>1, <2>2, <2>3 DEF MainStop
<1>4. ASSUME NEW p \in Starter, RunStep(p) PROVE IInv'
  BY <1>4, RunBeginKeeps, RunPollKeeps, RunReleaseKeeps DEF RunStep
<1>5. ASSUME NEW o \in Object, ThreadStep(o) PROVE IInv'
  BY <1>5, ThreadAddRefKeeps, ThreadMarkKeeps, ThreadStopSelfKeeps,
     ThreadRemoveRefKeeps DEF ThreadStep
<1>6. ASSUME NEW p \in Process, Destroy(p) PROVE IInv'
  BY <1>6, DestroyClientKeeps, DestroyServerKeeps DEF Destroy
<1>7. CASE ServerOpen
  BY <1>7, ServerMoves
  DEF ServerOpen, ServerCreate, ServerBind, ServerListen, SocketStep, IInv, TypeOK
<1>8. CASE ServerTest
  BY <1>8, ServerMoves DEF ServerTest, IInv, TypeOK
<1>9. ASSUME NEW c \in Clients, ServerAccept(c) PROVE IInv'
  BY <1>9, ServerAcceptKeeps
<1>10. CASE ServerReject
  BY <1>10, ServerMoves DEF ServerReject, IInv, TypeOK
<1>11. CASE ServerAcceptFails
  BY <1>11, ServerMoves DEF ServerAcceptFails, IInv, TypeOK
<1>12. CASE NewClient
  BY <1>12, NewClientKeeps
<1>13. ASSUME NEW c \in Clients,
              ClientReceive(c) \/ ClientReply(c) \/ ClientLeave(c)
       PROVE  IInv'
  BY <1>13, ClientMoves DEF ClientReceive, ClientReply, ClientLeave
<1>14. CASE UNCHANGED vars
  <2>1. UNCHANGED <<pc, life, refCount, state, started, sock, cur>>
    BY <1>14 DEF vars
  <2>2. \A o \in Object : \A x \in Owner : Owns(x, o)' <=> Owns(x, o)
    BY <2>1 DEF Owner, Owns, CreatorOwns, RunOwns, ThreadOwns, Target
  <2>3. RefInv'
    BY <2>1, <2>2, CountSame DEF IInv
  <2>4. QED
    BY <2>1, <2>3
    DEF IInv, TypeOK, StartInv, ServerLife, ClientLife, DoomInv, Busy, Running
<1>15. QED
  BY <1>1, <1>2, <1>3, <1>4, <1>5, <1>6, <1>7, <1>8, <1>9, <1>10, <1>11,
     <1>12, <1>13, <1>14 DEF Next

(* The inductive invariant holds in every reachable state.                 *)
THEOREM Invariance == Spec => []IInv
<1>1. QED
  BY InitIInv, NextIInv, PTL DEF Spec

(* The variables keep their types; above all, no count becomes negative.   *)
THEOREM TypeCorrect == Spec => []TypeOK
<1>1. IInv => TypeOK
  BY DEF IInv
<1>2. QED
  BY <1>1, Invariance, PTL

(* No thread touches an object that is not alive.                          *)
THEOREM NoUseAfterDeleteHolds == Spec => []NoUseAfterDelete
<1>1. IInv => NoUseAfterDelete
  <2> SUFFICES ASSUME IInv, NEW p \in Process, NEW o \in Uses(p)
               PROVE  life[o] = "live"
    BY DEF NoUseAfterDelete
  <2> USE DEF IInv
  <2>1. ASSUME \E x \in Owner : Owns(x, Server) PROVE life[Server] = "live"
    BY <2>1, ServerOwned
  <2>2. CASE p = Main
    <3>1. o = Server /\ pc[Main] \notin {"new", "done"}
      BY <2>2, ClientsAssumption DEF Uses, MainUses
    <3>2. CASE pc[Main] = "destroyServer"
      BY <3>1, <3>2 DEF DoomInv
    <3>3. CASE pc[Main] # "destroyServer"
      BY <2>1, <3>1, <3>3 DEF TypeOK, MainLabel, Owner, Owns, CreatorOwns
    <3>4. QED
      BY <3>2, <3>3
  <2>3. CASE p = Server
    <3>1. /\ pc[Server] \notin {"unborn", "dead"}
          /\ o = Server \/ (o = cur /\ pc[Server] \in Busy)
      BY <2>3, ClientsAssumption DEF Uses, ServerUses, Busy
    <3>2. CASE o = Server /\ pc[Server] = "destroyServer"
      BY <3>2 DEF DoomInv
    <3>3. CASE o = Server /\ pc[Server] = "begin"
      BY <2>1, <3>3 DEF StartInv, Owner, Owns, CreatorOwns
    <3>4. CASE o = Server /\ pc[Server] \notin {"begin", "destroyServer"}
      BY <2>1, <3>1, <3>4 DEF TypeOK, ServerLabel, Owner, Owns, ThreadOwns
    <3>5. CASE o = cur /\ pc[Server] \in Busy
      BY <3>5 DEF ClientLife
    <3>6. QED
      BY <3>1, <3>2, <3>3, <3>4, <3>5
  <2>4. CASE p \in Clients
    <3>1. /\ pc[p] \notin {"unborn", "dead"}
          /\ o = Server \/ (o = p /\ pc[p] # "destroyServer")
      BY <2>4, ClientsAssumption DEF Uses, ClientUses
    <3>2. CASE pc[p] = "destroyServer"
      BY <3>1, <3>2 DEF DoomInv
    <3>3. CASE pc[p] # "destroyServer"
      <4>1. life[p] = "live"
        BY <2>4, <3>1, <3>3 DEF TypeOK, ClientLabel, ClientLife, Running
      <4>2. QED
        BY <2>1, <2>4, <3>1, <4>1 DEF Owner, Owns
    <3>4. QED
      BY <3>2, <3>3
  <2>5. QED
    BY <2>2, <2>3, <2>4
<1>2. QED
  BY <1>1, Invariance, PTL

(* Every object is deleted by one thread at most.                          *)
THEOREM DeletedOnceHolds == Spec => []DeletedOnce
<1>1. IInv => DeletedOnce
  BY ClientsAssumption
  DEF IInv, TypeOK, MainLabel, StartInv, DoomInv, DeletedOnce, Destroying, Doomed, Busy
<1>2. QED
  BY <1>1, Invariance, PTL

(* Nothing is left when every thread has ended.                            *)
THEOREM NoLeakHolds == Spec => []NoLeak
<1>1. IInv => NoLeak
  <2> SUFFICES ASSUME IInv, AllEnded, NEW o \in Object PROVE life[o] # "live"
    BY DEF NoLeak
  <2> USE ClientsAssumption DEF IInv, AllEnded
  <2>1. \A c \in Clients : life[c] # "live"
    BY DEF ClientLife, Running, Busy
  <2>2. \A x \in Owner : ~Owns(x, Server)
    BY <2>1 DEF Owner, Owns, CreatorOwns, RunOwns, ThreadOwns, Target
  <2>3. refCount[Server] = 0
    BY <2>2, CountZero
  <2>4. life[Server] # "live"
    BY <2>3 DEF ServerLife
  <2>5. QED
    BY <2>1, <2>4
<1>2. QED
  BY <1>1, Invariance, PTL

-----------------------------------------------------------------------------
(* The steps: every one is a step of a shared object's or leaves it alone, *)
(* and none accepts a connection once the service has been stopped.        *)
USE DEF Main, Server, Object, Process, Starter

-----------------------------------------------------------------------------
(* The abstract steps, from what a step does to the server's owners.       *)
LEMMA Stutters ==
  ASSUME \A x \in Owner : Owns(x, Server)' <=> Owns(x, Server),
         life'[Server] = life[Server]
  PROVE  UNCHANGED Shared!vars
<1>1. Owners(Server)' = Owners(Server)
  BY DEF Owners
<1>2. QED
  BY <1>1 DEF Shared!vars

(* A step that adds an owner of the server while another owns it is one of *)
(* the shared object's.                                                    *)
LEMMA Shares ==
  ASSUME IInv, NEW y \in Owner, NEW z \in Owner,
         ~Owns(y, Server), Owns(z, Server),
         \A x \in Owner : Owns(x, Server)' <=> Owns(x, Server) \/ x = y,
         life'[Server] = life[Server]
  PROVE  Shared!Next
<1>1. Owners(Server)' = Owners(Server) \cup {y}
  BY DEF Owners
<1>2. y \notin Owners(Server) /\ Owners(Server) # {}
  BY DEF Owners
<1>3. life[Server] = "live"
  BY ServerOwned
<1>4. Shared!Share(y)
  BY <1>1, <1>2, <1>3 DEF Shared!Share
<1>5. QED
  BY <1>4 DEF Shared!Next

(* So is one that takes an owner away.                                     *)
LEMMA LetsGo ==
  ASSUME IInv, NEW y \in Owner, Owns(y, Server),
         \A x \in Owner : Owns(x, Server)' <=> Owns(x, Server) /\ x # y,
         life'[Server] = life[Server]
  PROVE  Shared!Next
<1>1. Owners(Server)' = Owners(Server) \ {y}
  BY DEF Owners
<1>2. y \in Owners(Server)
  BY DEF Owners
<1>3. life[Server] = "live"
  BY ServerOwned
<1>4. Shared!LetGo(y)
  BY <1>1, <1>2, <1>3 DEF Shared!LetGo
<1>5. QED
  BY <1>4 DEF Shared!Next

-----------------------------------------------------------------------------
(* What each action does to them.                                          *)
LEMMA NewServerShares ==
  ASSUME IInv, NewServer
  PROVE  Shared!Next
<1> USE ClientsAssumption DEF NewServer, Goto, AddRef
<1>1. \A x \in Owner : ~Owns(x, Server)
  BY CountZero DEF IInv, ServerLife
<1>2. /\ pc[Main] = "new" /\ pc'[Main] = "run"
      /\ \A q \in Process : q # Main => pc'[q] = pc[q]
      /\ life[Server] = "unborn" /\ life'[Server] = "live"
      /\ \A c \in Clients : life'[c] = life[c]
  BY DEF IInv, TypeOK, ServerLife
<1>3. \A x \in Owner : Owns(x, Server)' <=> x = "creator"
  BY <1>1, <1>2
  DEF IInv, TypeOK, Owner, Owns, CreatorOwns, RunOwns, ThreadOwns, Target
<1>4. Owners(Server)' = {"creator"} /\ "creator" \in Owner
  BY <1>3 DEF Owners, Owner
<1>5. Shared!Create("creator")
  BY <1>2, <1>4 DEF Shared!Create
<1>6. QED
  BY <1>4, <1>5 DEF Shared!Next

(* Run refers to the object it starts.                                     *)
LEMMA RunBeginShares ==
  ASSUME IInv, NEW p \in Starter, RunBegin(p)
  PROVE  [Shared!Next]_Shared!vars
<1> USE ClientsAssumption
<1>1. /\ pc[p] = "run" /\ pc'[p] = "wait"
      /\ Target(p) \in Object /\ p # Target(p)
      /\ pc[Target(p)] = "unborn" /\ pc'[Target(p)] \in {"unborn", "begin"}
      /\ \A q \in Process : q # p /\ q # Target(p) => pc'[q] = pc[q]
      /\ UNCHANGED <<life, cur>>
  BY DEF RunBegin, Goto, IInv, TypeOK, StartInv, Target, Busy
<1>2. CASE p = Main
  <2>1. ~Owns("run", Server) /\ "run" \in Owner
    BY <1>1, <1>2 DEF IInv, StartInv, Owner, Owns, RunOwns, Target
  <2>2. Owns("creator", Server) /\ "creator" \in Owner
    BY <1>1, <1>2 DEF Owner, Owns, CreatorOwns
  <2>3. \A x \in Owner : Owns(x, Server)' <=> Owns(x, Server) \/ x = "run"
    BY <1>1, <1>2
    DEF IInv, TypeOK, Owner, Owns, CreatorOwns, RunOwns, ThreadOwns, Target
  <2>4. QED
    BY <1>1, <2>1, <2>2, <2>3, Shares
<1>3. CASE p = Server
  <2>1. cur \in Clients
    BY <1>1, <1>3 DEF IInv, StartInv, Busy
  <2>2. \A x \in Owner : Owns(x, Server)' <=> Owns(x, Server)
    BY <1>1, <1>3, <2>1
    DEF IInv, TypeOK, Owner, Owns, CreatorOwns, RunOwns, ThreadOwns, Target
  <2>3. QED
    BY <1>1, <2>2, Stutters
<1>4. QED
  BY <1>2, <1>3

(* And lets go of it.                                                      *)
LEMMA RunReleaseShares ==
  ASSUME IInv, NEW p \in Starter, RunRelease(p)
  PROVE  [Shared!Next]_Shared!vars
<1> USE ClientsAssumption
<1>1. CASE p = Main
  <2>1. /\ pc[Main] = "release" /\ pc'[Main] \in {"serve", "destroyServer"}
        /\ \A q \in Process : q # Main => pc'[q] = pc[q]
        /\ UNCHANGED <<life, cur>>
        /\ refCount[Server] # 1 => pc'[Main] = "serve"
    BY <1>1
    DEF RunRelease, RemoveRef, Destroyer, Goto, Target, IInv, TypeOK
  <2>2. /\ Owns("creator", Server) /\ "creator" \in Owner
        /\ Owns("run", Server) /\ "run" \in Owner
    BY <2>1 DEF Owner, Owns, CreatorOwns, RunOwns, Target
  <2>3. pc'[Main] = "serve"
    BY <2>1, <2>2, CountTwo DEF IInv
  <2>4. \A x \in Owner : Owns(x, Server)' <=> Owns(x, Server) /\ x # "run"
    BY <2>1, <2>3
    DEF IInv, TypeOK, StartInv, Busy, Owner, Owns, CreatorOwns, RunOwns,
        ThreadOwns, Target
  <2>5. QED
    BY <2>1, <2>2, <2>4, LetsGo
<1>2. CASE p = Server
  <2>1. /\ pc[Server] = "release" /\ pc'[Server] \in {"test", "destroyClient"}
        /\ cur \in Clients
        /\ \A q \in Process : q # Server => pc'[q] = pc[q]
        /\ UNCHANGED <<life, cur>>
    BY <1>2
    DEF RunRelease, RemoveRef, Destroyer, Goto, Target, IInv, TypeOK,
        StartInv, Busy
  <2>2. \A x \in Owner : Owns(x, Server)' <=> Owns(x, Server)
    BY <2>1
    DEF IInv, TypeOK, Owner, Owns, CreatorOwns, RunOwns, ThreadOwns, Target
  <2>3. QED
    BY <2>1, <2>2, Stutters
<1>3. QED
  BY <1>1, <1>2

(* The started thread refers to its object.                                *)
LEMMA ThreadAddRefShares ==
  ASSUME IInv, NEW o \in Object, ThreadAddRef(o)
  PROVE  [Shared!Next]_Shared!vars
<1> USE ClientsAssumption
<1>1. /\ pc[o] = "begin" /\ pc'[o] = "mark"
      /\ \A q \in Process : q # o => pc'[q] = pc[q]
      /\ UNCHANGED <<life, cur>>
  BY DEF ThreadAddRef, Goto, IInv, TypeOK
<1>2. CASE o = Server
  <2>1. ~Owns("thread", Server) /\ "thread" \in Owner
    BY <1>1, <1>2 DEF Owner, Owns, ThreadOwns
  <2>2. Owns("creator", Server) /\ "creator" \in Owner
    BY <1>1, <1>2 DEF IInv, StartInv, Owner, Owns, CreatorOwns
  <2>3. \A x \in Owner : Owns(x, Server)' <=> Owns(x, Server) \/ x = "thread"
    BY <1>1, <1>2
    DEF IInv, TypeOK, Owner, Owns, CreatorOwns, RunOwns, ThreadOwns, Target
  <2>4. QED
    BY <1>1, <2>1, <2>2, <2>3, Shares
<1>3. CASE o \in Clients
  <2>1. \A x \in Owner : Owns(x, Server)' <=> Owns(x, Server)
    BY <1>1, <1>3
    DEF IInv, TypeOK, Owner, Owns, CreatorOwns, RunOwns, ThreadOwns, Target
  <2>2. QED
    BY <1>1, <2>1, Stutters
<1>4. QED
  BY <1>2, <1>3

(* And lets go of it at its end.                                           *)
LEMMA ThreadRemoveRefShares ==
  ASSUME IInv, NEW o \in Object, ThreadRemoveRef(o)
  PROVE  [Shared!Next]_Shared!vars
<1> USE ClientsAssumption
<1>1. /\ pc[o] = "unref"
      /\ pc'[o] \in {"dead", "destroyServer", "destroyClient"}
      /\ o = Server => pc'[o] # "destroyClient"
      /\ \A q \in Process : q # o => pc'[q] = pc[q]
      /\ UNCHANGED <<life, cur>>
  BY DEF ThreadRemoveRef, RemoveRef, Destroyer, Goto, IInv, TypeOK
<1>2. CASE o = Server
  <2>1. Owns("thread", Server) /\ "thread" \in Owner
    BY <1>1, <1>2 DEF Owner, Owns, ThreadOwns
  <2>2. \A x \in Owner : Owns(x, Server)' <=> Owns(x, Server) /\ x # "thread"
    BY <1>1, <1>2
    DEF IInv, TypeOK, Owner, Owns, CreatorOwns, RunOwns, ThreadOwns, Target
  <2>3. QED
    BY <1>1, <2>1, <2>2, LetsGo
<1>3. CASE o \in Clients
  <2>1. \A x \in Owner : Owns(x, Server)' <=> Owns(x, Server)
    BY <1>1, <1>3
    DEF IInv, TypeOK, Owner, Owns, CreatorOwns, RunOwns, ThreadOwns, Target
  <2>2. QED
    BY <1>1, <2>1, Stutters
<1>4. QED
  BY <1>2, <1>3

(* A client refers to the server.                                          *)
LEMMA NewClientShares ==
  ASSUME IInv, NewClient
  PROVE  Shared!Next
<1> USE ClientsAssumption
<1>1. /\ pc[Server] = "construct" /\ pc'[Server] = "run"
      /\ cur \in Clients
      /\ \A q \in Process : q # Server => pc'[q] = pc[q]
      /\ life[cur] = "unborn" /\ life'[cur] = "live"
      /\ \A k \in Object : k # cur => life'[k] = life[k]
      /\ UNCHANGED cur
  BY DEF NewClient, Goto, IInv, TypeOK, StartInv, ClientLife
<1>2. ~Owns(cur, Server) /\ cur \in Owner
  BY <1>1 DEF Owner, Owns
<1>3. Owns("thread", Server) /\ "thread" \in Owner
  BY <1>1 DEF Owner, Owns, ThreadOwns
<1>4. \A x \in Owner : Owns(x, Server)' <=> Owns(x, Server) \/ x = cur
  BY <1>1
  DEF IInv, TypeOK, Owner, Owns, CreatorOwns, RunOwns, ThreadOwns, Target
<1>5. QED
  BY <1>1, <1>2, <1>3, <1>4, Shares

(* The service lets go of it.                                              *)
LEMMA ReleaseServerShares ==
  ASSUME IInv, ReleaseServer
  PROVE  Shared!Next
<1> USE ClientsAssumption
<1>1. /\ pc[Main] = "unref" /\ pc'[Main] \in {"done", "destroyServer"}
      /\ \A q \in Process : q # Main => pc'[q] = pc[q]
      /\ UNCHANGED <<life, cur>>
  BY DEF ReleaseServer, RemoveRef, Goto, IInv, TypeOK
<1>2. Owns("creator", Server) /\ "creator" \in Owner
  BY <1>1 DEF Owner, Owns, CreatorOwns
<1>3. \A x \in Owner : Owns(x, Server)' <=> Owns(x, Server) /\ x # "creator"
  BY <1>1
  DEF IInv, TypeOK, Owner, Owns, CreatorOwns, RunOwns, ThreadOwns, Target
<1>4. QED
  BY <1>1, <1>2, <1>3, LetsGo

(* A client that is deleted lets go of it.                                 *)
LEMMA DestroyClientShares ==
  ASSUME IInv, NEW p \in Process, DestroyClient(p)
  PROVE  Shared!Next
<1> USE ClientsAssumption
<1>1. /\ pc[p] = "destroyClient" /\ p # Main
      /\ pc'[p] \in {"test", "dead", "destroyServer"}
      /\ Doomed(p) \in Clients
      /\ p = Server => Doomed(p) = cur
      /\ p # Server => p = Doomed(p)
      /\ \A q \in Process : q # p => pc'[q] = pc[q]
      /\ life[Doomed(p)] = "live" /\ life'[Doomed(p)] = "deleted"
      /\ \A k \in Object : k # Doomed(p) => life'[k] = life[k]
      /\ p = Server /\ refCount[Server] # 1 => pc'[p] = "test"
      /\ UNCHANGED cur
  BY DEF DestroyClient, RemoveRef, Goto, Doomed, IInv, TypeOK, MainLabel,
         StartInv, ClientLife, Busy, Running
<1>2. Owns(Doomed(p), Server) /\ Doomed(p) \in Owner
  BY <1>1 DEF Owner, Owns
<1>3. \A x \in Owner : Owns(x, Server)' <=> Owns(x, Server) /\ x # Doomed(p)
  <2>1. CASE p = Server
    <3>1. Owns("thread", Server) /\ "thread" \in Owner
      BY <1>1, <2>1 DEF Owner, Owns, ThreadOwns
    <3>2. pc'[p] = "test"
      BY <1>1, <1>2, <2>1, <3>1, CountTwo DEF IInv
    <3>3. QED
      BY <1>1, <2>1, <3>2
      DEF IInv, TypeOK, Owner, Owns, CreatorOwns, RunOwns, ThreadOwns, Target
  <2>2. CASE p # Server
    BY <1>1, <2>2
    DEF IInv, TypeOK, Owner, Owns, CreatorOwns, RunOwns, ThreadOwns, Target
  <2>3. QED
    BY <2>1, <2>2
<1>4. QED
  BY <1>1, <1>2, <1>3, LetsGo

(* The server goes when nobody owns it.                                    *)
LEMMA DestroyServerShares ==
  ASSUME IInv, NEW p \in Process, DestroyServer(p)
  PROVE  Shared!Next
<1> USE ClientsAssumption
<1>1. /\ pc[p] = "destroyServer" /\ pc'[p] \in {"done", "dead"}
      /\ p # Main => pc'[p] = "dead"
      /\ \A q \in Process : q # p => pc'[q] = pc[q]
      /\ life'[Server] = "deleted"
      /\ \A c \in Clients : life'[c] = life[c]
      /\ UNCHANGED cur
  BY DEF DestroyServer, Goto, IInv, TypeOK
<1>2. life[Server] = "live" /\ refCount[Server] = 0
  BY <1>1 DEF IInv, DoomInv
<1>3. \A x \in Owner : ~Owns(x, Server)
  BY <1>2, CountZero DEF IInv
<1>4. \A x \in Owner : Owns(x, Server)' <=> Owns(x, Server)
  BY <1>1
  DEF IInv, TypeOK, Owner, Owns, CreatorOwns, RunOwns, ThreadOwns, Target
<1>5. Owners(Server) = {} /\ Owners(Server)' = {}
  BY <1>3, <1>4 DEF Owners
<1>6. Shared!Destroy
  BY <1>1, <1>2, <1>5 DEF Shared!Destroy
<1>7. QED
  BY <1>6 DEF Shared!Next

-----------------------------------------------------------------------------
(* The steps that concern nobody's ownership.                              *)
LEMMA MainStutters ==
  ASSUME IInv, ServiceQuit \/ StopServer \/ CloseServer
  PROVE  UNCHANGED Shared!vars
<1> USE ClientsAssumption
<1>1. /\ pc[Main] \in {"serve", "stop", "close"}
      /\ pc'[Main] \in {"stop", "close", "unref"}
      /\ \A q \in Process : q # Main => pc'[q] = pc[q]
      /\ UNCHANGED <<life, cur>>
  BY DEF ServiceQuit, StopServer, CloseServer, Goto, IInv, TypeOK
<1>2. \A x \in Owner : Owns(x, Server)' <=> Owns(x, Server)
  BY <1>1
  DEF IInv, TypeOK, Owner, Owns, CreatorOwns, RunOwns, ThreadOwns, Target
<1>3. QED
  BY <1>1, <1>2, Stutters

(* The accept loop changes neither owners nor object.                      *)
LEMMA ServerStutters ==
  ASSUME IInv,
         \/ ServerOpen \/ ServerTest \/ ServerReject \/ ServerAcceptFails
         \/ \E c \in Clients : ServerAccept(c)
  PROVE  UNCHANGED Shared!vars
<1> USE ClientsAssumption
<1>1. /\ pc[Server] \in {"create", "bind", "listen", "test", "accept"}
      /\ pc'[Server] \in {"bind", "listen", "test", "accept", "construct",
                          "stopSelf"}
      /\ \A q \in Process : q # Server => pc'[q] = pc[q]
      /\ UNCHANGED life
  <2>1. CASE ServerOpen
    BY <2>1 DEF ServerOpen, ServerCreate, ServerBind, ServerListen,
                SocketStep, Goto, IInv, TypeOK
  <2>2. CASE ServerTest
    BY <2>2 DEF ServerTest, Goto, IInv, TypeOK
  <2>3. CASE ServerReject \/ ServerAcceptFails
    BY <2>3 DEF ServerReject, ServerAcceptFails, Goto, IInv, TypeOK
  <2>4. CASE \E c \in Clients : ServerAccept(c)
    BY <2>4 DEF ServerAccept, Goto, IInv, TypeOK
  <2>5. QED
    BY <2>1, <2>2, <2>3, <2>4
<1>2. \A x \in Owner : Owns(x, Server)' <=> Owns(x, Server)
  BY <1>1
  DEF IInv, TypeOK, Owner, Owns, CreatorOwns, RunOwns, ThreadOwns, Target
<1>3. QED
  BY <1>1, <1>2, Stutters

(* Nor does a session.                                                     *)
LEMMA ClientStutters ==
  ASSUME IInv, NEW c \in Clients,
         ClientReceive(c) \/ ClientReply(c) \/ ClientLeave(c)
  PROVE  UNCHANGED Shared!vars
<1> USE ClientsAssumption
<1>1. /\ \A q \in Process : q # c => pc'[q] = pc[q]
      /\ UNCHANGED <<life, cur>>
  BY DEF ClientReceive, ClientReply, ClientLeave, Goto, IInv, TypeOK
<1>2. \A x \in Owner : Owns(x, Server)' <=> Owns(x, Server)
  BY <1>1
  DEF IInv, TypeOK, Owner, Owns, CreatorOwns, RunOwns, ThreadOwns, Target
<1>3. QED
  BY <1>1, <1>2, Stutters

(* Nor does waiting for a start.                                           *)
LEMMA RunPollStutters ==
  ASSUME IInv, NEW p \in Starter, RunPoll(p)
  PROVE  UNCHANGED Shared!vars
<1> USE ClientsAssumption
<1>1. /\ pc[p] = "wait" /\ pc'[p] = "release"
      /\ \A q \in Process : q # p => pc'[q] = pc[q]
      /\ UNCHANGED <<life, cur>>
  BY DEF RunPoll, Goto, IInv, TypeOK
<1>2. \A x \in Owner : Owns(x, Server)' <=> Owns(x, Server)
  BY <1>1
  DEF IInv, TypeOK, Owner, Owns, CreatorOwns, RunOwns, ThreadOwns, Target
<1>3. QED
  BY <1>1, <1>2, Stutters

(* Nor do the marks of a thread's state.                                   *)
LEMMA ThreadStutters ==
  ASSUME IInv, NEW o \in Object, ThreadMark(o) \/ ThreadStopSelf(o)
  PROVE  UNCHANGED Shared!vars
<1> USE ClientsAssumption
<1>1. /\ pc[o] \in {"mark", "stopSelf"}
      /\ pc'[o] \in {"create", "session", "unref"}
      /\ \A q \in Process : q # o => pc'[q] = pc[q]
      /\ UNCHANGED <<life, cur>>
  BY DEF ThreadMark, ThreadStopSelf, Goto, IInv, TypeOK
<1>2. \A x \in Owner : Owns(x, Server)' <=> Owns(x, Server)
  BY <1>1
  DEF IInv, TypeOK, Owner, Owns, CreatorOwns, RunOwns, ThreadOwns, Target
<1>3. QED
  BY <1>1, <1>2, Stutters

-----------------------------------------------------------------------------
(* Every step is one of the shared object's, or leaves it alone.           *)
LEMMA StepShares == IInv /\ [Next]_vars => [Shared!Next]_Shared!vars
<1> SUFFICES ASSUME IInv, [Next]_vars PROVE [Shared!Next]_Shared!vars
  OBVIOUS
<1>1. CASE NewServer
  BY <1>1, NewServerShares
<1>2. CASE ServiceQuit
  BY <1>2, MainStutters
<1>3. CASE MainStop
  BY <1>3, MainStutters, ReleaseServerShares DEF MainStop
<1>4. ASSUME NEW p \in Starter, RunStep(p)
      PROVE  [Shared!Next]_Shared!vars
  BY <1>4, RunBeginShares, RunPollStutters, RunReleaseShares DEF RunStep
<1>5. ASSUME NEW o \in Object, ThreadStep(o)
      PROVE  [Shared!Next]_Shared!vars
  BY <1>5, ThreadAddRefShares, ThreadStutters, ThreadRemoveRefShares
  DEF ThreadStep
<1>6. ASSUME NEW p \in Process, Destroy(p)
      PROVE  [Shared!Next]_Shared!vars
  BY <1>6, DestroyClientShares, DestroyServerShares DEF Destroy
<1>7. CASE \/ ServerOpen \/ ServerTest \/ ServerReject \/ ServerAcceptFails
           \/ \E c \in Clients : ServerAccept(c)
  BY <1>7, ServerStutters
<1>8. CASE NewClient
  BY <1>8, NewClientShares
<1>9. ASSUME NEW c \in Clients,
             ClientReceive(c) \/ ClientReply(c) \/ ClientLeave(c)
      PROVE  [Shared!Next]_Shared!vars
  BY <1>9, ClientStutters
<1>10. CASE UNCHANGED vars
  <2>1. \A x \in Owner : Owns(x, Server)' <=> Owns(x, Server)
    BY <1>10 DEF vars, Owner, Owns, CreatorOwns, RunOwns, ThreadOwns, Target
  <2>2. QED
    BY <1>10, <2>1, Stutters DEF vars
<1>11. QED
  BY <1>1, <1>2, <1>3, <1>4, <1>5, <1>6, <1>7, <1>8, <1>9, <1>10 DEF Next

(* JCThread's reference count implements the promise of a shared object:   *)
(* for the server, every step of every thread creates it, shares it, lets  *)
(* it go, destroys it without an owner left, or leaves it alone.           *)
THEOREM ServerIsSharedHolds == Spec => ServerIsShared
<1>1. Init => Shared!Init
  <2> SUFFICES ASSUME Init PROVE Shared!Init
    OBVIOUS
  <2>1. \A x \in Owner : ~Owns(x, Server)
    BY ClientsAssumption
    DEF Init, Owner, Owns, CreatorOwns, RunOwns, ThreadOwns, Target
  <2>2. Owners(Server) = {}
    BY <2>1 DEF Owners
  <2>3. QED
    BY <2>2 DEF Init, Shared!Init
<1>2. QED
  BY <1>1, StepShares, Invariance, PTL DEF Spec, Shared!Spec, ServerIsShared

-----------------------------------------------------------------------------
(* What a stopped service leaves to the accept loop: the thread is marked  *)
(* to stop and its socket, if it has one by then, is closed.               *)
Stopped == {"close", "unref", "destroyServer", "done"}

StopInv ==
  /\ pc[Server] \in Busy \cup {"test", "accept", "construct"} =>
       sock # "none"
  /\ pc[Main] \in Stopped => state[Server] = "Stopped"
  /\ pc[Main] \in Stopped \ {"close"} =>
       sock = "closed" \/ pc[Server] # "accept"

(* At first nothing has been stopped.                                      *)
LEMMA InitStopInv == Init => StopInv
  BY ClientsAssumption DEF Init, StopInv, Stopped, Busy

(* Steps after which the processes main and server are at the same labels, *)
(* or have gone on where the invariant asks nothing.                       *)
LEMMA StopInvStep == IInv /\ StopInv /\ [Next]_vars => StopInv'
<1> SUFFICES ASSUME IInv, StopInv, [Next]_vars PROVE StopInv'
  OBVIOUS
<1> USE ClientsAssumption DEF StopInv, Stopped, Busy, Goto
<1>1. CASE NewServer
  BY <1>1 DEF NewServer, IInv, TypeOK
<1>2. CASE ServiceQuit
  BY <1>2 DEF ServiceQuit, IInv, TypeOK
<1>3. CASE MainStop
  <2>1. CASE StopServer
    BY <2>1 DEF StopServer, IInv, TypeOK
  <2>2. CASE CloseServer
    BY <2>2 DEF CloseServer, IInv, TypeOK
  <2>3. CASE ReleaseServer
    BY <2>3 DEF ReleaseServer, RemoveRef, IInv, TypeOK
  <2>4. QED
    BY <1>3, <2>1, <2>2, <2>3 DEF MainStop
<1>4. ASSUME NEW p \in Starter, RunStep(p) PROVE StopInv'
  <2>1. CASE RunBegin(p)
    <3>1. CASE p = Main
      BY <2>1, <3>1 DEF RunBegin, Target, IInv, TypeOK, StartInv
    <3>2. CASE p = Server
      BY <2>1, <3>2 DEF RunBegin, Target, IInv, TypeOK, StartInv
    <3>3. QED
      BY <3>1, <3>2
  <2>2. CASE RunPoll(p)
    BY <2>2 DEF RunPoll, IInv, TypeOK
  <2>3. CASE RunRelease(p)
    <3>1. CASE p = Main
      <4>1. /\ Owns("creator", Server) /\ "creator" \in Owner
            /\ Owns("run", Server) /\ "run" \in Owner
        BY <2>3, <3>1 DEF RunRelease, Owner, Owns, CreatorOwns, RunOwns, Target
      <4>2. refCount[Server] # 1
        BY <4>1, CountTwo DEF IInv
      <4>3. QED
        BY <2>3, <3>1, <4>2 DEF RunRelease, RemoveRef, Target, IInv, TypeOK
    <3>2. CASE p = Server
      BY <2>3, <3>2
      DEF RunRelease, RemoveRef, Destroyer, Target, IInv, TypeOK, StartInv
    <3>3. QED
      BY <3>1, <3>2
  <2>4. QED
    BY <1>4, <2>1, <2>2, <2>3 DEF RunStep
<1>5. ASSUME NEW o \in Object, ThreadStep(o) PROVE StopInv'
  BY <1>5
  DEF ThreadStep, ThreadAddRef, ThreadMark, ThreadStopSelf, ThreadRemoveRef,
      RemoveRef, Destroyer, IInv, TypeOK
<1>6. ASSUME NEW p \in Process, Destroy(p) PROVE StopInv'
  <2>1. CASE DestroyClient(p)
    BY <2>1 DEF DestroyClient, RemoveRef, IInv, TypeOK, MainLabel
  <2>2. CASE DestroyServer(p)
    BY <2>2 DEF DestroyServer, IInv, TypeOK
  <2>3. QED
    BY <1>6, <2>1, <2>2 DEF Destroy
<1>7. CASE ServerOpen
  BY <1>7 DEF ServerOpen, ServerCreate, ServerBind, ServerListen,
              SocketStep, IInv, TypeOK
<1>8. CASE ServerTest
  BY <1>8 DEF ServerTest, TestDestroy, IInv, TypeOK
<1>9. ASSUME NEW c \in Clients, ServerAccept(c) PROVE StopInv'
  BY <1>9 DEF ServerAccept, IInv, TypeOK
<1>10. CASE ServerReject \/ ServerAcceptFails
  BY <1>10 DEF ServerReject, ServerAcceptFails, IInv, TypeOK
<1>11. CASE NewClient
  BY <1>11 DEF NewClient, IInv, TypeOK
<1>12. ASSUME NEW c \in Clients,
              ClientReceive(c) \/ ClientReply(c) \/ ClientLeave(c)
       PROVE  StopInv'
  BY <1>12 DEF ClientReceive, ClientReply, ClientLeave, IInv, TypeOK
<1>13. CASE UNCHANGED vars
  BY <1>13 DEF vars
<1>14. QED
  BY <1>1, <1>2, <1>3, <1>4, <1>5, <1>6, <1>7, <1>8, <1>9, <1>10, <1>11,
     <1>12, <1>13 DEF Next

(* Only accept takes the server's thread to a new client, and only from a  *)
(* socket that listens.                                                    *)
LEMMA OnlyAcceptConstructs ==
  ASSUME IInv, [Next]_vars, pc'[Server] = "construct", pc[Server] # "construct"
  PROVE  pc[Server] = "accept" /\ sock = "listening"
<1> USE ClientsAssumption DEF Goto
<1>1. \A c \in Clients : ServerAccept(c) =>
        pc[Server] = "accept" /\ sock = "listening"
  BY DEF ServerAccept
<1>2. CASE NewServer \/ ServiceQuit \/ MainStop
  BY <1>2 DEF NewServer, ServiceQuit, MainStop, StopServer, CloseServer,
              ReleaseServer, RemoveRef, IInv, TypeOK
<1>3. ASSUME NEW p \in Starter, RunStep(p) PROVE FALSE
  <2>1. Target(p) \in Object
    BY DEF Target, IInv, TypeOK
  <2>2. QED
    BY <1>3, <2>1 DEF RunStep, RunBegin, RunPoll, RunRelease, RemoveRef,
                      Destroyer, IInv, TypeOK
<1>4. ASSUME NEW o \in Object, ThreadStep(o) PROVE FALSE
  BY <1>4 DEF ThreadStep, ThreadAddRef, ThreadMark, ThreadStopSelf,
              ThreadRemoveRef, RemoveRef, Destroyer, IInv, TypeOK
<1>5. ASSUME NEW p \in Process, Destroy(p) PROVE FALSE
  BY <1>5 DEF Destroy, DestroyClient, DestroyServer, RemoveRef, IInv, TypeOK
<1>6. CASE ServerOpen \/ ServerTest \/ ServerReject \/ ServerAcceptFails
           \/ NewClient
  BY <1>6 DEF ServerOpen, ServerCreate, ServerBind, ServerListen, SocketStep,
              ServerTest, ServerReject, ServerAcceptFails, NewClient, IInv,
              TypeOK
<1>7. ASSUME NEW c \in Clients,
             ClientReceive(c) \/ ClientReply(c) \/ ClientLeave(c)
      PROVE  FALSE
  BY <1>7 DEF ClientReceive, ClientReply, ClientLeave, IInv, TypeOK
<1>8. CASE UNCHANGED vars
  BY <1>8 DEF vars
<1>9. QED
  BY <1>1, <1>2, <1>3, <1>4, <1>5, <1>6, <1>7, <1>8 DEF Next

(* After MuninNodeServer::Stop no connection is accepted, however far the  *)
(* server's thread had come when it was called.                            *)
THEOREM NoAcceptAfterStopHolds == Spec => NoAcceptAfterStop
<1> DEFINE Step == pc[Main] \in {"unref", "done"} =>
                     pc'[Server] # "construct" \/ pc[Server] = "construct"
<1>1. IInv /\ StopInv /\ [Next]_vars => [Step]_vars
  <2> SUFFICES ASSUME IInv, StopInv, [Next]_vars PROVE Step
    OBVIOUS
  <2>1. ASSUME pc'[Server] = "construct", pc[Server] # "construct"
        PROVE  pc[Main] \notin {"unref", "done"}
    <3>1. pc[Server] = "accept" /\ sock = "listening"
      BY <2>1, OnlyAcceptConstructs
    <3>2. QED
      BY <3>1 DEF StopInv, Stopped
  <2>2. QED
    BY <2>1
<1>2. QED
  BY <1>1, InitStopInv, StopInvStep, Invariance, PTL
  DEF Spec, NoAcceptAfterStop
=============================================================================
