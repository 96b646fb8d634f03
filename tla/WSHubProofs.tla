------------------------------- MODULE WSHubProofs -------------------------------
(***************************************************************************)
(* Theorems about WSHub, for any connections, broadcasters and clients:    *)
(* what a client is sent is whole frames, and a connection that has been   *)
(* closed is forgotten.                                                    *)
(***************************************************************************)
EXTENDS WSHub, FiniteSetTheorems, SequenceTheorems, TLAPS

Places == {"none", "idle", "lock", "header", "data", "remove", "close", "read", "over"}

\* w stands at a write to To(w), or on its way to it or from it.
Aims(w) == at[w] \in {"header", "data", "remove", "close"}
Writing(w) == at[w] \in {"header", "data"}
Pieces == [by : Writers \cup {Free}, part : {"nothing", "101", "header", "data"}]

Types ==
  /\ at \in [Writers -> Places]
  /\ mutex \in [Conns -> Writers \cup {Free}]
  /\ closed \in [Conns -> BOOLEAN]
  /\ todo \in [Broadcasters -> Seq(Conns)]
  /\ stage \in [Conns -> 0..3]
  /\ clients \subseteq Conns
  /\ DOMAIN peer = Conns
  /\ last \in [Conns -> Pieces]

\* Who is written to has been added, and a broadcast aims at the head of its
\* list.
AimInv ==
  /\ \A b \in Broadcasters : Aims(b) => todo[b] # <<>>
  /\ \A b \in Broadcasters : \A k \in 1..Len(todo[b]) : stage[todo[b][k]] >= 2
  /\ \A c \in Conns : at[c] # "none" => stage[c] = 3
  /\ \A b \in Broadcasters : at[b] \notin {"none", "read"}

\* A connection leaves the set before it is closed, and is not added again.
ForgetInv ==
  /\ \A c \in clients : stage[c] >= 2
  /\ \A w \in Writers : at[w] = "close" => To(w) \notin clients
  /\ \A c \in Conns : closed[c] => c \notin clients /\ stage[c] >= 2

\* The mutex is held exactly by the one that writes.
MutexInv ==
  /\ \A w \in Writers : Writing(w) => mutex[To(w)] = w
  /\ \A w \in Writers : \A c \in Conns : mutex[c] = w => Writing(w) /\ To(w) = c

\* On a live connection the response comes first, and a header that waits for
\* its data is the last piece sent, by the broadcast that is about to send it.
FrameOf(c) ==
  /\ stage[c] = 0 => last[c] = Nothing
  /\ stage[c] > 0 /\ ~Dead(c) => last[c].part # "nothing"
  /\ ~Dead(c) => \A b \in Broadcasters :
       at[b] = "data" /\ To(b) = c <=> last[c] = [by |-> b, part |-> "header"]

FrameInv == \A c \in Conns : FrameOf(c)

HubInv == Types /\ AimInv /\ ForgetInv /\ MutexInv /\ FrameInv

\* Where a writer writes to is a connection that has been added.
LEMMA ToType ==
  ASSUME HubInv, NEW w \in Writers, w \in Conns \/ todo[w] # <<>>
  PROVE  /\ To(w) \in Conns
         /\ w \in Broadcasters \/ at[w] # "none" => stage[To(w)] >= 2
<1>1. CASE w \in Conns
  BY <1>1, HubAssumption DEF To, HubInv, AimInv, Types
<1>2. CASE w \notin Conns
  <2>1. w \in Broadcasters /\ todo[w] \in Seq(Conns) /\ todo[w] # <<>>
    BY <1>2 DEF Writers, HubInv, Types
  <2>2. Head(todo[w]) = todo[w][1] /\ 1 \in 1..Len(todo[w]) /\ todo[w][1] \in Conns
    BY <2>1
  <2>3. QED
    BY <1>2, <2>1, <2>2 DEF To, HubInv, AimInv
<1>3. QED
  BY <1>1, <1>2

\* What a step of w that moves it changes of the others: nothing.
LEMMA GotoMoves ==
  ASSUME HubInv, NEW w \in Writers, NEW a, NEW b \in Places, Goto(w, a, b)
  PROVE  /\ at[w] = a /\ at'[w] = b
         /\ \A v \in Writers \ {w} : at'[v] = at[v]
         /\ at' \in [Writers -> Places]
BY DEF Goto, HubInv, Types

LEMMA InitHub == Init => HubInv
<1> SUFFICES ASSUME Init PROVE HubInv
  OBVIOUS
<1>1. Types
  BY HubAssumption DEF Init, Types, Places, Pieces, Nothing, Writers
<1>2. AimInv /\ ForgetInv /\ MutexInv
  BY HubAssumption DEF Init, AimInv, ForgetInv, MutexInv, Aims, Writing, Writers
<1>3. FrameInv
  BY HubAssumption DEF Init, FrameInv, FrameOf, Nothing, Writers
<1>4. QED
  BY <1>1, <1>2, <1>3 DEF HubInv

-------------------------------------------------------------------------------
(* The steps *)

\* A step that changes only where one writer stands, between places at which
\* it holds no mutex and is not about to close.
LEMMA MoveKeeps ==
  ASSUME HubInv, NEW w \in Writers, NEW a, NEW b \in Places, Goto(w, a, b),
         a \notin {"header", "data"}, b \notin {"header", "data", "close"},
         w \in Broadcasters => b \notin {"none", "read"} /\ (b = "remove" => todo[w] # <<>>),
         w \in Conns => a # "none",
         UNCHANGED <<clients, closed, mutex, todo, stage, last>>,
         \A c \in Conns : Dead(c) => Dead(c)', DOMAIN peer' = Conns
  PROVE  HubInv'
<1>1. /\ at[w] = a /\ at'[w] = b
      /\ \A v \in Writers \ {w} : at'[v] = at[v]
      /\ at' \in [Writers -> Places]
  BY GotoMoves
<1>2. \A v \in Writers : To(v)' = To(v)
  BY DEF To
<1>3. Types' /\ AimInv'
  BY <1>1 DEF HubInv, Types, AimInv, Aims, Writers
<1>4. ForgetInv' /\ MutexInv'
  BY <1>1, <1>2 DEF HubInv, Types, ForgetInv, MutexInv, Writing
<1>5. FrameInv'
  <2>1. \A v \in Broadcasters : (at'[v] = "data") <=> (at[v] = "data")
    BY <1>1 DEF Writers
  <2>2. QED
    BY <1>2, <2>1 DEF HubInv, FrameInv, FrameOf, Writers
<1>6. QED
  BY <1>3, <1>4, <1>5 DEF HubInv

\* A client changes; a dead connection stays dead.
LEMMA ClientKeeps ==
  ASSUME HubInv, NEW c \in Conns, Client(c)
  PROVE  HubInv'
<1>1. UNCHANGED <<clients, closed, mutex, todo, stage, at, last>>
  BY DEF Client, hubVars, history
<1>2. \A d \in Conns : Dead(d) => Dead(d)'
  BY <1>1 DEF Client, Dead, HubInv, Types
<1>3. DOMAIN peer' = Conns
  BY DEF Client, HubInv, Types
<1>4. \A v \in Writers : To(v)' = To(v)
  BY <1>1 DEF To
<1>5. Types' /\ AimInv' /\ ForgetInv' /\ MutexInv'
  BY <1>1, <1>3, <1>4 DEF HubInv, Types, AimInv, ForgetInv, MutexInv, Aims, Writing
<1>6. FrameInv'
  BY <1>1, <1>2, <1>4 DEF HubInv, FrameInv, FrameOf, Writers
<1>7. QED
  BY <1>5, <1>6 DEF HubInv

\* A connection is added after its response and before its pump is started.
LEMMA UpgradeKeeps ==
  ASSUME HubInv, NEW c \in Conns, Upgrade(c)
  PROVE  HubInv'
<1>0. /\ UNCHANGED <<closed, mutex, todo, peer>>
      /\ stage[c] \in 0..2 /\ stage'[c] = stage[c] + 1
      /\ \A d \in Conns \ {c} : stage'[d] = stage[d]
      /\ stage' \in [Conns -> 0..3]
  BY DEF Upgrade, HubInv, Types
<1>1. \A d \in Conns : Dead(d)' <=> Dead(d)
  BY <1>0 DEF Dead
<1>2. \A v \in Writers : To(v)' = To(v)
  BY <1>0 DEF To
<1>a. \A d \in Conns : stage[d] >= 2 => stage'[d] >= 2 /\ (stage[d] = 3 => stage'[d] = 3)
  BY <1>0 DEF HubInv, Types
<1>b. ASSUME NEW b \in Broadcasters, NEW k \in 1..Len(todo[b])
      PROVE  todo[b][k] \in Conns
  <2>1. todo[b] \in Seq(Conns)
    BY DEF HubInv, Types
  <2>2. QED
    BY <2>1
<1>3. ASSUME NEW b \in Broadcasters, Aims(b)
      PROVE  To(b) \in Conns /\ stage[To(b)] >= 2
  BY <1>3, ToType DEF HubInv, AimInv, Writers
<1>4. CASE stage[c] = 0
  <2>1. /\ UNCHANGED <<clients, at>>
        /\ \/ ~Dead(c) /\ last' = [last EXCEPT ![c] = [by |-> c, part |-> "101"]]
           \/ Dead(c) /\ last' = last
    BY <1>4 DEF Upgrade, Order, Wrote
  <2>2. Types' /\ AimInv' /\ ForgetInv' /\ MutexInv'
    <3>1. last' \in [Conns -> Pieces]
      BY <2>1 DEF HubInv, Types, Pieces, Writers
    <3>2. Types' /\ MutexInv'
      BY <1>0, <1>2, <2>1, <3>1 DEF HubInv, Types, MutexInv, Writing
    <3>3. AimInv'
      BY <1>0, <1>a, <1>b, <2>1 DEF HubInv, AimInv, Aims
    <3>4. ForgetInv'
      BY <1>0, <1>2, <1>a, <2>1 DEF HubInv, Types, ForgetInv
    <3>5. QED
      BY <3>2, <3>3, <3>4
  <2>3. FrameInv'
    <3> SUFFICES ASSUME NEW d \in Conns PROVE FrameOf(d)'
      BY DEF FrameInv
    <3>1. CASE d # c
      BY <3>1, <1>0, <1>1, <1>2, <2>1 DEF HubInv, Types, FrameInv, FrameOf, Writers
    <3>2. CASE d = c
      <4>1. \A b \in Broadcasters : ~(at[b] = "data" /\ To(b) = c)
        BY <1>3, <1>4 DEF Aims
      <4>2. last'[c] = [by |-> c, part |-> "101"] \/ Dead(c)
        BY <2>1 DEF HubInv, Types
      <4>3. QED
        BY <3>2, <1>0, <1>1, <1>2, <2>1, <4>1, <4>2 DEF Writers, FrameOf
    <3>3. QED
      BY <3>1, <3>2
  <2>4. QED
    BY <2>2, <2>3 DEF HubInv
<1>5. CASE stage[c] \in {1, 2}
  <2>1. /\ last' = last
        /\ \/ stage[c] = 1 /\ clients' = clients \cup {c} /\ at' = at
           \/ stage[c] = 2 /\ clients' = clients /\ Goto(c, "none", "read")
    BY <1>5 DEF Upgrade, Order
  <2>2. /\ at' \in [Writers -> Places]
        /\ \A v \in Writers : at'[v] = at[v] \/ (v = c /\ stage[c] = 2 /\ at'[v] = "read")
    BY <2>1, GotoMoves DEF Writers, Places, HubInv, Types
  <2>3. \A b \in Broadcasters : at'[b] = at[b]
    BY <2>2, HubAssumption DEF Writers
  <2>4. Types' /\ AimInv'
    <3>1. Types'
      BY <1>0, <2>1, <2>2 DEF HubInv, Types
    <3>2. ASSUME NEW d \in Conns, at'[d] # "none" PROVE stage'[d] = 3
      BY <1>0, <1>a, <2>2, <3>2 DEF HubInv, Types, AimInv, Writers
    <3>3. QED
      BY <1>0, <1>a, <1>b, <2>3, <3>1, <3>2 DEF HubInv, AimInv, Aims
  <2>5. ForgetInv'
    <3>1. ASSUME NEW w \in Writers, at'[w] = "close" PROVE To(w) \notin clients'
      <4>1. at[w] = "close"
        BY <2>2, <3>1
      <4>2. To(w) \notin clients /\ (w \in Conns \/ todo[w] # <<>>)
        BY <4>1 DEF HubInv, ForgetInv, AimInv, Aims, Writers
      <4>3. stage[To(w)] >= 2
        BY <4>1, <4>2, ToType
      <4>4. QED
        BY <2>1, <4>2, <4>3
    <3>2. QED
      BY <1>0, <1>2, <2>1, <3>1 DEF HubInv, Types, ForgetInv
  <2>6. MutexInv'
    <3>1. \A v \in Writers : Writing(v)' <=> Writing(v)
      <4>1. CASE at' = at
        BY <4>1 DEF Writing
      <4>2. CASE Goto(c, "none", "read")
        BY <4>2, GotoMoves DEF Writing, Writers, Places
      <4>3. QED
        BY <2>1, <4>1, <4>2
    <3>2. QED
      BY <1>0, <1>2, <3>1 DEF HubInv, Types, MutexInv
  <2>7. FrameInv'
    BY <1>0, <1>1, <1>2, <1>5, <2>1, <2>3 DEF HubInv, Types, FrameInv, FrameOf, Writers
  <2>8. QED
    BY <2>4, <2>5, <2>6, <2>7 DEF HubInv
<1>6. QED
  BY <1>0, <1>4, <1>5

\* The copy of the clients that a broadcast goes through.
LEMMA CopyKeeps ==
  ASSUME HubInv, NEW b \in Broadcasters, Copy(b)
  PROVE  HubInv'
<1>0. /\ UNCHANGED <<clients, closed, mutex, stage, peer, last>>
      /\ Goto(b, "idle", "lock") /\ b \in Writers
  BY DEF Copy, Writers
<1>1. /\ at[b] = "idle" /\ at'[b] = "lock"
      /\ \A v \in Writers \ {b} : at'[v] = at[v]
      /\ at' \in [Writers -> Places]
  BY <1>0, GotoMoves DEF Places
<1>2. PICK order \in SetToSeqs(clients) : todo' = [todo EXCEPT ![b] = order]
  BY DEF Copy
<1>3. order \in Seq(clients)
  <2>1. Cardinality(clients) \in Nat
    BY HubAssumption, FS_Subset, FS_CardinalityType DEF HubInv, Types
  <2>2. order \in [1..Cardinality(clients) -> clients]
    BY DEF SetToSeqs
  <2>3. QED
    BY <2>1, <2>2
<1>4. /\ todo' \in [Broadcasters -> Seq(Conns)]
      /\ todo'[b] = order
      /\ \A v \in Broadcasters \ {b} : todo'[v] = todo[v]
  BY <1>2, <1>3 DEF HubInv, Types
<1>5. \A k \in 1..Len(order) : order[k] \in clients
  BY <1>3
<1>6. \A v \in Writers \ {b} : To(v)' = To(v)
  BY <1>4 DEF To, Writers
<1>7. Types' /\ AimInv'
  <2>1. Types'
    BY <1>0, <1>1, <1>4 DEF HubInv, Types
  <2>2. AimInv'
    <3>1. \A k \in 1..Len(order) : stage[order[k]] >= 2
      BY <1>5 DEF HubInv, ForgetInv
    <3>2. /\ ~Aims(b)' /\ at'[b] \notin {"none", "read"}
          /\ \A v \in Broadcasters \ {b} : /\ Aims(v)' <=> Aims(v)
                                           /\ at'[v] = at[v]
      BY <1>1 DEF Aims, Writers
    <3>3. \A c \in Conns : at'[c] = at[c]
      BY <1>1, HubAssumption DEF Writers
    <3>4. QED
      BY <1>0, <1>4, <3>1, <3>2, <3>3 DEF HubInv, AimInv
  <2>3. QED
    BY <2>1, <2>2
<1>8. ForgetInv' /\ MutexInv'
  <2>1. ForgetInv'
    BY <1>0, <1>1, <1>6 DEF HubInv, ForgetInv
  <2>2. ~Writing(b) /\ ~Writing(b)'
    BY <1>1 DEF Writing
  <2>3. \A v \in Writers \ {b} : Writing(v)' <=> Writing(v)
    BY <1>1 DEF Writing
  <2>4. MutexInv'
    BY <1>0, <1>6, <2>2, <2>3 DEF HubInv, MutexInv
  <2>5. QED
    BY <2>1, <2>4
<1>9. FrameInv'
  <2>1. \A c : Dead(c)' <=> Dead(c)
    BY <1>0 DEF Dead
  <2>2. QED
    BY <1>0, <1>1, <1>6, <2>1 DEF HubInv, FrameInv, FrameOf, Writers
<1>10. QED
  BY <1>7, <1>8, <1>9 DEF HubInv

\* The mutex is taken.
LEMMA LockKeeps ==
  ASSUME HubInv, NEW w \in Writers, Lock(w)
  PROVE  HubInv'
<1>0. /\ UNCHANGED <<clients, closed, todo, stage, peer, last>>
      /\ w \in Broadcasters => todo[w] # <<>>
      /\ mutex[To(w)] = Free /\ mutex' = [mutex EXCEPT ![To(w)] = w]
      /\ Goto(w, "lock", "header")
  BY DEF Lock, envVars, history
<1>1. /\ at[w] = "lock" /\ at'[w] = "header"
      /\ \A v \in Writers \ {w} : at'[v] = at[v]
      /\ at' \in [Writers -> Places]
  BY <1>0, GotoMoves DEF Places
<1>2. To(w) \in Conns
  BY <1>0, ToType DEF Writers
<1>3. \A v \in Writers : To(v)' = To(v)
  BY <1>0 DEF To
<1>4. /\ mutex' \in [Conns -> Writers \cup {Free}] /\ mutex'[To(w)] = w
      /\ \A c \in Conns \ {To(w)} : mutex'[c] = mutex[c]
  BY <1>0, <1>2 DEF HubInv, Types
<1>5. Types' /\ AimInv'
  BY <1>0, <1>1, <1>4 DEF HubInv, Types, AimInv, Aims, Writers
<1>6. ForgetInv'
  BY <1>0, <1>1, <1>3 DEF HubInv, ForgetInv
<1>7. MutexInv'
  <2>1. ASSUME NEW v \in Writers, Writing(v)' PROVE mutex'[To(v)] = v
    <3>1. CASE v = w
      BY <3>1, <1>4
    <3>2. CASE v # w
      <4>1. Writing(v) /\ mutex[To(v)] = v
        BY <2>1, <3>2, <1>1 DEF HubInv, MutexInv, Writing
      <4>2. To(v) \in Conns
        BY <4>1, ToType DEF Writing, HubInv, AimInv, Aims, Writers
      <4>3. To(v) # To(w)
        BY <4>1, <1>0, HubAssumption
      <4>4. QED
        BY <4>1, <4>2, <4>3, <1>4
    <3>3. QED
      BY <3>1, <3>2
  <2>2. ASSUME NEW v \in Writers, NEW c \in Conns, mutex'[c] = v
        PROVE  Writing(v)' /\ To(v) = c
    <3>1. CASE c = To(w)
      <4>1. v = w
        BY <2>2, <3>1, <1>4
      <4>2. QED
        BY <3>1, <4>1, <1>1 DEF Writing
    <3>2. CASE c # To(w)
      <4>1. mutex[c] = v
        BY <2>2, <3>2, <1>4
      <4>2. Writing(v) /\ To(v) = c /\ v # w
        BY <4>1, <3>2 DEF HubInv, MutexInv
      <4>3. QED
        BY <4>2, <1>1 DEF Writing
    <3>3. QED
      BY <3>1, <3>2
  <2>3. QED
    BY <2>1, <2>2, <1>3 DEF MutexInv
<1>8. FrameInv'
  <2>1. \A c : Dead(c)' <=> Dead(c)
    BY <1>0 DEF Dead
  <2>2. QED
    BY <1>0, <1>1, <1>3, <2>1 DEF HubInv, FrameInv, FrameOf, Writers
<1>9. QED
  BY <1>5, <1>6, <1>7, <1>8 DEF HubInv

\* One that writes lets go of the mutex, whatever it does next.
LEMMA UnlockKeeps ==
  ASSUME HubInv, NEW w \in Writers, Writing(w), mutex' = Unlock(w),
         at'[w] \notin {"header", "data"},
         \A v \in Writers \ {w} : at'[v] = at[v] /\ To(v)' = To(v)
  PROVE  MutexInv' /\ mutex' \in [Conns -> Writers \cup {Free}]
<1>1. To(w) \in Conns /\ mutex[To(w)] = w
  BY ToType DEF HubInv, MutexInv, Writing, AimInv, Aims, Writers
<1>2. /\ mutex' \in [Conns -> Writers \cup {Free}] /\ mutex'[To(w)] = Free
      /\ \A c \in Conns \ {To(w)} : mutex'[c] = mutex[c]
  BY <1>1 DEF Unlock, HubInv, Types
<1>3. ASSUME NEW v \in Writers, Writing(v)' PROVE mutex'[To(v)'] = v
  <2>1. v # w /\ Writing(v) /\ mutex[To(v)] = v
    BY <1>3 DEF HubInv, MutexInv, Writing
  <2>2. To(v) \in Conns
    BY <2>1, ToType DEF Writing, HubInv, AimInv, Aims, Writers
  <2>3. QED
    BY <2>1, <2>2, <1>1, <1>2
<1>4. ASSUME NEW v \in Writers, NEW c \in Conns, mutex'[c] = v
      PROVE  Writing(v)' /\ To(v)' = c
  <2>1. c # To(w) /\ mutex[c] = v
    BY <1>2, <1>4, HubAssumption
  <2>2. Writing(v) /\ To(v) = c /\ v # w
    BY <2>1 DEF HubInv, MutexInv
  <2>3. QED
    BY <2>2 DEF Writing
<1>5. QED
  BY <1>2, <1>3, <1>4 DEF MutexInv

\* Two that write at the same time write to different connections.
LEMMA OneWriter ==
  ASSUME HubInv, NEW w \in Writers, NEW v \in Writers, Writing(w), Writing(v), v # w
  PROVE  To(v) # To(w)
BY DEF HubInv, MutexInv

\* The rest of a list that a broadcast goes through.
LEMMA RestOfList ==
  ASSUME HubInv, NEW b \in Broadcasters, todo[b] # <<>>,
         todo' = [todo EXCEPT ![b] = Tail(@)], stage' = stage
  PROVE  /\ todo' \in [Broadcasters -> Seq(Conns)]
         /\ \A a \in Broadcasters \ {b} : todo'[a] = todo[a]
         /\ \A a \in Broadcasters : \A k \in 1..Len(todo'[a]) : stage'[todo'[a][k]] >= 2
<1>1. todo[b] \in Seq(Conns)
  BY DEF HubInv, Types
<1>2. todo' \in [Broadcasters -> Seq(Conns)] /\ todo'[b] = Tail(todo[b])
  BY <1>1 DEF HubInv, Types
<1>3. \A a \in Broadcasters \ {b} : todo'[a] = todo[a]
  BY DEF HubInv, Types
<1>4. ASSUME NEW k \in 1..Len(todo'[b]) PROVE stage'[todo'[b][k]] >= 2
  <2>1. k + 1 \in 1..Len(todo[b]) /\ todo'[b][k] = todo[b][k + 1]
    BY <1>1, <1>2, <1>4
  <2>2. QED
    BY <2>1 DEF HubInv, AimInv
<1>5. QED
  BY <1>2, <1>3, <1>4 DEF HubInv, AimInv

\* A piece is written or fails; the header of a pong and the data let go of the
\* mutex, and so does every failure.
LEMMA WriteKeeps ==
  ASSUME HubInv, NEW w \in Writers, Header(w) \/ (w \in Broadcasters /\ Data(w))
  PROVE  HubInv'
<1> DEFINE c == To(w)
<1>0. UNCHANGED <<clients, closed, stage, peer>>
  BY DEF Header, Data, envVars
<1>1. Writing(w) /\ Aims(w)
  BY DEF Header, Data, Fails, Goto, Writing, Aims
<1>2. c \in Conns /\ stage[c] >= 2
  <2>1. w \in Conns \/ todo[w] # <<>>
    BY <1>1 DEF HubInv, AimInv, Writers
  <2>2. QED
    BY <1>1, <2>1, ToType DEF Writing
<1>3. \A d : Dead(d)' <=> Dead(d)
  BY <1>0 DEF Dead
<1>4. PICK q \in Places \ {"header", "close", "none"} :
        /\ at' = [at EXCEPT ![w] = q]
        /\ w \in Broadcasters => q # "read" /\ (q = "remove" => todo' = todo)
        /\ \/ mutex' = Unlock(w) /\ q # "data"
           \/ mutex' = mutex /\ q = "data"
        /\ \/ Dead(c) /\ q # "data" /\ UNCHANGED <<todo, last>>
           \/ /\ ~Dead(c) /\ todo' = todo
              /\ last' = [last EXCEPT ![c] = [by |-> w, part |-> "header"]]
              /\ q = IF w \in Conns THEN "read" ELSE "data"
           \/ /\ ~Dead(c) /\ w \in Broadcasters /\ todo' = [todo EXCEPT ![w] = Tail(@)]
              /\ last' = [last EXCEPT ![c] = [by |-> w, part |-> "data"]]
              /\ q = "lock"
  <2>1. CASE Header(w)
    BY <2>1, HubAssumption DEF Header, Fails, Goto, Wrote, Places, history, Writers
  <2>2. CASE w \in Broadcasters /\ Data(w)
    BY <2>2, HubAssumption DEF Data, Fails, Goto, Wrote, Places, history, Writers
  <2>3. QED
    BY <2>1, <2>2
<1>5. /\ at' \in [Writers -> Places] /\ at'[w] = q
      /\ \A v \in Writers \ {w} : at'[v] = at[v]
  BY <1>4 DEF HubInv, Types
<1>6. /\ todo' \in [Broadcasters -> Seq(Conns)]
      /\ \A b \in Broadcasters \ {w} : todo'[b] = todo[b]
      /\ \A b \in Broadcasters : \A k \in 1..Len(todo'[b]) : stage'[todo'[b][k]] >= 2
  <2>1. CASE todo' = todo
    BY <1>0, <2>1 DEF HubInv, Types, AimInv
  <2>2. CASE w \in Broadcasters /\ todo' = [todo EXCEPT ![w] = Tail(@)]
    <3>1. todo[w] # <<>>
      BY <1>1, <2>2 DEF HubInv, AimInv
    <3>2. QED
      BY <1>0, <2>2, <3>1, RestOfList
  <2>3. QED
    BY <1>4, <2>1, <2>2
<1>7. \A v \in Writers \ {w} : To(v)' = To(v)
  BY <1>6 DEF To, Writers
<1>8. MutexInv' /\ mutex' \in [Conns -> Writers \cup {Free}]
  <2>1. CASE mutex' = Unlock(w) /\ q # "data"
    BY <1>1, <1>4, <1>5, <1>7, <2>1, UnlockKeeps
  <2>2. CASE mutex' = mutex /\ q = "data"
    <3>1. todo' = todo
      BY <1>4, <2>2
    <3>2. \A v \in Writers : To(v)' = To(v) /\ (Writing(v)' <=> Writing(v))
      BY <1>1, <1>5, <2>2, <3>1 DEF To, Writing
    <3>3. QED
      BY <2>2, <3>2 DEF HubInv, Types, MutexInv
  <2>3. QED
    BY <1>4, <2>1, <2>2
<1>9. Types'
  <2>1. last' \in [Conns -> Pieces]
    <3>1. \A part \in {"header", "data"} : [by |-> w, part |-> part] \in Pieces
      BY DEF Pieces
    <3>2. \/ last' = last
          \/ \E part \in {"header", "data"} : last' = [last EXCEPT ![c] = [by |-> w, part |-> part]]
      BY <1>4
    <3>3. QED
      BY <3>1, <3>2 DEF HubInv, Types
  <2>2. QED
    BY <1>0, <1>5, <1>6, <1>8, <2>1 DEF HubInv, Types
<1>10. AimInv'
  <2>1. ASSUME NEW b \in Broadcasters, Aims(b)' PROVE todo'[b] # <<>>
    <3>1. CASE b = w
      <4>1. q \in {"data", "remove"} /\ todo[w] # <<>>
        BY <1>1, <1>4, <1>5, <2>1, <3>1 DEF Aims, HubInv, AimInv
      <4>2. todo' = todo
        BY <1>4, <3>1, <4>1
      <4>3. QED
        BY <3>1, <4>1, <4>2
    <3>2. CASE b # w
      BY <1>5, <1>6, <2>1, <3>2 DEF Aims, HubInv, AimInv, Writers
    <3>3. QED
      BY <3>1, <3>2
  <2>2. ASSUME NEW d \in Conns, at'[d] # "none" PROVE stage'[d] = 3
    BY <1>0, <1>1, <1>5, <2>2 DEF HubInv, AimInv, Writers, Aims
  <2>3. ASSUME NEW b \in Broadcasters PROVE at'[b] \notin {"none", "read"}
    BY <1>4, <1>5 DEF HubInv, AimInv, Writers
  <2>4. QED
    BY <1>6, <2>1, <2>2, <2>3 DEF AimInv
<1>11. ForgetInv'
  BY <1>0, <1>4, <1>5, <1>7 DEF HubInv, ForgetInv
<1>12. FrameInv'
  <2> SUFFICES ASSUME NEW d \in Conns PROVE FrameOf(d)'
    BY DEF FrameInv
  <2>1. FrameOf(d)
    BY DEF HubInv, FrameInv
  <2>2. CASE d # c
    <3>1. last'[d] = last[d]
      BY <1>4, <2>2 DEF HubInv, Types
    <3>2. ASSUME NEW b \in Broadcasters
          PROVE  (at'[b] = "data" /\ To(b)' = d) <=> (at[b] = "data" /\ To(b) = d)
      <4>1. CASE b # w
        BY <4>1, <1>5, <1>7 DEF Writers
      <4>2. CASE b = w
        <5>1. CASE todo' = todo
          BY <2>2, <4>2, <5>1 DEF To
        <5>2. CASE todo' # todo
          BY <1>4, <1>5, <2>2, <4>2, <5>2
        <5>3. QED
          BY <5>1, <5>2
      <4>3. QED
        BY <4>1, <4>2
    <3>3. QED
      BY <1>0, <1>3, <2>1, <3>1, <3>2 DEF FrameOf
  <2>3. CASE d = c
    <3>1. ASSUME NEW b \in Broadcasters, b # w
          PROVE  ~(at'[b] = "data" /\ To(b)' = c)
      BY <1>1, <1>5, <1>7, <3>1, OneWriter DEF Writers, Writing
    <3>2. CASE Dead(c) /\ last' = last
      BY <1>0, <1>2, <1>3, <2>1, <2>3, <3>2 DEF FrameOf
    <3>3. CASE /\ ~Dead(c) /\ todo' = todo
               /\ last' = [last EXCEPT ![c] = [by |-> w, part |-> "header"]]
               /\ q = IF w \in Conns THEN "read" ELSE "data"
      <4>1. last'[c] = [by |-> w, part |-> "header"]
        BY <1>2, <3>3 DEF HubInv, Types
      <4>2. To(w)' = c
        BY <3>3 DEF To
      <4>3. w \in Broadcasters => at'[w] = "data"
        BY <1>5, <3>3, HubAssumption
      <4>4. QED
        BY <1>0, <1>2, <2>3, <3>1, <4>1, <4>2, <4>3 DEF FrameOf
    <3>4. CASE /\ ~Dead(c) /\ q = "lock"
               /\ last' = [last EXCEPT ![c] = [by |-> w, part |-> "data"]]
      <4>1. last'[c] = [by |-> w, part |-> "data"]
        BY <1>2, <3>4 DEF HubInv, Types
      <4>2. QED
        BY <1>0, <1>2, <1>5, <2>3, <3>1, <3>4, <4>1 DEF FrameOf
    <3>5. QED
      BY <1>4, <3>2, <3>3, <3>4
  <2>4. QED
    BY <2>2, <2>3
<1>13. QED
  BY <1>8, <1>9, <1>10, <1>11, <1>12 DEF HubInv

\* A step at which only w moves, away from a removal, and no piece is written.
LEMMA RemoveKeeps ==
  ASSUME HubInv, NEW w \in Writers, Forget(w) \/ Close(w)
  PROVE  HubInv'
<1> DEFINE c == To(w)
<1>1. Aims(w) /\ ~Writing(w)
  BY DEF Forget, Close, Goto, Writing, Aims
<1>2. w \in Conns \/ todo[w] # <<>>
  BY <1>1 DEF HubInv, AimInv, Writers
<1>3. c \in Conns /\ stage[c] >= 2
  BY <1>1, <1>2, ToType DEF Aims
<1>4. /\ UNCHANGED <<mutex, stage, peer, last>>
      /\ Goto(w, "remove", "close") \/ Goto(w, "close", AfterClose(w))
  BY DEF Forget, Close, envVars, history
<1>5. /\ at' \in [Writers -> Places]
      /\ \A v \in Writers \ {w} : at'[v] = at[v]
      /\ at'[w] = "close" \/ at'[w] = AfterClose(w)
  <2>1. "close" \in Places /\ AfterClose(w) \in Places
    BY DEF Places, AfterClose
  <2>2. QED
    BY <1>4, <2>1, GotoMoves
<1>6. ~Writing(w)' /\ at[w] # "none" /\ (w \in Broadcasters => at'[w] \in {"close", "lock"})
  BY <1>1, <1>5, HubAssumption DEF Writing, AfterClose, Aims
<1>7. /\ todo' \in [Broadcasters -> Seq(Conns)]
      /\ \A b \in Broadcasters \ {w} : todo'[b] = todo[b]
      /\ \A b \in Broadcasters : \A k \in 1..Len(todo'[b]) : stage'[todo'[b][k]] >= 2
      /\ w \in Broadcasters /\ at'[w] = "close" => todo'[w] # <<>>
  <2>1. CASE todo' = todo
    BY <1>2, <1>4, <2>1, HubAssumption DEF HubInv, Types, AimInv
  <2>2. CASE w \in Broadcasters /\ todo' = [todo EXCEPT ![w] = Tail(@)] /\ Close(w)
    <3>1. at'[w] # "close"
      BY <1>5, <2>2, GotoMoves DEF Close, AfterClose, Places
    <3>2. todo[w] # <<>>
      BY <1>1, <2>2 DEF HubInv, AimInv
    <3>3. QED
      BY <1>4, <2>2, <3>1, <3>2, RestOfList
  <2>3. QED
    BY <2>1, <2>2 DEF Forget, Close, Writers
<1>8. \A v \in Writers \ {w} : To(v)' = To(v)
  BY <1>7 DEF To, Writers
<1>9. clients' \subseteq clients /\ closed' \in [Conns -> BOOLEAN]
  BY DEF Forget, Close, HubInv, Types
<1>10. Types'
  BY <1>4, <1>5, <1>7, <1>9 DEF HubInv, Types
<1>11. AimInv'
  <2>1. \A d \in Conns : at'[d] # "none" => stage'[d] = 3
    BY <1>4, <1>5, <1>6 DEF HubInv, AimInv, Writers
  <2>2. \A b \in Broadcasters : Aims(b)' => todo'[b] # <<>>
    BY <1>5, <1>6, <1>7 DEF HubInv, AimInv, Aims, Writers
  <2>3. \A b \in Broadcasters : at'[b] \notin {"none", "read"}
    BY <1>5, <1>6 DEF HubInv, AimInv, Writers
  <2>4. QED
    BY <1>7, <2>1, <2>2, <2>3 DEF AimInv
<1>12. ForgetInv'
  <2>1. CASE Forget(w)
    <3>1. clients' = clients \ {c} /\ UNCHANGED <<closed, todo>>
      BY <2>1 DEF Forget
    <3>2. \A v \in Writers : To(v)' = To(v)
      BY <3>1 DEF To
    <3>3. QED
      BY <1>4, <1>5, <3>1, <3>2 DEF HubInv, ForgetInv
  <2>2. CASE Close(w)
    <3>1. /\ clients' = clients /\ c \notin clients
          /\ closed' = [closed EXCEPT ![c] = TRUE]
          /\ at'[w] # "close"
      BY <2>2, GotoMoves DEF Close, Goto, AfterClose, Places, HubInv, ForgetInv
    <3>2. \A d \in Conns : closed'[d] => closed[d] \/ d = c
      BY <3>1 DEF HubInv, Types
    <3>3. QED
      BY <1>3, <1>4, <1>5, <1>8, <3>1, <3>2 DEF HubInv, ForgetInv
  <2>3. QED
    BY <2>1, <2>2
<1>13. MutexInv'
  <2>1. \A v \in Writers \ {w} : Writing(v)' <=> Writing(v)
    BY <1>5 DEF Writing
  <2>2. QED
    BY <1>1, <1>4, <1>6, <1>8, <2>1 DEF HubInv, MutexInv
<1>14. FrameInv'
  <2>1. \A d \in Conns : Dead(d) => Dead(d)'
    BY <1>3, <1>4 DEF Forget, Close, Dead, HubInv, Types
  <2>2. \A b \in Broadcasters : \A d :
          (at'[b] = "data" /\ To(b)' = d) <=> (at[b] = "data" /\ To(b) = d)
    BY <1>1, <1>5, <1>6, <1>8 DEF Writing, Writers
  <2>3. QED
    BY <1>4, <2>1, <2>2 DEF HubInv, FrameInv, FrameOf
<1>15. QED
  BY <1>10, <1>11, <1>12, <1>13, <1>14 DEF HubInv

-------------------------------------------------------------------------------
(* The theorems *)

LEMMA HubInductive == Spec => []HubInv
<1>1. HubInv /\ [Next]_vars => HubInv'
  <2> SUFFICES ASSUME HubInv, [Next]_vars PROVE HubInv'
    OBVIOUS
  <2>1. ASSUME NEW c \in Conns, Upgrade(c) \/ Client(c) PROVE HubInv'
    BY <2>1, UpgradeKeeps, ClientKeeps
  <2>2. ASSUME NEW c \in Conns, ReadPing(c) \/ ReadEnds(c) PROVE HubInv'
    <3>1. /\ UNCHANGED <<clients, closed, mutex, todo, stage, peer, last>>
          /\ Goto(c, "read", "lock") \/ Goto(c, "read", "remove")
      BY <2>2 DEF ReadPing, ReadEnds, hubVars, envVars, history
    <3>2. \A d : Dead(d) => Dead(d)'
      BY <3>1 DEF Dead
    <3>3. c \in Writers /\ c \notin Broadcasters /\ DOMAIN peer' = Conns
      BY <3>1, HubAssumption DEF Writers, HubInv, Types
    <3>4. {"lock", "remove"} \subseteq Places
      BY DEF Places
    <3>5. QED
      BY <3>1, <3>2, <3>3, <3>4, MoveKeeps
  <2>3. ASSUME NEW b \in Broadcasters, EndBroadcast(b) PROVE HubInv'
    <3>1. /\ UNCHANGED <<clients, closed, mutex, todo, stage, peer, last>>
          /\ Goto(b, "lock", "idle")
      BY <2>3 DEF EndBroadcast, hubVars, envVars, history
    <3>2. \A d : Dead(d) => Dead(d)'
      BY <3>1 DEF Dead
    <3>3. b \in Writers /\ b \notin Conns /\ DOMAIN peer' = Conns /\ "idle" \in Places
      BY <3>1, HubAssumption DEF Writers, HubInv, Types, Places
    <3>4. QED
      BY <3>1, <3>2, <3>3, MoveKeeps
  <2>4. ASSUME NEW b \in Broadcasters, Copy(b) \/ Data(b) PROVE HubInv'
    BY <2>4, CopyKeeps, WriteKeeps DEF Writers
  <2>5. ASSUME NEW w \in Writers, Lock(w) \/ Header(w) \/ Forget(w) \/ Close(w)
        PROVE  HubInv'
    BY <2>5, LockKeeps, WriteKeeps, RemoveKeeps
  <2>6. CASE UNCHANGED vars
    BY <2>6 DEF vars, hubVars, envVars, history, HubInv, Types, AimInv, ForgetInv,
       MutexInv, FrameInv, FrameOf, Aims, Writing, To, Dead
  <2>7. QED
    BY <2>1, <2>2, <2>3, <2>4, <2>5, <2>6 DEF Next
<1>2. QED
  BY <1>1, InitHub, PTL DEF Spec

\* The mutexes of the connections are held exactly by those that write.
THEOREM HubTyping == Spec => []TypeOK
<1>1. HubInv => TypeOK
  <2> SUFFICES ASSUME HubInv PROVE TypeOK
    OBVIOUS
  <2>1. ASSUME NEW c \in Conns, mutex[c] # Free PROVE at[mutex[c]] \in {"header", "data"}
    BY <2>1 DEF HubInv, Types, MutexInv, Writing
  <2>2. QED
    BY <2>1 DEF HubInv, Types, MutexInv, Writing, Places, TypeOK
<1>2. QED
  BY <1>1, HubInductive, PTL

\* A connection that the server has closed is in no later broadcast, however
\* many broadcasts and pumps remove it and in whatever order (ws.go:96-142).
THEOREM ClosedStaysForgotten == Spec => []ClosedIsForgotten
<1>1. HubInv => ClosedIsForgotten
  BY DEF HubInv, ForgetInv, ClosedIsForgotten
<1>2. QED
  BY <1>1, HubInductive, PTL

\* Clients are sent whole frames, by any number of broadcasts and pumps
\* (ws.go:146-158, 246-253).
THEOREM WholeFrames == Spec => FramesWhole
<1>1. ASSUME HubInv, [Next]_vars
      PROVE  [\A c \in Conns : last'[c] # last[c] => Follows(last[c], last'[c])]_vars
  <2> SUFFICES ASSUME NEW c \in Conns, last'[c] # last[c]
               PROVE  Follows(last[c], last'[c])
    OBVIOUS
  <2>0. FrameOf(c) /\ last \in [Conns -> Pieces]
    BY <1>1 DEF HubInv, FrameInv, Types
  <2>1. CASE \E d \in Conns : Upgrade(d)
    <3>1. PICK d \in Conns : Upgrade(d)
      BY <2>1
    <3>2. /\ stage[d] = 0 /\ last' = [last EXCEPT ![d] = [by |-> d, part |-> "101"]]
      BY <1>1, <3>1 DEF Upgrade, Order, Wrote, HubInv, Types
    <3>3. d = c /\ last[c] = Nothing /\ last'[c] = [by |-> c, part |-> "101"]
      BY <2>0, <3>2 DEF FrameOf
    <3>4. QED
      BY <3>3 DEF Follows, Nothing
  <2>2. CASE \E w \in Writers : Header(w) \/ (w \in Broadcasters /\ Data(w))
    <3>1. PICK w \in Writers : Header(w) \/ (w \in Broadcasters /\ Data(w))
      BY <2>2
    <3>2. PICK p \in {"header", "data"} :
            /\ at[w] = p /\ ~Dead(To(w)) /\ (p = "data" => w \in Broadcasters)
            /\ last' = [last EXCEPT ![To(w)] = [by |-> w, part |-> p]]
      BY <3>1 DEF Header, Data, Fails, Goto, Wrote, history
    <3>3. To(w) = c /\ last'[c] = [by |-> w, part |-> p]
      BY <2>0, <3>2
    <3>4. stage[c] > 0
      <4>1. w \in Conns \/ todo[w] # <<>>
        BY <1>1, <3>2 DEF HubInv, AimInv, Aims, Writers
      <4>2. stage[c] >= 2 /\ stage[c] \in 0..3
        BY <1>1, <3>2, <3>3, <4>1, ToType DEF HubInv, Types
      <4>3. QED
        BY <4>2
    <3>5. last[c].part # "nothing"
      BY <2>0, <3>2, <3>3, <3>4 DEF FrameOf
    <3>6. last[c].part = "header" /\ last[c].by \in Broadcasters
            <=> p = "data"
      <4>1. CASE p = "data"
        BY <2>0, <3>2, <3>3, <4>1 DEF FrameOf
      <4>2. ASSUME p = "header", NEW b \in Broadcasters,
                   last[c].part = "header", last[c].by = b
            PROVE  FALSE
        <5>0. last[c] = [by |-> b, part |-> "header"]
          BY <2>0, <4>2 DEF Pieces
        <5>1. at[b] = "data" /\ To(b) = c
          BY <2>0, <3>2, <3>3, <5>0 DEF FrameOf
        <5>2. QED
          BY <1>1, <3>2, <3>3, <4>2, <5>1, OneWriter DEF Writing, Writers
      <4>3. QED
        BY <4>1, <4>2, <3>2
    <3>7. p = "data" => last[c].by = w
      BY <2>0, <3>2, <3>3 DEF FrameOf
    <3>8. QED
      BY <3>2, <3>3, <3>5, <3>6, <3>7 DEF Follows, Nothing
  <2>3. CASE /\ ~\E d \in Conns : Upgrade(d)
             /\ ~\E w \in Writers : Header(w) \/ (w \in Broadcasters /\ Data(w))
    BY <1>1, <2>3 DEF Next, Writers, ReadPing, ReadEnds, Client, Copy, EndBroadcast, Lock,
       Forget, Close, history, vars
  <2>4. QED
    BY <2>1, <2>2, <2>3
<1>2. QED
  BY <1>1, HubInductive, PTL DEF Spec, FramesWhole
-------------------------------------------------------------------------------
(* What each client of a broadcast is sent *)

\* The clients that b has copied are those still in its list, each once and
\* sent nothing, and those done with, which have their frame or are dead.
SentOf(b) ==
  /\ DOMAIN sent[b] \subseteq Conns
  /\ sent[b] \in [DOMAIN sent[b] -> Nat]
  /\ \A k \in 1..Len(todo[b]) : todo[b][k] \in DOMAIN sent[b] /\ sent[b][todo[b][k]] = 0
  /\ \A i, k \in 1..Len(todo[b]) : i # k => todo[b][i] # todo[b][k]
  /\ \A c \in DOMAIN sent[b] :
       (\E k \in 1..Len(todo[b]) : todo[b][k] = c) \/ Dead(c) \/ sent[b][c] = 1
  /\ at[b] = "idle" => todo[b] = <<>>

SentInv ==
  /\ sent = [b \in Broadcasters |-> sent[b]]
  /\ \A b \in Broadcasters : SentOf(b)

LEMMA InitSent == Init => SentInv
<1> SUFFICES ASSUME Init PROVE SentInv
  OBVIOUS
<1>1. sent = [b \in Broadcasters |-> <<>>]
  BY DEF Init
<1>2. ASSUME NEW b \in Broadcasters
      PROVE  SentOf(b)
  <2>1. todo[b] = <<>> /\ sent[b] = <<>> /\ DOMAIN sent[b] = {}
    BY <1>1 DEF Init
  <2>2. sent[b] \in [DOMAIN sent[b] -> Nat]
    BY <2>1
  <2>3. QED
    BY <2>1, <2>2 DEF SentOf
<1>3. QED
  BY <1>1, <1>2 DEF SentInv

\* A broadcast keeps its part while its list and its counts stay and no dead
\* connection comes back to life.
LEMMA SentKept ==
  ASSUME NEW b \in Broadcasters, SentOf(b), todo'[b] = todo[b], sent'[b] = sent[b],
         \A c \in Conns : Dead(c) => Dead(c)', at'[b] = "idle" => todo[b] = <<>>
  PROVE  SentOf(b)'
BY DEF SentOf

\* A copy takes each client once.
LEMMA CopySent ==
  ASSUME HubInv, SentInv, NEW b \in Broadcasters, Copy(b)
  PROVE  SentOf(b)'
<1>1. PICK order \in SetToSeqs(clients) : todo' = [todo EXCEPT ![b] = order]
  BY DEF Copy
<1> DEFINE D == 1..Cardinality(clients)
<1>2. /\ order \in [D -> clients]
      /\ \A i, k \in D : i # k => order[i] # order[k]
  BY DEF SetToSeqs
<1>3. /\ IsFiniteSet(clients) /\ Cardinality(clients) \in Nat
      /\ IsFiniteSet(D) /\ Cardinality(D) = Cardinality(clients)
  <2>1. IsFiniteSet(clients) /\ Cardinality(clients) \in Nat
    BY HubAssumption, FS_Subset, FS_CardinalityType DEF HubInv, Types
  <2>2. IsFiniteSet(D) /\ Cardinality(D) = Cardinality(clients)
    BY <2>1, FS_Interval
  <2>3. QED
    BY <2>1, <2>2
<1>4. order \in Injection(D, clients)
  BY <1>2 DEF Injection, IsInjective
<1>5. order \in Surjection(D, clients)
  BY <1>3, <1>4, FS_Injection
<1>6. \A c \in clients : \E k \in D : order[k] = c
  BY <1>5 DEF Surjection
<1>7. Len(order) = Cardinality(clients)
  BY <1>2, <1>3
<1>8. todo'[b] = order /\ sent'[b] = [c \in clients |-> 0] /\ at'[b] = "lock"
  BY <1>1 DEF Copy, Goto, HubInv, Types, SentInv, Writers
<1>9. clients \subseteq Conns
  BY DEF HubInv, Types
<1>10. QED
  BY <1>2, <1>6, <1>7, <1>8, <1>9 DEF SentOf

\* A broadcast is done with the head of its list when that client is dead or
\* has been sent its data.
LEMMA HeadDone ==
  ASSUME HubInv, SentInv, NEW b \in Broadcasters, todo[b] # <<>>, at'[b] = "lock",
         todo'[b] = Tail(todo[b]),
         NEW h, h = To(b),
         \/ sent'[b] = sent[b] /\ Dead(h)'
         \/ sent'[b] = [sent[b] EXCEPT ![h] = @ + 1],
         \A c \in Conns : Dead(c) => Dead(c)'
  PROVE  SentOf(b)'
<1>0. PICK s : s = todo[b]
  OBVIOUS
<1>1. s \in Seq(Conns) /\ s # <<>> /\ b \notin Conns
  BY <1>0, HubAssumption DEF HubInv, Types
<1>2. PICK n \in Nat \ {0} : n = Len(s)
  BY <1>1
<1>3. /\ h = s[1] /\ Len(todo'[b]) = n - 1
      /\ \A k \in 1..(n - 1) : todo'[b][k] = s[k + 1]
  BY <1>0, <1>1, <1>2 DEF To
<1>4. /\ DOMAIN sent[b] \subseteq Conns
      /\ sent[b] \in [DOMAIN sent[b] -> Nat]
      /\ \A k \in 1..n : s[k] \in DOMAIN sent[b] /\ sent[b][s[k]] = 0
      /\ \A i, k \in 1..n : i # k => s[i] # s[k]
      /\ \A c \in DOMAIN sent[b] :
           (\E k \in 1..n : s[k] = c) \/ Dead(c) \/ sent[b][c] = 1
  BY <1>0, <1>2 DEF SentInv, SentOf
<1>5. h \in DOMAIN sent[b] /\ sent[b][h] = 0
  BY <1>2, <1>3, <1>4
<1>6. ASSUME NEW k \in 1..(n - 1)
      PROVE  k + 1 \in 1..n /\ s[k + 1] # h
  <2>1. k + 1 \in 1..n /\ 1 \in 1..n /\ k + 1 # 1
    BY <1>2
  <2>2. QED
    BY <1>3, <1>4, <2>1
<1>7. /\ DOMAIN sent'[b] = DOMAIN sent[b]
      /\ sent'[b] \in [DOMAIN sent[b] -> Nat]
      /\ \A c \in DOMAIN sent[b] \ {h} : sent'[b][c] = sent[b][c]
      /\ Dead(h)' \/ sent'[b][h] = 1
  <2>1. CASE sent'[b] = sent[b] /\ Dead(h)'
    BY <1>4, <2>1
  <2>2. CASE sent'[b] = [sent[b] EXCEPT ![h] = @ + 1]
    BY <1>4, <1>5, <2>2
  <2>3. QED
    BY <2>1, <2>2
<1>8. /\ \A k \in 1..Len(todo'[b]) : todo'[b][k] \in DOMAIN sent'[b] /\ sent'[b][todo'[b][k]] = 0
      /\ \A i, k \in 1..Len(todo'[b]) : i # k => todo'[b][i] # todo'[b][k]
  <2>1. ASSUME NEW k \in 1..(n - 1)
        PROVE  s[k + 1] \in DOMAIN sent[b] /\ sent'[b][s[k + 1]] = 0
    BY <1>4, <1>6, <1>7
  <2>2. ASSUME NEW i \in 1..(n - 1), NEW k \in 1..(n - 1), i # k
        PROVE  s[i + 1] # s[k + 1]
    <3>1. i + 1 \in 1..n /\ k + 1 \in 1..n /\ i + 1 # k + 1
      BY <1>2, <2>2
    <3>2. QED
      BY <1>4, <3>1
  <2>3. QED
    BY <1>3, <1>7, <2>1, <2>2
<1>9. ASSUME NEW c \in DOMAIN sent'[b]
      PROVE  (\E k \in 1..Len(todo'[b]) : todo'[b][k] = c) \/ Dead(c)' \/ sent'[b][c] = 1
  <2>1. CASE c = h
    BY <1>7, <2>1
  <2>2. CASE c # h /\ \E k \in 1..n : s[k] = c
    <3>1. PICK k \in 1..n : s[k] = c
      BY <2>2
    <3>2. k - 1 \in 1..(n - 1) /\ todo'[b][k - 1] = c
      <4>1. k # 1 /\ k - 1 \in 1..(n - 1) /\ (k - 1) + 1 = k
        BY <1>2, <1>3, <2>2, <3>1
      <4>2. QED
        BY <1>3, <3>1, <4>1
    <3>3. QED
      BY <1>3, <3>2
  <2>3. CASE c # h /\ ~\E k \in 1..n : s[k] = c
    <3>1. c \in Conns /\ (Dead(c) \/ sent[b][c] = 1)
      BY <1>4, <1>7, <2>3
    <3>2. QED
      BY <1>7, <2>3, <3>1
  <2>4. QED
    BY <2>1, <2>2, <2>3
<1>10. DOMAIN sent'[b] \subseteq Conns
  BY <1>4, <1>7
<1>11. QED
  BY <1>7, <1>8, <1>9, <1>10 DEF SentOf

\* No step brings a dead connection back.
LEMMA DeadStays ==
  ASSUME HubInv, [Next]_vars, NEW c \in Conns, Dead(c)
  PROVE  Dead(c)'
<1>1. closed[c] => closed'[c]
  BY DEF Next, Upgrade, ReadPing, ReadEnds, Client, Copy, EndBroadcast, Data, Lock, Header,
     Forget, Close, hubVars, envVars, vars, HubInv, Types, Writers
<1>2. ASSUME peer[c] = "gone" PROVE peer'[c] = "gone" \/ closed[c]
  <2>1. CASE \E d \in Conns : Client(d)
    BY <1>2, <2>1 DEF Client, Dead, HubInv, Types
  <2>2. CASE ~\E d \in Conns : Client(d)
    <3>1. peer' = peer
      BY <2>2 DEF Next, Upgrade, ReadPing, ReadEnds, Copy, EndBroadcast, Data, Lock,
         Header, Forget, Close, hubVars, envVars, vars
    <3>2. QED
      BY <1>2, <3>1
  <2>3. QED
    BY <2>1, <2>2
<1>3. QED
  BY <1>1, <1>2 DEF Dead

LEMMA SentStep ==
  ASSUME HubInv, SentInv, [Next]_vars
  PROVE  SentInv'
<1>0. \A c \in Conns : Dead(c) => Dead(c)'
  BY DeadStays
<1>1. ASSUME NEW b \in Broadcasters, Copy(b) \/ EndBroadcast(b) \/ Data(b)
      PROVE  SentInv'
  <2>1. ASSUME NEW a \in Broadcasters, a # b
        PROVE  at'[a] = at[a] /\ todo'[a] = todo[a] /\ sent'[a] = sent[a]
    BY <1>1, <2>1 DEF Copy, EndBroadcast, Data, Fails, Goto, hubVars, history, SentInv,
       HubInv, Types, Writers
  <2>2. sent' = [a \in Broadcasters |-> sent'[a]]
    <3>1. \/ sent' = sent \/ \E v : sent' = [sent EXCEPT ![b] = v]
      BY <1>1 DEF Copy, EndBroadcast, Data, Fails, history
    <3>2. QED
      BY <3>1 DEF SentInv
  <2>3. SentOf(b)'
    <3>1. CASE Copy(b)
      BY <3>1, CopySent
    <3>2. CASE EndBroadcast(b)
      <4>1. todo[b] = <<>> /\ todo' = todo /\ sent' = sent
        BY <3>2 DEF EndBroadcast, hubVars, history
      <4>2. QED
        BY <1>0, <4>1, SentKept DEF SentInv
    <3>3. CASE Data(b) /\ Fails(b, "data")
      <4>1. todo' = todo /\ sent' = sent /\ at'[b] # "idle"
        BY <3>3, HubAssumption DEF Fails, Goto, history, HubInv, Types, Writers
      <4>2. QED
        BY <1>0, <4>1, SentKept DEF SentInv
    <3>4. CASE Data(b) /\ ~Fails(b, "data")
      <4>1. /\ todo' = [todo EXCEPT ![b] = Tail(@)]
            /\ sent' = [sent EXCEPT ![b][To(b)] = @ + 1]
            /\ at[b] = "data" /\ at' = [at EXCEPT ![b] = "lock"]
        BY <3>4 DEF Data, Goto
      <4>2. todo[b] # <<>>
        BY <4>1 DEF HubInv, AimInv, Aims
      <4>3. /\ at'[b] = "lock" /\ todo'[b] = Tail(todo[b])
            /\ sent'[b] = [sent[b] EXCEPT ![To(b)] = @ + 1]
        BY <4>1 DEF HubInv, Types, SentInv, Writers
      <4>4. PICK h : h = To(b)
        OBVIOUS
      <4>5. QED
        BY <1>0, <4>2, <4>3, <4>4, HeadDone
    <3>5. QED
      BY <1>1, <3>1, <3>2, <3>3, <3>4
  <2>4. ASSUME NEW a \in Broadcasters, a # b
        PROVE  SentOf(a)'
    <3>1. SentOf(a)
      BY DEF SentInv
    <3>2. at'[a] = "idle" => todo[a] = <<>>
      BY <2>1, <2>4, <3>1 DEF SentOf
    <3>3. QED
      BY <1>0, <2>1, <2>4, <3>1, <3>2, SentKept
  <2>5. QED
    BY <2>2, <2>3, <2>4 DEF SentInv
<1>2. ASSUME NEW w \in Writers, Lock(w) \/ Header(w) \/ Forget(w)
      PROVE  SentInv'
  <2>1. todo' = todo /\ sent' = sent
    BY <1>2 DEF Lock, Header, Fails, Forget, history
  <2>2. \A b \in Broadcasters : at'[b] = at[b] \/ at'[b] # "idle"
    BY <1>2, HubAssumption DEF Lock, Header, Fails, Forget, Goto, HubInv, Types, Writers
  <2>3. QED
    BY <1>0, <2>1, <2>2, SentKept DEF SentInv, SentOf
<1>3. ASSUME NEW w \in Writers, Close(w)
      PROVE  SentInv'
  <2>1. sent' = sent /\ at[w] = "close" /\ at' = [at EXCEPT ![w] = AfterClose(w)]
        /\ closed' = [closed EXCEPT ![To(w)] = TRUE]
        /\ todo' = IF w \in Conns THEN todo ELSE [todo EXCEPT ![w] = Tail(@)]
    BY <1>3 DEF Close, Goto, history
  <2>2. AfterClose(w) # "idle" /\ (w \in Broadcasters => AfterClose(w) = "lock")
    BY HubAssumption DEF AfterClose
  <2>3. ASSUME NEW b \in Broadcasters
        PROVE  SentOf(b)'
    <3>1. CASE b = w
      <4>1. todo[b] # <<>>
        BY <2>1, <3>1 DEF HubInv, AimInv, Aims
      <4>2. To(b) \in Conns
        BY <4>1, ToType DEF Writers
      <4>3. PICK h \in Conns : h = To(b)
        BY <4>2
      <4>4. Dead(h)'
        BY <2>1, <3>1, <4>3 DEF Dead, HubInv, Types
      <4>5. QED
        BY <1>0, <2>1, <2>2, <3>1, <4>1, <4>3, <4>4, HeadDone, HubAssumption
           DEF HubInv, Types, Writers
    <3>2. CASE b # w
      <4>1. todo'[b] = todo[b] /\ sent'[b] = sent[b] /\ at'[b] = at[b]
        BY <2>1, <3>2 DEF HubInv, Types, Writers
      <4>2. QED
        BY <1>0, <4>1, SentKept DEF SentInv, SentOf
    <3>3. QED
      BY <3>1, <3>2
  <2>4. QED
    BY <2>1, <2>3 DEF SentInv
<1>4. ASSUME NEW c \in Conns, Upgrade(c) \/ ReadPing(c) \/ ReadEnds(c) \/ Client(c)
      PROVE  SentInv'
  <2>1. todo' = todo /\ sent' = sent
    BY <1>4 DEF Upgrade, ReadPing, ReadEnds, Client, hubVars, history
  <2>2. \A b \in Broadcasters : at'[b] = at[b] \/ at'[b] # "idle"
    BY <1>4 DEF Upgrade, ReadPing, ReadEnds, Client, Goto, HubInv, Types, Writers
  <2>3. QED
    BY <1>0, <2>1, <2>2, SentKept DEF SentInv, SentOf
<1>5. CASE UNCHANGED vars
  BY <1>0, <1>5, SentKept DEF vars, hubVars, history, SentInv, SentOf
<1>6. QED
  BY <1>1, <1>2, <1>3, <1>4, <1>5 DEF Next

\* When a broadcast ends, each client that it has copied has been sent one
\* frame or its connection has failed (ws.go:96-126).
THEOREM NobodyIsSkipped == Spec => []EachIsSent
<1>1. HubInv /\ SentInv => EachIsSent
  <2> SUFFICES ASSUME HubInv, SentInv, NEW b \in Broadcasters, at[b] = "idle",
                      NEW c \in DOMAIN sent[b]
               PROVE  Dead(c) \/ sent[b][c] = 1
    BY DEF EachIsSent
  <2>1. SentOf(b) /\ todo[b] = <<>>
    BY DEF SentInv, SentOf
  <2>2. QED
    BY <2>1 DEF SentOf
<1>2. HubInv /\ SentInv /\ [Next]_vars => SentInv'
  BY SentStep
<1>3. QED
  BY <1>1, <1>2, InitSent, HubInductive, PTL DEF Spec

-------------------------------------------------------------------------------
(* Lengths of frames *)

LEMMA ReadForms ==
  ASSUME NEW h, NEW short \in Nat, h[1] % 128 = short
  PROVE  /\ short < 126 => ReadLength(h) = Answer(h, 0, short)
         /\ short = 126 => ReadLength(h) = Answer(h, 2, Field(h, 2))
         /\ short = 127 => ReadLength(h) = Answer(h, 8, Field(h, 8))
<1>1. /\ short < 126 => WideField(short) = 0
      /\ short = 126 => WideField(short) = 2
      /\ short = 127 => WideField(short) = 8
  BY SMT DEF WideField
<1>2. 2 # 0 /\ 8 # 0
  BY SMT
<1>3. ReadLength(h) = LET w == WideField(short)
                      IN  Answer(h, w, IF w = 0 THEN short ELSE Field(h, w))
  BY Zenon DEF ReadLength
<1>4. ASSUME short < 126 PROVE ReadLength(h) = Answer(h, 0, short)
  <2>1. WideField(short) = 0
    BY <1>1, <1>4, Zenon
  <2>2. QED
    BY <1>2, <1>3, <2>1, Zenon
<1>5. ASSUME short = 126 PROVE ReadLength(h) = Answer(h, 2, Field(h, 2))
  <2>1. WideField(short) = 2
    BY <1>1, <1>5, Zenon
  <2>2. QED
    BY <1>2, <1>3, <2>1, Zenon
<1>6. ASSUME short = 127 PROVE ReadLength(h) = Answer(h, 8, Field(h, 8))
  <2>1. WideField(short) = 8
    BY <1>1, <1>6, Zenon
  <2>2. QED
    BY <1>2, <1>3, <2>1, Zenon
<1>7. QED
  BY <1>4, <1>5, <1>6

\* A field is the sum of its bytes: the recursion has the solution written out.
LEMMA FieldOfTwo ==
  ASSUME NEW h, h[2] \in 0..255, h[3] \in 0..255
  PROVE  Field(h, 2) = h[2] * 256 + h[3]
<1> DEFINE a == h[2]
           b == h[3]
<1>0. a \in 0..255 /\ b \in 0..255 /\ h[2] = a /\ h[3] = b
  OBVIOUS
<1> HIDE DEF a, b
<1> DEFINE F[k \in 0..2] == IF k = 0 THEN 0 ELSE F[k - 1] * 256 + h[k + 1]
<1>1. \E g : g = [k \in 0..2 |-> IF k = 0 THEN 0 ELSE g[k - 1] * 256 + h[k + 1]]
  <2> DEFINE g == [k \in 0..2 |-> IF k = 0 THEN 0 ELSE IF k = 1 THEN a ELSE a * 256 + b]
  <2>1. g = [k \in 0..2 |-> IF k = 0 THEN 0 ELSE g[k - 1] * 256 + h[k + 1]]
    BY <1>0
  <2>2. QED
    BY <2>1
<1>2. F = [k \in 0..2 |-> IF k = 0 THEN 0 ELSE F[k - 1] * 256 + h[k + 1]]
  BY <1>1, Zenon
<1>3. F[2] = a * 256 + b
  <2> HIDE DEF F
  <2>1. F[0] = 0 /\ F[1] = F[0] * 256 + h[2] /\ F[2] = F[1] * 256 + h[3]
    BY <1>2
  <2>2. QED
    BY <1>0, <2>1
<1>4. QED
  BY <1>0, <1>3 DEF Field

LEMMA FieldOfEight ==
  ASSUME NEW h, h[2] = 0, h[3] = 0, h[4] = 0, h[5] = 0,
         h[6] \in 0..255, h[7] \in 0..255, h[8] \in 0..255, h[9] \in 0..255
  PROVE  Field(h, 8) = ((h[6] * 256 + h[7]) * 256 + h[8]) * 256 + h[9]
<1> DEFINE a == h[6]
           b == h[7]
           c == h[8]
           d == h[9]
<1>0. /\ a \in 0..255 /\ b \in 0..255 /\ c \in 0..255 /\ d \in 0..255
      /\ h[6] = a /\ h[7] = b /\ h[8] = c /\ h[9] = d
  OBVIOUS
<1> HIDE DEF a, b, c, d
<1> DEFINE F[k \in 0..8] == IF k = 0 THEN 0 ELSE F[k - 1] * 256 + h[k + 1]
<1>1. \E g : g = [k \in 0..8 |-> IF k = 0 THEN 0 ELSE g[k - 1] * 256 + h[k + 1]]
  <2> DEFINE g == [k \in 0..8 |->
                     IF k <= 4 THEN 0 ELSE IF k = 5 THEN a
                     ELSE IF k = 6 THEN a * 256 + b
                     ELSE IF k = 7 THEN (a * 256 + b) * 256 + c
                     ELSE ((a * 256 + b) * 256 + c) * 256 + d]
  <2>1. ASSUME NEW k \in 0..8
        PROVE  g[k] = IF k = 0 THEN 0 ELSE g[k - 1] * 256 + h[k + 1]
    BY <1>0
  <2>2. g = [k \in 0..8 |-> IF k = 0 THEN 0 ELSE g[k - 1] * 256 + h[k + 1]]
    BY <2>1
  <2> HIDE DEF g
  <2>3. QED
    BY <2>2
<1>2. F = [k \in 0..8 |-> IF k = 0 THEN 0 ELSE F[k - 1] * 256 + h[k + 1]]
  BY <1>1, Zenon
<1>3. F[8] = ((a * 256 + b) * 256 + c) * 256 + d
  <2> HIDE DEF F
  <2>1. /\ F[0] = 0 /\ F[1] = F[0] * 256 + h[2] /\ F[2] = F[1] * 256 + h[3]
        /\ F[3] = F[2] * 256 + h[4] /\ F[4] = F[3] * 256 + h[5]
        /\ F[5] = F[4] * 256 + h[6] /\ F[6] = F[5] * 256 + h[7]
        /\ F[7] = F[6] * 256 + h[8] /\ F[8] = F[7] * 256 + h[9]
    BY <1>2
  <2>2. F[4] = 0 /\ F[5] = a /\ F[6] = a * 256 + b
    BY <1>0, <2>1
  <2>3. QED
    BY <1>0, <2>1, <2>2
<1>4. QED
  BY <1>0, <1>3 DEF Field
LEMMA LowSevenBits ==
  ASSUME NEW x \in 0..127
  PROVE  x % 128 = x /\ (x + 128) % 128 = x
BY SMT

IsHeader(h, f) == h \in {f, Masked(f)}

\* A mask changes the first byte of a header, and its length, in the way that
\* wsReadFrame undoes.
LEMMA MaskedHeader ==
  ASSUME NEW f \in Seq(Nat), NEW h, IsHeader(h, f), Len(f) >= 1, f[1] \in 0..127
  PROVE  /\ h[1] % 128 = f[1]
         /\ \A k \in 2..Len(f) : h[k] = f[k]
         /\ Len(h) = Len(f) + (IF h[1] >= 128 THEN 4 ELSE 0)
<1> DEFINE m == Len(f)
           x == f[1]
<1>0. /\ m \in Nat /\ m >= 1 /\ Len(f) = m /\ x \in 0..127 /\ f[1] = x
      /\ h = f \/ h = Masked(f)
  BY SMT DEF IsHeader
<1> HIDE DEF m, x
<1>1. x % 128 = x /\ (x + 128) % 128 = x
  BY <1>0, LowSevenBits, Zenon
<1>2. CASE h = f
  <2>1. ~(x >= 128) /\ m = m + 0
    BY <1>0, SMT
  <2>2. QED
    BY <1>0, <1>1, <1>2, <2>1, Zenon
<1>3. CASE h = Masked(f)
  <2> DEFINE e == x + 128
             g == [f EXCEPT ![1] = e]
             mask == <<7, 7, 7, 7>>
  <2>1. e \in Nat /\ e >= 128 /\ e % 128 = x /\ 1 \in 1..m /\ 1 \in 1..Len(f)
    BY <1>0, <1>1, SMT
  <2>2. h = g \o mask
    BY <1>0, <1>3, Zenon DEF Masked
  <2> HIDE DEF e
  <2>3. /\ g \in Seq(Nat) /\ Len(g) = Len(f)
        /\ \A k \in 1..Len(f) : g[k] = IF k = 1 THEN e ELSE f[k]
    BY <2>1, ExceptSeq, SMT
  <2>4. mask \in Seq(Nat) /\ Len(mask) = 4
    BY SMT
  <2> HIDE DEF g, mask
  <2>5. g \in Seq(Nat) /\ mask \in Seq(Nat)
    BY <2>3, <2>4, Zenon
  <2>6. Len(g) = m /\ \A k \in 1..m : g[k] = IF k = 1 THEN e ELSE f[k]
    BY <1>0, <2>3, Zenon
  <2>7. Len(h) = Len(g) + Len(mask)
    BY <2>2, <2>5, ConcatProperties, Zenon
  <2>8. Len(h) = m + 4
    BY <2>4, <2>6, <2>7, Zenon
  <2>9. \A k \in 1..(Len(g) + Len(mask)) :
          h[k] = IF k <= Len(g) THEN g[k] ELSE mask[k - Len(g)]
    BY <2>2, <2>5, ConcatProperties, Zenon
  <2>10. \A k \in 1..m : k \in 1..(Len(g) + Len(mask)) /\ k <= Len(g)
    BY <1>0, <2>4, <2>6, SMT
  <2>11. \A k \in 1..m : h[k] = g[k]
    BY <2>9, <2>10, Zenon
  <2>12. \A k \in 2..m : k \in 1..m /\ k # 1
    BY <1>0, SMT
  <2>13. h[1] = e
    BY <2>1, <2>6, <2>11, Zenon
  <2>14. \A k \in 2..m : h[k] = f[k]
    BY <2>6, <2>11, <2>12, Zenon
  <2>15. Len(h) = m + (IF h[1] >= 128 THEN 4 ELSE 0)
    BY <2>1, <2>8, <2>13, Zenon
  <2>16. QED
    BY <1>0, <2>1, <2>13, <2>14, <2>15, Zenon
<1>4. QED
  BY <1>0, <1>2, <1>3, Zenon

Fits(n) == n < 256 ^ 4

\* The bytes of a length, put together again.
LEMMA Recompose ==
  ASSUME NEW n \in Nat, Fits(n)
  PROVE  /\ \A k \in 0..3 : Byte(n, k) \in 0..255
         /\ n < 65536 => Byte(n, 1) * 256 + Byte(n, 0) = n
         /\ ((Byte(n, 3) * 256 + Byte(n, 2)) * 256 + Byte(n, 1)) * 256 + Byte(n, 0) = n
<1>1. /\ 256 ^ 0 = 1 /\ 256 ^ 1 = 256 /\ 256 ^ 2 = 65536
      /\ 256 ^ 3 = 16777216 /\ 256 ^ 4 = 4294967296
  BY SMT
<1> DEFINE q1 == n \div 256
           q2 == n \div 65536
           q3 == n \div 16777216
<1>2. /\ Byte(n, 0) = n % 256 /\ Byte(n, 1) = q1 % 256
      /\ Byte(n, 2) = q2 % 256 /\ Byte(n, 3) = q3 % 256
  BY <1>1, SMT DEF Byte
<1>3. q1 \in Nat /\ n = q1 * 256 + (n % 256)
  BY SMT
<1>4. q2 \in Nat /\ q1 = q2 * 256 + (q1 % 256)
  BY SMT
<1>5. q3 \in 0..255 /\ q2 = q3 * 256 + (q2 % 256)
  BY <1>1, SMT DEF Fits
<1> HIDE DEF q1, q2, q3
<1>6. \A k \in 0..3 : k = 0 \/ k = 1 \/ k = 2 \/ k = 3
  BY SMT
<1>7. QED
  BY <1>2, <1>3, <1>4, <1>5, <1>6, SMT

\* wsReadFrame reads back what wsWriteFrame has written, masked or not.
LEMMA RoundTrip ==
  ASSUME NEW n \in Nat, Fits(n), NEW h \in {LengthBytes(n), Masked(LengthBytes(n))}
  PROVE  ReadLength(h) = IF n > MaxFrame THEN [error |-> TRUE]
                         ELSE [error |-> FALSE, length |-> n, used |-> Len(h)]
<1> DEFINE f == LengthBytes(n)
<1> HIDE DEF f
<1>1. IsHeader(h, f)
  BY Zenon DEF f, IsHeader
<1>2. ASSUME NEW w \in Nat, ReadLength(h) = Answer(h, w, n),
             Len(h) = 1 + w + (IF h[1] >= 128 THEN 4 ELSE 0)
      PROVE  ReadLength(h) = IF n > MaxFrame THEN [error |-> TRUE]
                             ELSE [error |-> FALSE, length |-> n, used |-> Len(h)]
  BY <1>2, Zenon DEF Answer
<1>3. CASE n < 126
  <2>1. f = <<n>>
    BY <1>3, SMT DEF f, LengthBytes
  <2>2. f \in Seq(Nat) /\ Len(f) = 1 /\ f[1] = n /\ f[1] \in 0..127 /\ Len(f) >= 1 /\ 1 + 0 = 1
    BY <1>3, <2>1, SMT
  <2>3. h[1] % 128 = n /\ Len(h) = 1 + 0 + (IF h[1] >= 128 THEN 4 ELSE 0)
    <3>1. f \in Seq(Nat) /\ Len(f) >= 1 /\ f[1] \in 0..127
      BY <2>2, Zenon
    <3>2. h[1] % 128 = f[1] /\ Len(h) = Len(f) + (IF h[1] >= 128 THEN 4 ELSE 0)
      BY <1>1, <3>1, MaskedHeader, Zenon
    <3>3. QED
      BY <2>2, <3>2, Zenon
  <2>4. ReadLength(h) = Answer(h, 0, n)
    BY <1>3, <2>3, ReadForms, Zenon
  <2>5. QED
    BY <1>2, <2>3, <2>4, SMT
<1>4. CASE n >= 126 /\ n < 65536
  <2> DEFINE b1 == Byte(n, 1)
             b0 == Byte(n, 0)
  <2> HIDE DEF b1, b0
  <2>1. b1 \in 0..255 /\ b0 \in 0..255 /\ b1 * 256 + b0 = n
    BY <1>4, Recompose, SMT DEF b1, b0
  <2>2. f = <<126, b1, b0>>
    BY <1>4, SMT DEF f, LengthBytes, b1, b0
  <2>3. f \in Seq(Nat) /\ Len(f) = 3 /\ f[1] = 126 /\ f[2] = b1 /\ f[3] = b0
    BY <2>1, <2>2, SMT
  <2>4. /\ h[1] % 128 = 126 /\ \A k \in 2..3 : h[k] = f[k]
        /\ Len(h) = 3 + (IF h[1] >= 128 THEN 4 ELSE 0)
    <3>1. f \in Seq(Nat) /\ Len(f) >= 1 /\ f[1] \in 0..127
      BY <2>3, SMT
    <3>2. /\ h[1] % 128 = f[1] /\ \A k \in 2..Len(f) : h[k] = f[k]
          /\ Len(h) = Len(f) + (IF h[1] >= 128 THEN 4 ELSE 0)
      BY <1>1, <3>1, MaskedHeader, Zenon
    <3>3. QED
      BY <2>3, <3>2, Zenon
  <2>5. h[2] = b1 /\ h[3] = b0 /\ 3 = 1 + 2
    BY <2>3, <2>4, SMT
  <2>6. Field(h, 2) = n
    BY <2>1, <2>5, FieldOfTwo, SMT
  <2>7. ReadLength(h) = Answer(h, 2, n)
    BY <2>4, <2>6, ReadForms, SMT
  <2>8. QED
    BY <1>2, <2>4, <2>5, <2>7, SMT
<1>5. CASE n >= 65536
  <2> DEFINE b3 == Byte(n, 3)
             b2 == Byte(n, 2)
             b1 == Byte(n, 1)
             b0 == Byte(n, 0)
  <2> HIDE DEF b3, b2, b1, b0
  <2>1. /\ b3 \in 0..255 /\ b2 \in 0..255 /\ b1 \in 0..255 /\ b0 \in 0..255
        /\ ((b3 * 256 + b2) * 256 + b1) * 256 + b0 = n
    BY Recompose, SMT DEF b3, b2, b1, b0
  <2>2. f = <<127>> \o <<0, 0, 0, 0, b3, b2, b1, b0>>
    BY <1>5, SMT DEF f, LengthBytes, EightBytes, b3, b2, b1, b0
  <2>3. f \in Seq(Nat) /\ Len(f) = 9 /\ f[1] = 127
    BY <2>1, <2>2, SMT
  <2>4. /\ f[2] = 0 /\ f[3] = 0 /\ f[4] = 0 /\ f[5] = 0
        /\ f[6] = b3 /\ f[7] = b2 /\ f[8] = b1 /\ f[9] = b0
    BY <2>2, SMT
  <2>5. /\ h[1] % 128 = 127 /\ \A k \in 2..9 : h[k] = f[k]
        /\ Len(h) = 9 + (IF h[1] >= 128 THEN 4 ELSE 0)
    <3>1. f \in Seq(Nat) /\ Len(f) >= 1 /\ f[1] \in 0..127
      BY <2>3, SMT
    <3>2. /\ h[1] % 128 = f[1] /\ \A k \in 2..Len(f) : h[k] = f[k]
          /\ Len(h) = Len(f) + (IF h[1] >= 128 THEN 4 ELSE 0)
      BY <1>1, <3>1, MaskedHeader, Zenon
    <3>3. QED
      BY <2>3, <3>2, Zenon
  <2>6. /\ h[2] = 0 /\ h[3] = 0 /\ h[4] = 0 /\ h[5] = 0
        /\ h[6] = b3 /\ h[7] = b2 /\ h[8] = b1 /\ h[9] = b0
    BY <2>4, <2>5, SMT
  <2>7. Field(h, 8) = n
    BY <2>1, <2>6, FieldOfEight, SMT
  <2>8. ReadLength(h) = Answer(h, 8, n)
    BY <2>5, <2>7, ReadForms, SMT
  <2>9. QED
    BY <1>2, <2>5, <2>8, SMT
<1>6. QED
  BY <1>3, <1>4, <1>5, SMT

\* Every header that the hub sends is read back by wsReadFrame, for any length
\* below 2^31 (ws.go:168-207, 228-244).
THEOREM HeadersReadBack == Spec => []LengthsReadBack
<1>1. \A n \in Lengths : n \in Nat /\ Fits(n)
  <2>1. 256 ^ 4 = 4294967296
    BY SMT
  <2>2. QED
    BY <2>1, LengthsAssumption, SMT DEF Fits
<1>2. LengthsReadBack
  BY <1>1, RoundTrip DEF LengthsReadBack
<1>3. QED
  BY <1>2, PTL
===============================================================================
