------------------------ MODULE SwarmManagerProofs --------------------------
(***************************************************************************)
(* What SwarmManager keeps for every number of peers, pieces, slots,       *)
(* retries and pending writes, whatever the addresses of the peers.        *)
(*                                                                         *)
(* The safety properties lean on each other: no piece is lost because every *)
(* worker that holds one still reads; it reads because the registered      *)
(* workers are the open connections; they are because an entry is dialled  *)
(* only under a number it has not used; and that number exists because of  *)
(* the retry limit.  IInv states it all, in four parts that the handlers   *)
(* disturb separately: the pool, the board of pieces, the requests, and    *)
(* the workers not made yet.  How a download ends, with all peers spent or *)
(* complete, comes after it.                                               *)
(***************************************************************************)
EXTENDS SwarmManager, NaturalSets, TLAPS, FiniteSetTheorems

-----------------------------------------------------------------------------
(* Lemmas on the choice of the entries to dial.                            *)

\* A set of naturals that is not empty has a least element, and Lowest finds it.
LEMMA LowestIsLeast ==
  ASSUME NEW S, S \subseteq Nat, S # {}
  PROVE  Lowest(S) \in S /\ \A j \in S : Lowest(S) <= j
<1>1. \E x \in S : \A y \in S : x <= y
  BY LeastNatural
<1> QED
  BY <1>1 DEF Lowest

\* The first n eligible entries are n in number, or all there are.
LEMMA FirstEligibleCount ==
  ASSUME NumPeers \in Nat, NEW st, NEW n \in Nat
  PROVE  /\ FirstEligible(st, n) \subseteq Eligible(st)
         /\ IsFiniteSet(FirstEligible(st, n))
         /\ Cardinality(FirstEligible(st, n)) <= n
         /\ \/ FirstEligible(st, n) = Eligible(st)
            \/ Cardinality(FirstEligible(st, n)) = n
<1> DEFINE S == Eligible(st)
           F == FirstEligible(st, n)
           Below(e) == {f \in S : f < e}
<1>1. S \subseteq Nat /\ IsFiniteSet(S) /\ \A e \in S : e \in Nat /\ e <= NumPeers
  <2>1. S \in SUBSET (1 .. NumPeers)
    BY DEF Eligible, Entry
  <2>2. IsFiniteSet(1 .. NumPeers)
    BY FS_Interval
  <2> HIDE DEF S
  <2>3. IsFiniteSet(S)
    BY <2>1, <2>2, FS_Subset
  <2> QED
    BY <2>1, <2>3
<1>2. F = {e \in S : Cardinality(Below(e)) < n}
  BY DEF FirstEligible
<1>3. F \subseteq S /\ IsFiniteSet(F) /\ Cardinality(F) \in Nat
  BY <1>1, <1>2, FS_Subset, FS_CardinalityType
<1>4. \A e \in S : /\ IsFiniteSet(Below(e)) /\ Cardinality(Below(e)) \in Nat
  <2> TAKE e \in S
  <2>1. Below(e) \in SUBSET S
    OBVIOUS
  <2> HIDE DEF S, Below
  <2> QED
    BY <2>1, <1>1, FS_Subset, FS_CardinalityType
<1> HIDE DEF S, F
<1>5. Cardinality(F) <= n
  <2> SUFFICES ASSUME Cardinality(F) > n
               PROVE  FALSE
    BY <1>3
  <2> DEFINE Down == {NumPeers - e : e \in F}
             m == Lowest(Down)
  <2>1. F # {}
    BY <1>3, FS_EmptySet
  <2>2. Down \subseteq Nat /\ Down # {}
    BY <2>1, <1>1, <1>3
  <2>3. m \in Down /\ \A j \in Down : m <= j
    <3> HIDE DEF Down
    <3> QED
      BY <2>2, LowestIsLeast
  <2>4. PICK e \in F : m = NumPeers - e
    BY <2>3
  <2>5. \A f \in F : f <= e
    <3> TAKE f \in F
    <3>1. NumPeers - f \in Down
      OBVIOUS
    <3>2. m <= NumPeers - f
      BY <3>1, <2>3
    <3> HIDE DEF m
    <3> QED
      BY <3>2, <2>4, <1>1, <1>3
  <2>6. F \ {e} \in SUBSET Below(e)
    <3> SUFFICES ASSUME NEW f \in F \ {e}
                 PROVE  f \in S /\ f < e
      OBVIOUS
    <3> QED
      BY <2>5, <1>1, <1>3
  <2>7. Cardinality(F \ {e}) = Cardinality(F) - 1
    BY <1>3, FS_RemoveElement
  <2>8. Cardinality(F \ {e}) <= Cardinality(Below(e))
    <3> HIDE DEF Below
    <3> QED
      BY <2>6, <1>3, <1>4, FS_Subset
  <2>9. Cardinality(Below(e)) < n
    BY <1>2
  <2> QED
    BY <2>7, <2>8, <2>9, <1>3, <1>4
<1>6. ASSUME F # S
      PROVE  Cardinality(F) = n
  <2> DEFINE Rest == S \ F
             e == Lowest(Rest)
  <2>1. Rest \subseteq Nat /\ Rest # {}
    BY <1>6, <1>1, <1>3
  <2>2. e \in Rest /\ \A j \in Rest : e <= j
    <3> HIDE DEF Rest
    <3> QED
      BY <2>1, LowestIsLeast
  <2>3. Below(e) \in SUBSET F
    <3> SUFFICES ASSUME NEW f \in S, f < e
                 PROVE  f \in F
      OBVIOUS
    <3> HIDE DEF e
    <3> QED
      BY <2>2, <1>1
  <2>4. Cardinality(Below(e)) <= Cardinality(F)
    <3> HIDE DEF Below, e
    <3> QED
      BY <2>3, <1>3, FS_Subset
  <2>5. ~ (Cardinality(Below(e)) < n)
    <3> HIDE DEF e
    <3> QED
      BY <2>2, <1>2
  <2>6. e \in S
    BY <2>2
  <2> HIDE DEF e, Below
  <2> QED
    BY <2>4, <2>5, <2>6, <1>3, <1>4, <1>5
<1> QED
  BY <1>3, <1>5, <1>6 DEF F, S

-----------------------------------------------------------------------------
(* The inductive invariant.                                                *)

SocketStates == {"none", "open", "closed"}

PoolTypes ==
  /\ pool_state \in [Entry -> PoolStates]
  /\ retry_count \in [Entry -> Nat]
  /\ made \in [Entry -> 0 .. MaxRetry]
  /\ active_workers \subseteq Worker
  /\ socket \in [Worker -> SocketStates]
  /\ reading \in [Worker -> Readings]

BoardTypes ==
  /\ main \in MainStates
  /\ stopped \in BOOLEAN
  /\ piece_checklist \in [Piece -> BOOLEAN]
  /\ pieces_downloaded \in 0 .. TotalPieces
  /\ on_disk \subseteq Piece
  /\ active_piece \in [Worker -> Piece \cup {NoPiece}]

RestTypes ==
  /\ writes \in [Worker -> 0 .. MaxWrites]
  /\ doomed \in [Worker -> 0 .. MaxWrites]
  /\ has \in [Worker -> SUBSET Piece]

\* What the pool states, the retry counts and the connections made so far say of
\* each other: DialBudget, and that a dead entry has used its retries up.
Budget(st, rc, md) ==
  \A e \in Entry :
    /\ md[e] <= rc[e] + 1
    /\ st[e] \in {"UNTOUCHED", "RETRYING"} => md[e] <= rc[e] /\ rc[e] < MaxRetry
    /\ st[e] = "DEAD" => rc[e] >= MaxRetry

\* Only workers that have been made have a socket.
Numbered(sk, md) ==
  \A w \in Worker : sk[w] # "none" => w[2] <= md[w[1]]

\* The registered workers aw are the open connections, each one reads, and there
\* are no more of them than slots.
Slots(aw, sk, rd) ==
  /\ aw = {w \in Worker : sk[w] = "open"}
  /\ \A w \in aw : rd[w] \in {"connect", "handshake", "message"}
  /\ IsFiniteSet(aw)
  /\ Cardinality(aw) <= NumConnections

PoolInv ==
  /\ PoolTypes
  /\ Budget(pool_state, retry_count, made)
  /\ Numbered(socket, made)
  /\ Working => Slots(active_workers, socket, reading)
  /\ SlotsFilled

StartsEmpty == main = "created" => pieces_downloaded = 0

BoardInv ==
  /\ BoardTypes
  /\ CounterInStep
  /\ StartsEmpty
  /\ NoPieceLost

\* A worker that has not been made has nothing pending.
Unborn ==
  \A w \in Worker : socket[w] = "none" =>
    reading[w] = "none" /\ writes[w] = 0 /\ doomed[w] = 0

IInv == PoolInv /\ BoardInv /\ RestTypes /\ Unborn

-----------------------------------------------------------------------------
\* maintain_swarm_strength keeps retries and connections in balance, and dials no
\* entry that is not eligible.
LEMMA MaintainBudget ==
  ASSUME SwarmAssumption, made \in [Entry -> 0 .. MaxRetry],
         NEW st \in [Entry -> PoolStates], NEW rc \in [Entry -> Nat],
         NEW aw \in SUBSET Worker,
         NEW sk \in [Worker -> SocketStates], NEW rd \in [Worker -> Readings],
         Budget(st, rc, made), Numbered(sk, made),
         maintain_swarm_strength(st, aw, sk, rd)
  PROVE  /\ pool_state' \in [Entry -> PoolStates]
         /\ made' \in [Entry -> 0 .. MaxRetry]
         /\ active_workers' \subseteq Worker
         /\ socket' \in [Worker -> SocketStates]
         /\ reading' \in [Worker -> Readings]
         /\ Budget(pool_state', rc, made')
         /\ Numbered(socket', made')
         /\ \A w \in Worker :
              /\ reading'[w] \in {rd[w], "connect"}
              /\ socket'[w] = "none" => sk[w] = "none" /\ reading'[w] = rd[w]
         /\ \A e \in Entry : st[e] = "DEAD" =>
              pool_state'[e] = "DEAD" /\ made'[e] = made[e]
<1> DEFINE chosen == ToStart(st, aw)
           fresh  == {w \in Worker : w[1] \in chosen /\ w[2] = made[w[1]] + 1}
<1>1. \A e \in chosen : e \in Entry /\ st[e] \in {"UNTOUCHED", "RETRYING"}
  BY DEF ToStart, FirstEligible, Eligible
<1>2. /\ pool_state' = [e \in Entry |->
                          IF e \in chosen THEN "CONNECTING" ELSE st[e]]
      /\ made' = [e \in Entry |->
                    IF e \in chosen THEN made[e] + 1 ELSE made[e]]
      /\ active_workers' = aw \cup fresh
      /\ socket' = [w \in Worker |-> IF w \in fresh THEN "open" ELSE sk[w]]
      /\ reading' = [w \in Worker |-> IF w \in fresh THEN "connect" ELSE rd[w]]
  BY DEF maintain_swarm_strength
<1> HIDE DEF chosen
<1>3. MaxRetry \in Nat \ {0}
  BY DEF SwarmAssumption
<1>4. pool_state' \in [Entry -> PoolStates]
  BY <1>2 DEF PoolStates
<1>5. made' \in [Entry -> 0 .. MaxRetry]
  BY <1>1, <1>2, <1>3 DEF Budget
<1>6. /\ active_workers' \subseteq Worker
      /\ socket' \in [Worker -> SocketStates]
      /\ reading' \in [Worker -> Readings]
      /\ \A w \in Worker :
           /\ reading'[w] \in {rd[w], "connect"}
           /\ socket'[w] = "none" => sk[w] = "none" /\ reading'[w] = rd[w]
  BY <1>2 DEF SocketStates, Readings
<1>7. Budget(pool_state', rc, made')
  BY <1>1, <1>2, <1>3 DEF Budget, PoolStates
<1>8. Numbered(socket', made')
  <2> SUFFICES ASSUME NEW w \in Worker, socket'[w] # "none"
               PROVE  w[2] <= made'[w[1]]
    BY DEF Numbered
  <2>1. w[1] \in Entry /\ w[2] \in 1 .. MaxRetry
    BY DEF Worker
  <2>2. made[w[1]] \in Nat
    BY <2>1, <1>3
  <2>3. CASE w \in fresh
    BY <2>1, <2>2, <2>3, <1>2
  <2>4. CASE w \notin fresh
    BY <2>1, <2>2, <2>4, <1>2, <1>3 DEF Numbered
  <2> QED
    BY <2>3, <2>4
<1>9. \A e \in Entry : st[e] = "DEAD" =>
        pool_state'[e] = "DEAD" /\ made'[e] = made[e]
  BY <1>1, <1>2
<1> QED
  BY <1>4, <1>5, <1>6, <1>7, <1>8, <1>9

\* maintain_swarm_strength fills the free slots, and no more than those, with
\* connections that read.
LEMMA MaintainSlots ==
  ASSUME SwarmAssumption, made \in [Entry -> 0 .. MaxRetry],
         NEW st \in [Entry -> PoolStates], NEW rc \in [Entry -> Nat],
         NEW aw \in SUBSET Worker,
         NEW sk \in [Worker -> SocketStates], NEW rd \in [Worker -> Readings],
         Budget(st, rc, made), Numbered(sk, made), Slots(aw, sk, rd),
         maintain_swarm_strength(st, aw, sk, rd)
  PROVE  /\ Slots(active_workers', socket', reading')
         /\ ~ is_download_complete =>
              \/ Cardinality(active_workers') = NumConnections
              \/ Eligible(pool_state') = {}
<1> DEFINE chosen == ToStart(st, aw)
           fresh  == {w \in Worker : w[1] \in chosen /\ w[2] = made[w[1]] + 1}
           slots  == NumConnections - Cardinality(aw)
<1>1. /\ pool_state' = [e \in Entry |->
                          IF e \in chosen THEN "CONNECTING" ELSE st[e]]
      /\ active_workers' = aw \cup fresh
      /\ socket' = [w \in Worker |-> IF w \in fresh THEN "open" ELSE sk[w]]
      /\ reading' = [w \in Worker |-> IF w \in fresh THEN "connect" ELSE rd[w]]
  BY DEF maintain_swarm_strength
<1>2. /\ NumPeers \in Nat /\ NumConnections \in Nat /\ MaxRetry \in Nat
      /\ Cardinality(aw) \in Nat
      /\ slots \in Nat
  BY FS_CardinalityType DEF SwarmAssumption, Slots
<1>3. /\ chosen \subseteq Eligible(st)
      /\ IsFiniteSet(chosen)
      /\ Cardinality(chosen) <= slots
      /\ ~ is_download_complete =>
           chosen = Eligible(st) \/ Cardinality(chosen) = slots
  <2>1. CASE is_download_complete
    BY <2>1, <1>2, FS_EmptySet DEF ToStart
  <2>2. CASE ~ is_download_complete
    <3>1. chosen = FirstEligible(st, slots)
      BY <2>2 DEF ToStart
    <3> HIDE DEF chosen, slots
    <3> QED
      BY <3>1, <1>2, FirstEligibleCount
  <2> QED
    BY <2>1, <2>2
<1> HIDE DEF chosen, slots
<1>4. IsFiniteSet(fresh) /\ Cardinality(fresh) = Cardinality(chosen)
  <2> DEFINE f == [e \in chosen |-> <<e, made[e] + 1>>]
  <2>1. \A e \in chosen : e \in Entry /\ made[e] + 1 \in 1 .. MaxRetry
    BY <1>2, <1>3 DEF Eligible, Budget
  <2>2. \A e \in chosen : f[e] \in fresh
    BY <2>1 DEF Worker
  <2>3. \A w \in fresh : w[1] \in chosen /\ f[w[1]] = w
    BY DEF Worker
  <2>4. f \in Bijection(chosen, fresh)
    <3>1. f \in [chosen -> fresh]
      BY <2>2
    <3>2. \A e1, e2 \in chosen : f[e1] = f[e2] => e1 = e2
      OBVIOUS
    <3>3. \A w \in fresh : \E e \in chosen : f[e] = w
      BY <2>3
    <3>4. DOMAIN f = chosen
      OBVIOUS
    <3> HIDE DEF f, fresh
    <3> QED
      BY <3>1, <3>2, <3>3, <3>4 DEF Bijection, Injection, Surjection, IsInjective
  <2>5. ExistsBijection(chosen, fresh)
    BY <2>4 DEF ExistsBijection
  <2> HIDE DEF f, fresh
  <2> QED
    BY <2>5, <1>3, FS_Bijection
<1>5. aw \cap fresh = {}
  <2> SUFFICES ASSUME NEW w \in aw, w \in fresh
               PROVE  FALSE
    OBVIOUS
  <2>1. w \in Worker /\ sk[w] = "open" /\ w[2] = made[w[1]] + 1
    BY DEF Slots
  <2>2. w[2] <= made[w[1]]
    BY <2>1 DEF Numbered
  <2>3. made[w[1]] \in Nat
    BY <2>1, <1>2 DEF Worker
  <2> QED
    BY <2>1, <2>2, <2>3
<1>6. /\ IsFiniteSet(active_workers')
      /\ Cardinality(active_workers') = Cardinality(aw) + Cardinality(chosen)
  <2>1. IsFiniteSet(aw)
    BY DEF Slots
  <2> HIDE DEF fresh
  <2>2. /\ IsFiniteSet(aw \cup fresh)
        /\ Cardinality(aw \cup fresh) =
             Cardinality(aw) + Cardinality(fresh) - Cardinality({})
    BY <2>1, <1>4, <1>5, FS_Union
  <2>3. Cardinality({}) = 0 /\ Cardinality(chosen) \in Nat
    BY <1>3, FS_EmptySet, FS_CardinalityType
  <2>4. active_workers' = aw \cup fresh
    BY <1>1 DEF fresh
  <2> QED
    BY <2>2, <2>3, <2>4, <1>2, <1>4
<1>7. Cardinality(chosen) \in Nat
  BY <1>3, FS_CardinalityType
<1>8. Cardinality(active_workers') <= NumConnections
  BY <1>2, <1>3, <1>6, <1>7 DEF slots
<1>9. active_workers' = {w \in Worker : socket'[w] = "open"}
  BY <1>1 DEF Slots
<1>10. \A w \in active_workers' : reading'[w] \in {"connect", "handshake", "message"}
  BY <1>1 DEF Slots
<1>11. ~ is_download_complete =>
         \/ Cardinality(active_workers') = NumConnections
         \/ Eligible(pool_state') = {}
  <2> SUFFICES ASSUME ~ is_download_complete, Cardinality(chosen) # slots
               PROVE  Eligible(pool_state') = {}
    BY <1>2, <1>6, <1>7 DEF slots
  <2>1. chosen = Eligible(st)
    BY <1>3
  <2> QED
    BY <2>1, <1>1 DEF Eligible
<1> QED
  BY <1>6, <1>8, <1>9, <1>10, <1>11 DEF Slots

-----------------------------------------------------------------------------
\* A failure is charged to some entry of the pool.
LEMMA ChargedEntry ==
  ASSUME SwarmAssumption, NEW w \in Worker
  PROVE  Charged(w) \in Entry
<1> DEFINE S == {e \in Entry : Ip[e] = Ip[w[1]]}
<1>1. S \subseteq Nat /\ S # {}
  BY DEF Worker, Entry
<1>2. Lowest(S) \in S
  <2> HIDE DEF S
  <2> QED
    BY <1>1, LowestIsLeast
<1> QED
  BY <1>2 DEF Charged

\* What handle_disconnect leaves in the pool, whatever sockets and read chains it
\* is called with.
LEMMA DisconnectBudget ==
  ASSUME SwarmAssumption, PoolTypes, Budget(pool_state, retry_count, made),
         NEW w \in Worker,
         NEW sk \in [Worker -> SocketStates], NEW rd \in [Worker -> Readings],
         Numbered(sk, made), handle_disconnect(w, sk, rd)
  PROVE  /\ PoolTypes'
         /\ Budget(pool_state', retry_count', made')
         /\ Numbered(socket', made')
         /\ \A v \in Worker :
              /\ reading'[v] \in {rd[v], "connect"}
              /\ socket'[v] = "none" => sk[v] = "none" /\ reading'[v] = rd[v]
         /\ \A f \in Entry : pool_state[f] = "DEAD" =>
              pool_state'[f] = "DEAD" /\ made'[f] = made[f]
         /\ \E st \in [Entry -> PoolStates] :
              /\ Budget(st, retry_count', made)
              /\ maintain_swarm_strength(st, active_workers \ {w}, sk, rd)
<1> DEFINE e  == Charged(w)
           st == [pool_state EXCEPT ![e] =
                    IF retry_count[e] + 1 >= MaxRetry THEN "DEAD" ELSE "RETRYING"]
           aw == active_workers \ {w}
           rc == [retry_count EXCEPT ![e] = @ + 1]
<1>1. e \in Entry
  BY ChargedEntry
<1>2. /\ retry_count' = rc
      /\ maintain_swarm_strength(st, aw, sk, rd)
  BY DEF handle_disconnect
<1>3. MaxRetry \in Nat
  BY DEF SwarmAssumption
<1>4. /\ st \in [Entry -> PoolStates] /\ rc \in [Entry -> Nat]
      /\ aw \in SUBSET Worker
      /\ made \in [Entry -> 0 .. MaxRetry]
  BY <1>1, <1>3 DEF PoolTypes, PoolStates
<1>5. ASSUME NEW f \in Entry
      PROVE  /\ made[f] <= rc[f] + 1
             /\ st[f] \in {"UNTOUCHED", "RETRYING"} =>
                  made[f] <= rc[f] /\ rc[f] < MaxRetry
             /\ st[f] = "DEAD" => rc[f] >= MaxRetry
             /\ pool_state[f] = "DEAD" => st[f] = "DEAD"
  <2>1. /\ made[f] \in Nat /\ retry_count[f] \in Nat
        /\ made[f] <= retry_count[f] + 1
        /\ pool_state[f] \in {"UNTOUCHED", "RETRYING"} =>
             made[f] <= retry_count[f] /\ retry_count[f] < MaxRetry
        /\ pool_state[f] = "DEAD" => retry_count[f] >= MaxRetry
    BY <1>3 DEF PoolTypes, Budget
  <2>2. CASE f = e
    <3>1. /\ rc[f] = retry_count[f] + 1
          /\ st[f] = IF retry_count[f] + 1 >= MaxRetry THEN "DEAD" ELSE "RETRYING"
      BY <2>2, <1>1 DEF PoolTypes
    <3> HIDE DEF rc, st, e
    <3> QED
      BY <3>1, <2>1, <1>3
  <2>3. CASE f # e
    <3>1. rc[f] = retry_count[f] /\ st[f] = pool_state[f]
      BY <2>3, <1>1 DEF PoolTypes
    <3> HIDE DEF rc, st, e
    <3> QED
      BY <3>1, <2>1
  <2> QED
    BY <2>2, <2>3
<1>6. Budget(st, rc, made)
  BY <1>5 DEF Budget
<1> HIDE DEF e, st, aw, rc
<1>7. /\ pool_state' \in [Entry -> PoolStates]
      /\ made' \in [Entry -> 0 .. MaxRetry]
      /\ active_workers' \subseteq Worker
      /\ socket' \in [Worker -> SocketStates]
      /\ reading' \in [Worker -> Readings]
      /\ Budget(pool_state', rc, made')
      /\ Numbered(socket', made')
      /\ \A v \in Worker :
           /\ reading'[v] \in {rd[v], "connect"}
           /\ socket'[v] = "none" => sk[v] = "none" /\ reading'[v] = rd[v]
      /\ \A f \in Entry : st[f] = "DEAD" =>
           pool_state'[f] = "DEAD" /\ made'[f] = made[f]
  BY <1>2, <1>4, <1>6, MaintainBudget
<1>8. PoolTypes'
  BY <1>2, <1>4, <1>7 DEF PoolTypes
<1>9. maintain_swarm_strength(st, active_workers \ {w}, sk, rd)
  BY <1>2 DEF aw
<1> QED
  BY <1>2, <1>4, <1>5, <1>6, <1>7, <1>8, <1>9

\* The pool after a disconnect of a worker that has been made.
LEMMA DisconnectPool ==
  ASSUME SwarmAssumption, PoolInv, Working,
         NEW w \in Worker, NEW r \in Readings, disconnect(w, r), socket[w] # "none",
         main' = main, pieces_downloaded' = pieces_downloaded
  PROVE  /\ PoolInv'
         /\ \A v \in Worker \ {w} : reading'[v] \in {reading[v], "connect"}
         /\ \A v \in Worker : socket'[v] = "none" =>
              v # w /\ socket[v] = "none" /\ reading'[v] = reading[v]
<1> DEFINE aw == active_workers \ {w}
           sk == [socket EXCEPT ![w] = "closed"]
           rd == [reading EXCEPT ![w] = r]
<1>1. handle_disconnect(w, sk, rd)
  BY DEF disconnect
<1>2. PoolTypes /\ Budget(pool_state, retry_count, made)
  BY DEF PoolInv
<1>3. /\ aw \in SUBSET Worker
      /\ sk \in [Worker -> SocketStates] /\ rd \in [Worker -> Readings]
      /\ made \in [Entry -> 0 .. MaxRetry]
  BY <1>2 DEF PoolTypes, SocketStates
<1>4. Numbered(sk, made)
  BY <1>2 DEF PoolInv, PoolTypes, Numbered
<1>5. Slots(aw, sk, rd)
  <2>1. Slots(active_workers, socket, reading)
    BY DEF PoolInv
  <2>2. IsFiniteSet(aw) /\ Cardinality(aw) <= Cardinality(active_workers)
    <3>1. aw \in SUBSET active_workers /\ IsFiniteSet(active_workers)
      BY <2>1 DEF Slots
    <3> HIDE DEF aw
    <3> QED
      BY <3>1, FS_Subset
  <2>3. Cardinality(aw) <= NumConnections
    <3>1. /\ Cardinality(aw) \in Nat /\ Cardinality(active_workers) \in Nat
          /\ NumConnections \in Nat
      BY <2>1, <2>2, FS_CardinalityType DEF Slots, SwarmAssumption
    <3> QED
      BY <3>1, <2>1, <2>2 DEF Slots
  <2>4. aw = {v \in Worker : sk[v] = "open"}
    BY <2>1, <1>2 DEF Slots, PoolTypes
  <2>5. \A v \in aw : rd[v] \in {"connect", "handshake", "message"}
    BY <2>1, <1>2 DEF Slots, PoolTypes
  <2> HIDE DEF aw, sk, rd
  <2> QED
    BY <2>2, <2>3, <2>4, <2>5 DEF Slots
<1>6. /\ \A v \in Worker \ {w} : rd[v] = reading[v] /\ sk[v] = socket[v]
      /\ sk[w] = "closed"
  BY <1>2 DEF PoolTypes
<1> HIDE DEF aw, sk, rd
<1>7. /\ PoolTypes'
      /\ Budget(pool_state', retry_count', made')
      /\ Numbered(socket', made')
      /\ \A v \in Worker :
           /\ reading'[v] \in {rd[v], "connect"}
           /\ socket'[v] = "none" => sk[v] = "none" /\ reading'[v] = rd[v]
      /\ \A f \in Entry : pool_state[f] = "DEAD" =>
           pool_state'[f] = "DEAD" /\ made'[f] = made[f]
      /\ \E st \in [Entry -> PoolStates] :
           /\ Budget(st, retry_count', made)
           /\ maintain_swarm_strength(st, active_workers \ {w}, sk, rd)
  BY <1>1, <1>2, <1>3, <1>4, DisconnectBudget
<1>8. PICK st \in [Entry -> PoolStates] :
        /\ Budget(st, retry_count', made)
        /\ maintain_swarm_strength(st, aw, sk, rd)
  BY <1>7 DEF aw
<1>9. retry_count' \in [Entry -> Nat]
  BY <1>7 DEF PoolTypes
<1>10. /\ Slots(active_workers', socket', reading')
       /\ ~ is_download_complete =>
            \/ Cardinality(active_workers') = NumConnections
            \/ Eligible(pool_state') = {}
  BY <1>3, <1>4, <1>5, <1>8, <1>9, MaintainSlots
<1>11. SlotsFilled'
  BY <1>10 DEF SlotsFilled, is_download_complete, Eligible
<1>12. PoolInv'
  BY <1>7, <1>10, <1>11 DEF PoolInv, Budget, Numbered, Slots
<1> QED
  BY <1>6, <1>7, <1>12

\* The pool after a handler that neither dials nor drops a peer.
LEMMA QuietPool ==
  ASSUME PoolInv, UNCHANGED <<pool, socket>>,
         reading' \in [Worker -> Readings],
         Working => \A v \in Worker : socket[v] = "open" =>
           reading'[v] \in {"connect", "handshake", "message"},
         Working' => Working, main' = "running" => main = "running",
         main' = "running" /\ is_download_complete => is_download_complete'
  PROVE  PoolInv'
<1>1. PoolTypes' /\ Budget(pool_state, retry_count, made)' /\ Numbered(socket, made)'
  BY DEF PoolInv, PoolTypes, Budget, Numbered, pool
<1>2. Working' => Slots(active_workers, socket, reading)'
  BY DEF PoolInv, Slots, pool, PoolTypes
<1>3. SlotsFilled'
  BY DEF PoolInv, SlotsFilled, Eligible, pool
<1> QED
  BY <1>1, <1>2, <1>3 DEF PoolInv

\* What reading on does to the read chains.
LEMMA ReadsOn ==
  ASSUME PoolInv, Working, NEW w \in Worker, ReadNext(w)
  PROVE  /\ reading' \in [Worker -> Readings]
         /\ reading'[w] # "none"
         /\ \A v \in Worker \ {w} : reading'[v] = reading[v]
         /\ \A v \in Worker : socket[v] = "open" =>
              reading'[v] \in {"connect", "handshake", "message"}
BY DEF PoolInv, PoolTypes, ReadNext, Readings, Slots

-----------------------------------------------------------------------------
\* request_work hands w one piece of list, or none, and touches no other worker.
LEMMA WorkRequested ==
  ASSUME BoardTypes, NEW w \in Worker, NEW list \in [Piece -> BOOLEAN],
         request_work(w, list)
  PROVE  /\ stopped' \in BOOLEAN
         /\ pieces_downloaded' = TotalPieces => stopped'
         /\ piece_checklist' \in [Piece -> BOOLEAN]
         /\ active_piece' \in [Worker -> Piece \cup {NoPiece}]
         /\ \A v \in Worker \ {w} : active_piece'[v] = active_piece[v]
         /\ \A p \in Piece : piece_checklist'[p] => list[p] \/ active_piece'[w] = p
<1>1. CASE /\ piece_checklist' = list
           /\ active_piece' = [active_piece EXCEPT ![w] = NoPiece]
           /\ \/ pieces_downloaded' = TotalPieces /\ stopped' = TRUE
              \/ pieces_downloaded' # TotalPieces /\ UNCHANGED stopped
  BY <1>1 DEF BoardTypes
<1>2. CASE /\ pieces_downloaded' # TotalPieces
           /\ Missing(w, list) # {}
           /\ LET p == Lowest(Missing(w, list))
              IN  /\ piece_checklist' = [list EXCEPT ![p] = TRUE]
                  /\ active_piece' = [active_piece EXCEPT ![w] = p]
           /\ UNCHANGED stopped
  <2> DEFINE p == Lowest(Missing(w, list))
  <2>1. Missing(w, list) \subseteq Nat /\ Missing(w, list) # {}
    BY <1>2 DEF Missing, Piece
  <2>2. p \in Piece
    BY <2>1, LowestIsLeast DEF Missing
  <2>3. /\ piece_checklist' = [list EXCEPT ![p] = TRUE]
        /\ active_piece' = [active_piece EXCEPT ![w] = p]
    BY <1>2
  <2> HIDE DEF p
  <2> QED
    BY <2>2, <2>3, <1>2 DEF BoardTypes
<1> QED
  BY <1>1, <1>2 DEF request_work

\* Starting requests keeps their numbers within MaxWrites, and touches only w's.
LEMMA WritesStarted ==
  ASSUME RestTypes, SwarmAssumption, NEW w \in Worker, StartWrites(w)
  PROVE  /\ writes' \in [Worker -> 0 .. MaxWrites]
         /\ doomed' \in [Worker -> 0 .. MaxWrites]
         /\ \A v \in Worker \ {w} : writes'[v] = writes[v] /\ doomed'[v] = doomed[v]
<1>1. MaxWrites \in Nat
  BY DEF SwarmAssumption
<1>2. PICK k \in 0 .. MaxWrites :
        IF socket[w] = "open"
        THEN /\ writes[w] + k <= MaxWrites
             /\ writes' = [writes EXCEPT ![w] = @ + k]
             /\ UNCHANGED doomed
        ELSE /\ doomed[w] + k <= MaxWrites
             /\ doomed' = [doomed EXCEPT ![w] = @ + k]
             /\ UNCHANGED writes
  BY DEF StartWrites
<1> QED
  BY <1>1, <1>2 DEF RestTypes

\* Destroying a PeerClient drops the piece of a worker that has nothing pending.
LEMMA Released ==
  ASSUME BoardTypes, RestTypes, NEW w \in Worker, Release(w)
  PROVE  /\ active_piece' \in [Worker -> Piece \cup {NoPiece}]
         /\ has' \in [Worker -> SUBSET Piece]
         /\ \A v \in Worker \ {w} : active_piece'[v] = active_piece[v]
         /\ reading'[w] # "none" => active_piece' = active_piece
BY DEF BoardTypes, RestTypes, Release

\* A piece a step leaves claimed was claimed before, and every reader that held it
\* still does; or w holds it now.
LEMMA ClaimsKept ==
  ASSUME NoPieceLost, Working, NEW w \in Worker,
         \A p \in Piece : piece_checklist'[p] /\ p \notin on_disk' =>
           \/ /\ piece_checklist[p] /\ p \notin on_disk
              /\ \A v \in Worker : active_piece[v] = p /\ reading[v] # "none" =>
                   active_piece'[v] = p /\ reading'[v] # "none"
           \/ active_piece'[w] = p /\ reading'[w] # "none"
  PROVE  NoPieceLost'
BY DEF NoPieceLost

\* Requeued(w) keeps what the others hold.
LEMMA RequeuedKeeps ==
  ASSUME BoardTypes, NEW w \in Worker
  PROVE  /\ Requeued(w) \in [Piece -> BOOLEAN]
         /\ \A p \in Piece :
              Requeued(w)[p] <=> piece_checklist[p] /\ p # active_piece[w]
<1>1. \A p \in Piece : piece_checklist[p] \in BOOLEAN
  BY DEF BoardTypes
<1> QED
  BY <1>1 DEF Requeued

\* While the loop runs and a worker holds a piece, some piece is still to come.
LEMMA PiecesToCome ==
  ASSUME SwarmAssumption, BoardInv, LoopRuns
  PROVE  /\ TotalPieces # 0 => pieces_downloaded < TotalPieces
         /\ \A w \in Worker : active_piece[w] # NoPiece =>
              active_piece[w] \in Piece /\ TotalPieces # 0
<1>1. TotalPieces \in Nat /\ pieces_downloaded \in 0 .. TotalPieces
  BY DEF SwarmAssumption, BoardInv, BoardTypes
<1>2. TotalPieces # 0 => pieces_downloaded < TotalPieces
  BY <1>1 DEF BoardInv, CounterInStep, LoopRuns, is_download_complete
<1>3. \A w \in Worker : active_piece[w] # NoPiece => active_piece[w] \in Piece
  BY DEF BoardInv, BoardTypes
<1> QED
  BY <1>1, <1>2, <1>3 DEF Piece

\* The board after a disconnect of w: what w held is back.
LEMMA DisconnectBoard ==
  ASSUME BoardInv, Working, NEW w \in Worker, NEW r \in Readings, disconnect(w, r),
         \A v \in Worker \ {w} :
           /\ reading'[v] \in {reading[v], "connect"}
           /\ active_piece'[v] = active_piece[v],
         active_piece' \in [Worker -> Piece \cup {NoPiece}],
         UNCHANGED <<main, stopped, pieces_downloaded, on_disk>>
  PROVE  BoardInv'
<1>1. piece_checklist' = Requeued(w)
  BY DEF disconnect, handle_disconnect
<1>2. BoardTypes
  BY DEF BoardInv
<1>3. BoardTypes'
  BY <1>1, <1>2, RequeuedKeeps DEF BoardTypes
<1>4. CounterInStep' /\ StartsEmpty'
  BY DEF BoardInv, CounterInStep, StartsEmpty, is_download_complete
<1>5. NoPieceLost'
  <2>1. ASSUME NEW p \in Piece, piece_checklist'[p], p \notin on_disk'
        PROVE  /\ piece_checklist[p] /\ p \notin on_disk
               /\ \A v \in Worker : active_piece[v] = p /\ reading[v] # "none" =>
                    active_piece'[v] = p /\ reading'[v] # "none"
    BY <1>1, <1>2, <2>1, RequeuedKeeps
  <2> QED
    BY <2>1, ClaimsKept DEF BoardInv
<1> QED
  BY <1>3, <1>4, <1>5 DEF BoardInv

\* The board after a handler that leaves the pieces where they are.
LEMMA QuietBoard ==
  ASSUME BoardInv, UNCHANGED <<board, active_piece>>,
         main' \in MainStates, stopped' \in BOOLEAN,
         Working' => Working, main' = "running" => main = "running",
         main' = "created" => main = "created",
         stopped => stopped',
         \A v \in Worker : reading[v] # "none" => reading'[v] # "none"
  PROVE  BoardInv'
<1>1. BoardTypes' /\ CounterInStep' /\ StartsEmpty'
  BY DEF BoardInv, BoardTypes, CounterInStep, StartsEmpty, is_download_complete, board
<1>2. NoPieceLost'
  BY DEF BoardInv, NoPieceLost, board
<1> QED
  BY <1>1, <1>2 DEF BoardInv

-----------------------------------------------------------------------------
\* The pool and the requests after a handler of w that ends with read_message_header.
LEMMA ReadsOnPool ==
  ASSUME IInv, Working, main' = main, NEW w \in Worker, reading[w] # "none", ReadNext(w),
         UNCHANGED <<pool, socket>>,
         main' = "running" /\ is_download_complete => is_download_complete',
         writes' \in [Worker -> 0 .. MaxWrites],
         doomed' \in [Worker -> 0 .. MaxWrites],
         has' \in [Worker -> SUBSET Piece],
         \A v \in Worker \ {w} : writes'[v] = writes[v] /\ doomed'[v] = doomed[v]
  PROVE  /\ PoolInv' /\ RestTypes' /\ Unborn'
         /\ reading'[w] # "none"
         /\ \A v \in Worker \ {w} : reading'[v] = reading[v]
<1>1. PoolInv /\ Unborn
  BY DEF IInv
<1>2. /\ reading' \in [Worker -> Readings]
      /\ reading'[w] # "none"
      /\ \A v \in Worker \ {w} : reading'[v] = reading[v]
      /\ \A v \in Worker : socket[v] = "open" =>
           reading'[v] \in {"connect", "handshake", "message"}
  BY <1>1, ReadsOn
<1>3. PoolInv'
  BY <1>1, <1>2, QuietPool DEF Working
<1>4. RestTypes'
  BY DEF RestTypes
<1>5. Unborn'
  BY <1>1, <1>2 DEF Unborn
<1> QED
  BY <1>2, <1>3, <1>4, <1>5

\* Requests and unborn workers after a disconnect of w.
LEMMA DisconnectRest ==
  ASSUME Unborn, NEW w \in Worker,
         \A v \in Worker : socket'[v] = "none" =>
           v # w /\ socket[v] = "none" /\ reading'[v] = reading[v],
         \A v \in Worker \ {w} : writes'[v] = writes[v] /\ doomed'[v] = doomed[v]
  PROVE  Unborn'
BY DEF Unborn

-----------------------------------------------------------------------------
\* The initial states satisfy the inductive invariant.
LEMMA InitInv == SwarmAssumption /\ Init => IInv
<1> SUFFICES ASSUME SwarmAssumption, Init
             PROVE  IInv
  OBVIOUS
<1> USE DEF Init
<1>1. PoolTypes
  BY DEF SwarmAssumption, PoolTypes, PoolStates, SocketStates, Readings
<1>2. Budget(pool_state, retry_count, made) /\ Numbered(socket, made)
  BY DEF SwarmAssumption, Budget, Numbered
<1>3. Slots(active_workers, socket, reading)
  BY FS_EmptySet DEF SwarmAssumption, Slots
<1>4. SlotsFilled
  BY DEF SlotsFilled
<1>5. BoardTypes /\ StartsEmpty
  <2>1. main \in MainStates /\ stopped \in BOOLEAN
    BY DEF MainStates
  <2>3. pieces_downloaded \in 0 .. TotalPieces
    BY DEF SwarmAssumption
  <2>2. /\ piece_checklist \in [Piece -> BOOLEAN] /\ on_disk \subseteq Piece
        /\ active_piece \in [Worker -> Piece \cup {NoPiece}]
    OBVIOUS
  <2> QED
    BY <2>1, <2>2, <2>3 DEF BoardTypes, StartsEmpty
<1>6. CounterInStep
  BY FS_EmptySet DEF SwarmAssumption, CounterInStep
<1>7. NoPieceLost
  BY DEF NoPieceLost
<1>8. RestTypes /\ Unborn
  BY DEF SwarmAssumption, RestTypes, Unborn
<1> QED
  BY <1>1, <1>2, <1>3, <1>4, <1>5, <1>6, <1>7, <1>8 DEF IInv, PoolInv, BoardInv

\* A handler of a worker's connection preserves the inductive invariant.
LEMMA HandlerInv ==
  ASSUME SwarmAssumption, IInv, NEW w \in Worker, Handler(w)
  PROVE  IInv'
<1> USE DEF pool, board, conn
<1>1. /\ PoolInv /\ BoardInv /\ RestTypes /\ Unborn
      /\ PoolTypes /\ BoardTypes /\ NoPieceLost
  BY DEF IInv, PoolInv, BoardInv
<1>2. SUFFICES ASSUME LoopRuns, Working
               PROVE  IInv'
  <2>1. LoopRuns
    BY DEF Handler, Message, Pending, ConnectFails, Connects, HandshakeWriteThrows,
           HandshakeFails, HandshakeRead, ReadFails, Choke, Unchoke, Announce,
           Block, Complete, PieceStored, PieceNotStored, PieceCorrupt, HashThrows,
           OtherMessage, WriteDone, WriteFails
  <2> QED
    BY <2>1, <1>2 DEF LoopRuns, Working
<1>3. /\ "none" \in Readings /\ "dead" \in Readings /\ reading[w] \in Readings
      /\ "handshake" \in Readings
  BY <1>1 DEF PoolTypes, Readings
<1>4. reading[w] # "none" \/ writes[w] > 0 \/ doomed[w] > 0 => socket[w] # "none"
  BY <1>1 DEF Unborn
\* A handler that only drops the peer.
<1>5. ASSUME disconnect(w, "none"), reading[w] # "none",
             UNCHANGED <<main, stopped, pieces_downloaded, on_disk,
                         writes, doomed>>,
             active_piece' \in [Worker -> Piece \cup {NoPiece}],
             has' \in [Worker -> SUBSET Piece],
             \A v \in Worker \ {w} : active_piece'[v] = active_piece[v]
      PROVE  IInv'
  <2>1. /\ PoolInv'
        /\ \A v \in Worker \ {w} : reading'[v] \in {reading[v], "connect"}
        /\ \A v \in Worker : socket'[v] = "none" =>
             v # w /\ socket[v] = "none" /\ reading'[v] = reading[v]
    BY <1>1, <1>2, <1>3, <1>4, <1>5, DisconnectPool
  <2>2. BoardInv'
    BY <1>1, <1>2, <1>3, <1>5, <2>1, DisconnectBoard
  <2>3. RestTypes' /\ Unborn'
    BY <1>1, <1>5, <2>1, DisconnectRest DEF RestTypes
  <2> QED
    BY <2>1, <2>2, <2>3 DEF IInv
<1>6. CASE ConnectFails(w)
  BY <1>1, <1>5, <1>6 DEF ConnectFails, Pending, BoardTypes, RestTypes
<1>7. CASE Connects(w)
  <2>1. /\ reading' = [reading EXCEPT ![w] = "handshake"]
        /\ UNCHANGED <<main, stopped, pool, board, socket, writes, doomed,
                       active_piece, has>>
        /\ reading[w] = "connect"
    BY <1>7 DEF Connects, Pending
  <2>2. reading' \in [Worker -> Readings]
    BY <1>1, <1>3, <2>1 DEF PoolTypes
  <2>3. \A v \in Worker : socket[v] = "open" =>
          reading'[v] \in {"connect", "handshake", "message"}
    BY <1>1, <1>2, <2>1 DEF PoolInv, PoolTypes, Slots
  <2>4. PoolInv'
    BY <1>1, <2>1, <2>2, <2>3, QuietPool DEF Working, is_download_complete
  <2>5. BoardInv'
    BY <1>1, <2>1, QuietBoard DEF Working, BoardTypes, PoolTypes
  <2>6. RestTypes' /\ Unborn'
    BY <1>1, <1>4, <2>1 DEF RestTypes, Unborn, PoolTypes
  <2> QED
    BY <2>4, <2>5, <2>6 DEF IInv
<1>8. CASE HandshakeWriteThrows(w)
  <2>1. main' = "aborted" /\ UNCHANGED <<stopped, pool, board, conn>>
    BY <1>8 DEF HandshakeWriteThrows
  <2>2. PoolInv'
    BY <1>1, <2>1, QuietPool DEF Working, PoolInv, PoolTypes, Slots
  <2>3. BoardInv'
    BY <1>1, <2>1, QuietBoard DEF Working, BoardTypes, MainStates
  <2>4. RestTypes' /\ Unborn'
    BY <1>1, <2>1 DEF RestTypes, Unborn
  <2> QED
    BY <2>2, <2>3, <2>4 DEF IInv
<1>9. CASE HandshakeFails(w)
  BY <1>1, <1>5, <1>9 DEF HandshakeFails, Pending, BoardTypes, RestTypes
<1>10. CASE ReadFails(w)
  <2>1. /\ disconnect(w, "none") /\ Release(w)
        /\ UNCHANGED <<main, stopped, pieces_downloaded, on_disk, writes, doomed>>
        /\ reading[w] # "none"
    BY <1>10 DEF ReadFails, Pending
  <2> QED
    BY <1>1, <1>5, <2>1, Released
\* A handler that reads on and leaves the pieces where they are.
<1>11. ASSUME ReadNext(w), reading[w] # "none",
              UNCHANGED <<main, stopped, pool, board, socket, active_piece>>,
              writes' \in [Worker -> 0 .. MaxWrites],
              doomed' \in [Worker -> 0 .. MaxWrites],
              has' \in [Worker -> SUBSET Piece],
              \A v \in Worker \ {w} : writes'[v] = writes[v] /\ doomed'[v] = doomed[v]
       PROVE  IInv'
  <2>1. /\ PoolInv' /\ RestTypes' /\ Unborn'
        /\ reading'[w] # "none"
        /\ \A v \in Worker \ {w} : reading'[v] = reading[v]
    BY <1>2, <1>11, ReadsOnPool DEF is_download_complete
  <2>2. BoardInv'
    BY <1>1, <1>2, <1>11, <2>1, QuietBoard DEF Working, BoardTypes
  <2> QED
    BY <2>1, <2>2 DEF IInv
<1>12. CASE HandshakeRead(w)
  BY <1>1, <1>11, <1>12 DEF HandshakeRead, Pending, RestTypes
<1>13. CASE OtherMessage(w)
  BY <1>1, <1>11, <1>13 DEF OtherMessage, Pending, RestTypes
<1>14. CASE \E S \in Offers : Announce(w, S)
  <2>1. PICK S \in Offers : Announce(w, S)
    BY <1>14
  <2>2. has' \in [Worker -> SUBSET Piece]
    BY <1>1, <2>1 DEF Announce, RestTypes, SwarmAssumption
  <2> QED
    BY <1>1, <1>11, <2>1, <2>2 DEF Announce, Pending, RestTypes
<1>15. CASE Block(w)
  <2>1. StartWrites(w) /\ has' = has
    BY <1>15 DEF Block
  <2> QED
    BY <1>1, <1>11, <1>15, <2>1, WritesStarted DEF Block, Pending, RestTypes
<1>16. CASE Choke(w)
  <2>1. /\ reading[w] # "none" /\ ReadNext(w)
        /\ piece_checklist' = Requeued(w)
        /\ active_piece' = [active_piece EXCEPT ![w] = NoPiece]
        /\ UNCHANGED <<main, stopped, pool, pieces_downloaded, on_disk,
                       socket, writes, doomed, has>>
    BY <1>16 DEF Choke, Pending
  <2>2. /\ PoolInv' /\ RestTypes' /\ Unborn'
        /\ reading'[w] # "none"
        /\ \A v \in Worker \ {w} : reading'[v] = reading[v]
    BY <1>1, <1>2, <2>1, ReadsOnPool DEF is_download_complete, RestTypes
  <2>3. BoardTypes'
    BY <1>1, <2>1, RequeuedKeeps DEF BoardTypes
  <2>4. CounterInStep' /\ StartsEmpty'
    BY <1>1, <2>1 DEF BoardInv, CounterInStep, StartsEmpty, is_download_complete
  <2>5. ASSUME NEW p \in Piece, piece_checklist'[p], p \notin on_disk'
        PROVE  /\ piece_checklist[p] /\ p \notin on_disk
               /\ \A v \in Worker : active_piece[v] = p /\ reading[v] # "none" =>
                    active_piece'[v] = p /\ reading'[v] # "none"
    BY <1>1, <2>1, <2>2, <2>5, RequeuedKeeps DEF BoardTypes
  <2>6. NoPieceLost'
    BY <1>1, <1>2, <2>5, ClaimsKept
  <2> QED
    BY <2>2, <2>3, <2>4, <2>6 DEF IInv, BoardInv
\* A handler that asks for work, having counted n pieces.
<1>17. ASSUME NEW list \in [Piece -> BOOLEAN], request_work(w, list),
              ReadNext(w), reading[w] # "none",
              UNCHANGED <<main, pool, socket, has>>,
              writes' \in [Worker -> 0 .. MaxWrites],
              doomed' \in [Worker -> 0 .. MaxWrites],
              \A v \in Worker \ {w} : writes'[v] = writes[v] /\ doomed'[v] = doomed[v],
              on_disk' \subseteq Piece,
              pieces_downloaded' \in 0 .. TotalPieces,
              Cardinality(on_disk') <= pieces_downloaded',
              is_download_complete => is_download_complete',
              \A p \in Piece : list[p] /\ p \notin on_disk' =>
                piece_checklist[p] /\ p \notin on_disk /\ p # active_piece[w]
       PROVE  IInv'
  <2>1. /\ PoolInv' /\ RestTypes' /\ Unborn'
        /\ reading'[w] # "none"
        /\ \A v \in Worker \ {w} : reading'[v] = reading[v]
    BY <1>1, <1>2, <1>17, ReadsOnPool DEF RestTypes
  <2>2. /\ stopped' \in BOOLEAN
        /\ pieces_downloaded' = TotalPieces => stopped'
        /\ piece_checklist' \in [Piece -> BOOLEAN]
        /\ active_piece' \in [Worker -> Piece \cup {NoPiece}]
        /\ \A v \in Worker \ {w} : active_piece'[v] = active_piece[v]
        /\ \A p \in Piece : piece_checklist'[p] => list[p] \/ active_piece'[w] = p
    BY <1>1, <1>17, WorkRequested
  <2>3. BoardTypes'
    BY <1>1, <1>17, <2>2 DEF BoardTypes
  <2>4. CounterInStep'
    BY <1>17, <2>2, <2>3 DEF CounterInStep, is_download_complete, BoardTypes
  <2>5. StartsEmpty'
    BY <1>2, <1>17 DEF StartsEmpty, LoopRuns
  <2>6. ASSUME NEW p \in Piece, piece_checklist'[p], p \notin on_disk'
        PROVE  \/ /\ piece_checklist[p] /\ p \notin on_disk
                  /\ \A v \in Worker : active_piece[v] = p /\ reading[v] # "none" =>
                       active_piece'[v] = p /\ reading'[v] # "none"
               \/ active_piece'[w] = p /\ reading'[w] # "none"
    BY <1>17, <2>1, <2>2, <2>6
  <2>7. NoPieceLost'
    BY <1>1, <1>2, <2>6, ClaimsKept
  <2> QED
    BY <2>1, <2>3, <2>4, <2>5, <2>7 DEF IInv, BoardInv
<1>18. CASE Unchoke(w)
  <2>1. /\ writes' \in [Worker -> 0 .. MaxWrites]
        /\ doomed' \in [Worker -> 0 .. MaxWrites]
        /\ \A v \in Worker \ {w} : writes'[v] = writes[v] /\ doomed'[v] = doomed[v]
    BY <1>1, <1>18, WritesStarted DEF Unchoke, RestTypes
  <2>2. \A p \in Piece : p # active_piece[w]
    BY <1>18 DEF Unchoke, Piece, NoPiece
  <2>3. /\ piece_checklist \in [Piece -> BOOLEAN] /\ on_disk \subseteq Piece
        /\ pieces_downloaded \in 0 .. TotalPieces
        /\ Cardinality(on_disk) <= pieces_downloaded
    BY <1>1 DEF BoardInv, BoardTypes, CounterInStep
  <2>4. /\ request_work(w, piece_checklist) /\ ReadNext(w) /\ reading[w] # "none"
        /\ UNCHANGED <<main, pool, socket, has, on_disk, pieces_downloaded>>
    BY <1>18 DEF Unchoke, Pending
  <2> QED
    BY <1>17, <2>1, <2>2, <2>3, <2>4 DEF is_download_complete
<1>19. CASE PieceStored(w)
  <2>1. /\ active_piece[w] # NoPiece
        /\ request_work(w, piece_checklist) /\ ReadNext(w) /\ reading[w] # "none"
        /\ StartWrites(w)
        /\ UNCHANGED <<main, pool, socket, has>>
        /\ pieces_downloaded' = pieces_downloaded + 1
        /\ on_disk' = on_disk \cup {active_piece[w]}
    BY <1>19 DEF PieceStored, Complete, Pending
  <2>2. /\ writes' \in [Worker -> 0 .. MaxWrites]
        /\ doomed' \in [Worker -> 0 .. MaxWrites]
        /\ \A v \in Worker \ {w} : writes'[v] = writes[v] /\ doomed'[v] = doomed[v]
    BY <1>1, <2>1, WritesStarted
  <2>3. active_piece[w] \in Piece /\ pieces_downloaded < TotalPieces
    BY <1>1, <1>2, <2>1, PiecesToCome
  <2>4. /\ TotalPieces \in Nat /\ pieces_downloaded \in 0 .. TotalPieces
        /\ piece_checklist \in [Piece -> BOOLEAN] /\ on_disk \subseteq Piece
        /\ Cardinality(on_disk) <= pieces_downloaded
    BY <1>1 DEF SwarmAssumption, BoardInv, BoardTypes, CounterInStep
  <2>5. pieces_downloaded' \in 0 .. TotalPieces /\ ~ is_download_complete
    BY <2>1, <2>3, <2>4 DEF is_download_complete
  <2>6. Cardinality(on_disk') <= pieces_downloaded'
    <3>1. on_disk \in SUBSET (0 .. TotalPieces - 1) /\ IsFiniteSet(0 .. TotalPieces - 1)
      BY <2>4, FS_Interval DEF Piece
    <3>2. IsFiniteSet(on_disk) /\ Cardinality(on_disk) \in Nat
      BY <3>1, FS_Subset, FS_CardinalityType
    <3>3. Cardinality(on_disk') \in {Cardinality(on_disk), Cardinality(on_disk) + 1}
      BY <2>1, <3>2, FS_AddElement
    <3> QED
      BY <2>1, <2>4, <3>2, <3>3
  <2>7. on_disk' \subseteq Piece
    BY <2>1, <2>3, <2>4
  <2>8. \A p \in Piece : piece_checklist[p] /\ p \notin on_disk' =>
          piece_checklist[p] /\ p \notin on_disk /\ p # active_piece[w]
    BY <2>1
  <2> QED
    BY <1>17, <2>1, <2>2, <2>4, <2>5, <2>6, <2>7, <2>8
<1>20. CASE PieceNotStored(w)
  <2>1. /\ request_work(w, Requeued(w)) /\ ReadNext(w) /\ reading[w] # "none"
        /\ StartWrites(w)
        /\ UNCHANGED <<main, pool, socket, has, pieces_downloaded, on_disk>>
    BY <1>20 DEF PieceNotStored, Complete, Pending
  <2>2. /\ writes' \in [Worker -> 0 .. MaxWrites]
        /\ doomed' \in [Worker -> 0 .. MaxWrites]
        /\ \A v \in Worker \ {w} : writes'[v] = writes[v] /\ doomed'[v] = doomed[v]
    BY <1>1, <2>1, WritesStarted
  <2>3. /\ Requeued(w) \in [Piece -> BOOLEAN]
        /\ \A p \in Piece : Requeued(w)[p] /\ p \notin on_disk' =>
             piece_checklist[p] /\ p \notin on_disk /\ p # active_piece[w]
    BY <1>1, <2>1, RequeuedKeeps
  <2>4. /\ on_disk \subseteq Piece
        /\ pieces_downloaded \in 0 .. TotalPieces
        /\ Cardinality(on_disk) <= pieces_downloaded
    BY <1>1 DEF BoardInv, BoardTypes, CounterInStep
  <2> QED
    BY <1>17, <2>1, <2>2, <2>3, <2>4 DEF is_download_complete
<1>21. CASE PieceCorrupt(w)
  <2>1. /\ reading[w] # "none"
        /\ active_piece' = [active_piece EXCEPT ![w] = NoPiece]
        /\ StartWrites(w) /\ disconnect(w, "dead")
        /\ UNCHANGED <<main, stopped, pieces_downloaded, on_disk, has>>
    BY <1>21 DEF PieceCorrupt, Complete, Pending
  <2>2. /\ PoolInv'
        /\ \A v \in Worker \ {w} : reading'[v] \in {reading[v], "connect"}
        /\ \A v \in Worker : socket'[v] = "none" =>
             v # w /\ socket[v] = "none" /\ reading'[v] = reading[v]
    BY <1>1, <1>2, <1>3, <1>4, <2>1, DisconnectPool
  <2>3. /\ active_piece' \in [Worker -> Piece \cup {NoPiece}]
        /\ \A v \in Worker \ {w} : active_piece'[v] = active_piece[v]
    BY <1>1, <2>1 DEF BoardTypes
  <2>4. BoardInv'
    BY <1>1, <1>2, <1>3, <2>1, <2>2, <2>3, DisconnectBoard
  <2>5. /\ writes' \in [Worker -> 0 .. MaxWrites]
        /\ doomed' \in [Worker -> 0 .. MaxWrites]
        /\ \A v \in Worker \ {w} : writes'[v] = writes[v] /\ doomed'[v] = doomed[v]
    BY <1>1, <2>1, WritesStarted
  <2>6. RestTypes' /\ Unborn'
    BY <1>1, <2>1, <2>2, <2>5, DisconnectRest DEF RestTypes
  <2> QED
    BY <2>2, <2>4, <2>6 DEF IInv
<1>22. CASE WriteDone(w)
  <2>1. /\ writes[w] > 0 /\ writes' = [writes EXCEPT ![w] = @ - 1]
        /\ Release(w)
        /\ UNCHANGED <<main, stopped, pool, board, socket, reading, doomed>>
    BY <1>22 DEF WriteDone
  <2>2. /\ active_piece' \in [Worker -> Piece \cup {NoPiece}]
        /\ has' \in [Worker -> SUBSET Piece]
        /\ \A v \in Worker \ {w} : active_piece'[v] = active_piece[v]
        /\ reading'[w] # "none" => active_piece' = active_piece
    BY <1>1, <2>1, Released
  <2>3. PoolInv'
    BY <1>1, <2>1, QuietPool DEF PoolInv, PoolTypes, Slots, Working, is_download_complete
  <2>4. BoardTypes' /\ CounterInStep' /\ StartsEmpty'
    BY <1>1, <2>1, <2>2
       DEF BoardInv, BoardTypes, CounterInStep, StartsEmpty, is_download_complete
  <2>5. \A v \in Worker : reading[v] # "none" => active_piece'[v] = active_piece[v]
    BY <2>1, <2>2
  <2>6. NoPieceLost'
    BY <1>1, <2>1, <2>5 DEF NoPieceLost, Working
  <2>7. RestTypes'
    <3>1. MaxWrites \in Nat /\ writes \in [Worker -> 0 .. MaxWrites]
      BY <1>1 DEF RestTypes, SwarmAssumption
    <3>2. writes' \in [Worker -> 0 .. MaxWrites]
      BY <2>1, <3>1
    <3> QED
      BY <1>1, <2>1, <2>2, <3>2 DEF RestTypes
  <2>8. Unborn'
    BY <1>1, <1>4, <2>1 DEF RestTypes, Unborn
  <2> QED
    BY <2>3, <2>4, <2>6, <2>7, <2>8 DEF IInv, BoardInv
<1>23. CASE WriteFails(w)
  <2>1. /\ disconnect(w, reading[w]) /\ Release(w)
        /\ writes[w] > 0 \/ doomed[w] > 0
        /\ UNCHANGED <<main, stopped, pieces_downloaded, on_disk>>
    BY <1>23 DEF WriteFails
  <2>2. /\ PoolInv'
        /\ \A v \in Worker \ {w} : reading'[v] \in {reading[v], "connect"}
        /\ \A v \in Worker : socket'[v] = "none" =>
             v # w /\ socket[v] = "none" /\ reading'[v] = reading[v]
    BY <1>1, <1>2, <1>3, <1>4, <2>1, DisconnectPool
  <2>3. /\ active_piece' \in [Worker -> Piece \cup {NoPiece}]
        /\ has' \in [Worker -> SUBSET Piece]
        /\ \A v \in Worker \ {w} : active_piece'[v] = active_piece[v]
    BY <1>1, <2>1, Released
  <2>4. BoardInv'
    BY <1>1, <1>2, <1>3, <2>1, <2>2, <2>3, DisconnectBoard
  <2>5. /\ writes' \in [Worker -> 0 .. MaxWrites]
        /\ doomed' \in [Worker -> 0 .. MaxWrites]
        /\ \A v \in Worker \ {w} : writes'[v] = writes[v] /\ doomed'[v] = doomed[v]
    BY <1>1, <1>23 DEF WriteFails, RestTypes, SwarmAssumption
  <2>6. RestTypes' /\ Unborn'
    BY <1>1, <2>2, <2>3, <2>5, DisconnectRest DEF RestTypes
  <2> QED
    BY <2>2, <2>4, <2>6 DEF IInv
<1>24. CASE HashThrows(w)
  <2>1. /\ reading[w] # "none" /\ main' = "aborted"
        /\ active_piece' = [active_piece EXCEPT ![w] = NoPiece]
        /\ StartWrites(w)
        /\ UNCHANGED <<stopped, pool, board, socket, reading, has>>
    BY <1>24 DEF HashThrows, Complete, Pending
  <2>2. PoolInv'
    BY <1>1, <2>1, QuietPool DEF Working, PoolInv, PoolTypes, Slots
  <2>3. BoardTypes' /\ CounterInStep' /\ StartsEmpty' /\ NoPieceLost'
    BY <1>1, <2>1
       DEF BoardInv, BoardTypes, MainStates, CounterInStep, StartsEmpty, NoPieceLost,
           Working, is_download_complete
  <2>4. /\ writes' \in [Worker -> 0 .. MaxWrites]
        /\ doomed' \in [Worker -> 0 .. MaxWrites]
        /\ \A v \in Worker \ {w} : writes'[v] = writes[v] /\ doomed'[v] = doomed[v]
    BY <1>1, <2>1, WritesStarted
  <2>5. RestTypes' /\ Unborn'
    BY <1>1, <1>4, <2>1, <2>4 DEF RestTypes, Unborn
  <2> QED
    BY <2>2, <2>3, <2>5 DEF IInv, BoardInv
<1> QED
  BY <1>6, <1>7, <1>8, <1>9, <1>10, <1>12, <1>13, <1>14, <1>15, <1>16, <1>18, <1>19,
     <1>20, <1>21, <1>22, <1>23, <1>24 DEF Handler, Message

\* Every step preserves the inductive invariant.
LEMMA StepInv == SwarmAssumption /\ IInv /\ [Next]_vars => IInv'
<1> SUFFICES ASSUME SwarmAssumption, IInv, [Next]_vars
             PROVE  IInv'
  OBVIOUS
<1> USE DEF pool, board, conn
<1>1. /\ PoolInv /\ BoardInv /\ RestTypes /\ Unborn
      /\ PoolTypes /\ BoardTypes /\ NoPieceLost
  BY DEF IInv, PoolInv, BoardInv
<1>2. CASE StartDownload
  <2>1. /\ main = "created" /\ main' = "running"
        /\ maintain_swarm_strength(pool_state, active_workers, socket, reading)
        /\ UNCHANGED <<stopped, retry_count, board, writes, doomed, active_piece, has>>
    BY <1>2 DEF StartDownload
  <2>2. /\ pool_state \in [Entry -> PoolStates] /\ retry_count \in [Entry -> Nat]
        /\ active_workers \in SUBSET Worker
        /\ made \in [Entry -> 0 .. MaxRetry]
        /\ socket \in [Worker -> SocketStates] /\ reading \in [Worker -> Readings]
        /\ Budget(pool_state, retry_count, made) /\ Numbered(socket, made)
        /\ Slots(active_workers, socket, reading)
    BY <1>1, <2>1 DEF PoolInv, PoolTypes, Working
  <2>3. /\ pool_state' \in [Entry -> PoolStates]
        /\ made' \in [Entry -> 0 .. MaxRetry]
        /\ active_workers' \subseteq Worker
        /\ socket' \in [Worker -> SocketStates]
        /\ reading' \in [Worker -> Readings]
        /\ Budget(pool_state', retry_count, made')
        /\ Numbered(socket', made')
        /\ \A w \in Worker :
             /\ reading'[w] \in {reading[w], "connect"}
             /\ socket'[w] = "none" => socket[w] = "none" /\ reading'[w] = reading[w]
        /\ \A e \in Entry : pool_state[e] = "DEAD" =>
             pool_state'[e] = "DEAD" /\ made'[e] = made[e]
    BY <2>1, <2>2, MaintainBudget
  <2>4. /\ Slots(active_workers', socket', reading')
        /\ ~ is_download_complete =>
             \/ Cardinality(active_workers') = NumConnections
             \/ Eligible(pool_state') = {}
    BY <2>1, <2>2, MaintainSlots
  <2>5. PoolTypes'
    BY <2>1, <2>2, <2>3 DEF PoolTypes
  <2>6. SlotsFilled'
    BY <2>1, <2>4 DEF SlotsFilled, is_download_complete, Eligible
  <2>7. PoolInv'
    BY <2>1, <2>3, <2>4, <2>5, <2>6 DEF PoolInv, Budget, Numbered, Slots
  <2>8. BoardTypes' /\ StartsEmpty'
    BY <1>1, <2>1 DEF BoardTypes, StartsEmpty, MainStates
  <2>9. CounterInStep'
    BY <1>1, <2>1 DEF BoardInv, CounterInStep, StartsEmpty, is_download_complete
  <2>10. NoPieceLost'
    BY <1>1, <2>1, <2>3 DEF NoPieceLost, Working
  <2>11. RestTypes' /\ Unborn'
    BY <1>1, <2>1, <2>3 DEF RestTypes, Unborn
  <2> QED
    BY <2>7, <2>8, <2>9, <2>10, <2>11 DEF IInv, BoardInv
<1>3. CASE \E w \in Worker : Handler(w)
  BY <1>3, HandlerInv
<1>4. CASE RunReturns \/ LoopEnds
  <2>1. /\ UNCHANGED <<stopped, pool, board, conn>>
        /\ main' \in MainStates /\ ~ Working' /\ main' # "running" /\ main' # "created"
    BY <1>4 DEF RunReturns, LoopEnds, MainStates, Working
  <2>2. PoolInv'
    BY <1>1, <2>1, QuietPool DEF PoolInv, PoolTypes, Slots
  <2>3. BoardInv'
    BY <1>1, <2>1, QuietBoard DEF BoardTypes
  <2>4. RestTypes' /\ Unborn'
    BY <1>1, <2>1 DEF RestTypes, Unborn
  <2> QED
    BY <2>2, <2>3, <2>4 DEF IInv
<1>5. CASE \E w \in Worker : CloseWorker(w)
  <2>1. PICK w \in Worker : CloseWorker(w)
    BY <1>5
  <2>2. /\ handle_disconnect(w, socket, reading)
        /\ main' \in {"complete", "torn"}
        /\ UNCHANGED <<stopped, pieces_downloaded, on_disk,
                       writes, doomed, active_piece, has>>
    BY <2>1 DEF CloseWorker
  <2>3. /\ socket \in [Worker -> SocketStates] /\ reading \in [Worker -> Readings]
        /\ Budget(pool_state, retry_count, made) /\ Numbered(socket, made)
    BY <1>1 DEF PoolInv, PoolTypes
  <2>4. /\ PoolTypes'
        /\ Budget(pool_state', retry_count', made')
        /\ Numbered(socket', made')
        /\ \A v \in Worker :
             /\ reading'[v] \in {reading[v], "connect"}
             /\ socket'[v] = "none" => socket[v] = "none" /\ reading'[v] = reading[v]
        /\ \A f \in Entry : pool_state[f] = "DEAD" =>
             pool_state'[f] = "DEAD" /\ made'[f] = made[f]
        /\ \E st \in [Entry -> PoolStates] :
             /\ Budget(st, retry_count', made)
             /\ maintain_swarm_strength(st, active_workers \ {w}, socket, reading)
    BY <1>1, <2>2, <2>3, DisconnectBudget
  <2>5. PoolInv'
    BY <2>2, <2>4 DEF PoolInv, Budget, Numbered, Working, SlotsFilled
  <2>6. piece_checklist' = Requeued(w)
    BY <2>2 DEF handle_disconnect
  <2>7. BoardTypes'
    BY <1>1, <2>2, <2>6, RequeuedKeeps DEF BoardTypes, MainStates
  <2>8. CounterInStep' /\ StartsEmpty' /\ NoPieceLost'
    BY <1>1, <2>2 DEF BoardInv, CounterInStep, StartsEmpty, NoPieceLost, Working
  <2>9. RestTypes' /\ Unborn'
    BY <1>1, <2>2, <2>4 DEF RestTypes, Unborn
  <2> QED
    BY <2>5, <2>7, <2>8, <2>9 DEF IInv, BoardInv
<1>6. CASE Terminated \/ UNCHANGED vars
  <2>1. UNCHANGED vars
    BY <1>6 DEF Terminated
  <2> QED
    BY <1>1, <2>1 DEF vars, IInv, PoolInv, PoolTypes, Budget, Numbered, Slots, SlotsFilled,
       Working, is_download_complete, Eligible, BoardInv, BoardTypes, CounterInStep,
       StartsEmpty, NoPieceLost, RestTypes, Unborn
<1> QED
  BY <1>2, <1>3, <1>4, <1>5, <1>6 DEF Next

-----------------------------------------------------------------------------
\* The inductive invariant holds in every reachable state.
THEOREM Invariance == Spec => []IInv
<1>1. Init => IInv
  BY InitInv, SwarmAssumption
<1>2. IInv /\ [Next]_vars => IInv'
  BY StepInv, SwarmAssumption
<1> QED
  BY <1>1, <1>2, PTL DEF Spec

\* Every variable keeps its type: no connection is made past the retry limit, and
\* pieces_downloaded_ does not pass total_pieces_.
THEOREM TypeCorrectness == Spec => []TypeOK
<1>1. IInv /\ hashes \in Hashes => TypeOK
  BY DEF IInv, PoolInv, BoardInv, PoolTypes, BoardTypes, RestTypes, SocketStates, TypeOK
<1>2. Init => hashes \in Hashes
  BY DEF Init
<1>3. hashes \in Hashes /\ [Next]_vars => (hashes \in Hashes)'
  BY DEF Next, vars
<1> QED
  BY <1>1, <1>2, <1>3, Invariance, PTL DEF Spec

\* Every piece that is marked in the checklist and not on disk is held by a worker
\* that will still store it or give it back, however the handlers interleave.
THEOREM PiecesAreKept == Spec => []NoPieceLost
<1>1. IInv => NoPieceLost
  BY DEF IInv, BoardInv
<1> QED
  BY <1>1, Invariance, PTL

\* The registered workers are the open connections, and each of them reads.
THEOREM SlotsAreHeld == Spec => []SlotsAreConnections
<1>1. IInv => SlotsAreConnections
  BY DEF IInv, PoolInv, Slots, SlotsAreConnections
<1> QED
  BY <1>1, Invariance, PTL

\* There are never more open connections than num_of_connection_.
THEOREM ConnectionLimit == Spec => []ConnectionsBounded
<1>1. IInv => ConnectionsBounded
  BY DEF IInv, PoolInv, Slots, ConnectionsBounded
<1> QED
  BY <1>1, Invariance, PTL

\* No slot stays free while a peer may be dialled and a piece is missing.
THEOREM SlotsStayFilled == Spec => []SlotsFilled
<1>1. IInv => SlotsFilled
  BY DEF IInv, PoolInv
<1> QED
  BY <1>1, Invariance, PTL

\* An entry is dialled at most once more than it has been charged a failure.
THEOREM DialsAreBudgeted == Spec => []DialBudget
<1>1. IInv => DialBudget
  BY DEF IInv, PoolInv, Budget, DialBudget
<1> QED
  BY <1>1, Invariance, PTL

\* pieces_downloaded_ stops at total_pieces_ and never lags behind the disk.
THEOREM CounterIsSound == Spec => []CounterInStep
<1>1. IInv => CounterInStep
  BY DEF IInv, BoardInv
<1> QED
  BY <1>1, Invariance, PTL

\* An entry that is marked DEAD stays so and is never dialled again.
THEOREM DeadStaysDead == Spec => DeadForGood
<1> DEFINE Stays == \A e \in Entry : pool_state[e] = "DEAD" =>
                      pool_state'[e] = "DEAD" /\ made'[e] = made[e]
<1>1. ASSUME IInv, Next
      PROVE  Stays
  <2> USE DEF pool
  <2>1. /\ SwarmAssumption /\ PoolTypes
        /\ Budget(pool_state, retry_count, made) /\ Numbered(socket, made)
    BY <1>1, SwarmAssumption DEF IInv, PoolInv
  <2>2. /\ socket \in [Worker -> SocketStates] /\ reading \in [Worker -> Readings]
        /\ pool_state \in [Entry -> PoolStates] /\ retry_count \in [Entry -> Nat]
        /\ made \in [Entry -> 0 .. MaxRetry]
        /\ active_workers \in SUBSET Worker
    BY <2>1 DEF PoolTypes
  <2>3. CASE StartDownload
    <3>1. maintain_swarm_strength(pool_state, active_workers, socket, reading)
      BY <2>3 DEF StartDownload
    <3> QED
      BY <2>1, <2>2, <3>1, MaintainBudget
  <2>4. ASSUME NEW w \in Worker, NEW sk \in [Worker -> SocketStates],
               NEW rd \in [Worker -> Readings], Numbered(sk, made),
               handle_disconnect(w, sk, rd)
        PROVE  Stays
    BY <2>1, <2>4, DisconnectBudget
  <2>5. ASSUME NEW w \in Worker, NEW r \in Readings, disconnect(w, r),
               reading[w] # "none" \/ writes[w] > 0 \/ doomed[w] > 0
        PROVE  Stays
    <3>1. socket[w] # "none"
      BY <1>1, <2>5 DEF IInv, Unborn
    <3>2. Numbered([socket EXCEPT ![w] = "closed"], made)
      BY <2>1, <2>2, <3>1 DEF Numbered
    <3>3. /\ [socket EXCEPT ![w] = "closed"] \in [Worker -> SocketStates]
          /\ [reading EXCEPT ![w] = r] \in [Worker -> Readings]
      BY <2>2 DEF SocketStates
    <3> QED
      BY <2>4, <2>5, <3>2, <3>3 DEF disconnect
  <2>6. ASSUME NEW w \in Worker, Handler(w)
        PROVE  Stays
    <3>1. CASE ConnectFails(w) \/ HandshakeFails(w) \/ ReadFails(w)
      BY <2>5, <3>1 DEF ConnectFails, HandshakeFails, ReadFails, Pending, Readings
    <3>2. CASE PieceCorrupt(w)
      BY <2>5, <3>2 DEF PieceCorrupt, Complete, Pending, Readings
    <3>3. CASE WriteFails(w)
      BY <2>2, <2>5, <3>3 DEF WriteFails
    <3>4. CASE UNCHANGED pool
      BY <3>4
    <3> QED
      BY <2>6, <3>1, <3>2, <3>3, <3>4
         DEF Handler, Message, Connects, HandshakeWriteThrows, HandshakeRead, Choke,
             Unchoke, Announce, Block, PieceStored, PieceNotStored, HashThrows,
             OtherMessage, WriteDone
  <2>7. ASSUME NEW w \in Worker, CloseWorker(w)
        PROVE  Stays
    BY <2>1, <2>2, <2>4, <2>7 DEF CloseWorker
  <2>8. CASE UNCHANGED pool
    BY <2>8
  <2> QED
    BY <1>1, <2>3, <2>6, <2>7, <2>8
       DEF Next, RunReturns, LoopEnds, Terminated, vars
<1>2. IInv /\ [Next]_vars => [Stays]_vars
  BY <1>1
<1> QED
  BY <1>2, Invariance, PTL DEF Spec, DeadForGood

-----------------------------------------------------------------------------
(* What becomes of the peers.                                              *)
(*                                                                         *)
(* handle_disconnect finds the pool entry of a connection by its address,  *)
(* without the port.  Where no two entries share an address it finds the   *)
(* right one, no entry is left CONNECTING without a connection, and a      *)
(* swarm that gives up has tried every peer as often as it may.            *)

\* No two entries of the pool have the same address.
DistinctAddresses == \A e, f \in Entry : Ip[e] = Ip[f] => e = f

\* The entries in state CONNECTING have a worker in aw.
InHand(st, aw) ==
  \A e \in Entry : st[e] = "CONNECTING" => \E w \in aw : w[1] = e

PeersInHand == Working => InHand(pool_state, active_workers)

\* Only the last piece stops the event loop.
StoppedIsComplete == stopped => is_download_complete

\* The loop that closes the connections is entered, and left, with the download
\* complete.
ClosingIsComplete ==
  main \in {"closing", "torn", "complete", "crashed"} => is_download_complete

-----------------------------------------------------------------------------
\* How a handler moves the counter, the stop of the loop and start_download: it
\* stops the loop only as it counts the last piece.
LEMMA HandlerEnds ==
  ASSUME NEW w \in Worker, Handler(w)
  PROVE  /\ main = "running" /\ ~ stopped
         /\ main' = "running" \/ main' = "aborted"
         /\ stopped' => is_download_complete'
<1> USE DEF LoopRuns, Pending, Complete, board, is_download_complete
<1>1. CASE \/ ConnectFails(w) \/ Connects(w) \/ HandshakeWriteThrows(w)
           \/ HandshakeFails(w) \/ HandshakeRead(w) \/ ReadFails(w)
           \/ WriteDone(w) \/ WriteFails(w)
  BY <1>1 DEF ConnectFails, Connects, HandshakeWriteThrows, HandshakeFails,
              HandshakeRead, ReadFails, WriteDone, WriteFails
<1>2. CASE \/ Choke(w) \/ Block(w) \/ OtherMessage(w) \/ PieceCorrupt(w)
           \/ HashThrows(w) \/ \E S \in Offers : Announce(w, S)
  BY <1>2 DEF Choke, Block, OtherMessage, PieceCorrupt, HashThrows, Announce
<1>3. CASE Unchoke(w) \/ PieceStored(w) \/ PieceNotStored(w)
  <2>1. /\ main = "running" /\ ~ stopped /\ main' = main
        /\ \E list : request_work(w, list)
    BY <1>3 DEF Unchoke, PieceStored, PieceNotStored
  <2> QED
    BY <2>1 DEF request_work
<1> QED
  BY <1>1, <1>2, <1>3 DEF Handler, Message

\* Only the last piece stops the event loop, and only a complete download closes the
\* connections.
THEOREM CompleteWhenStopped == Spec => [](StoppedIsComplete /\ ClosingIsComplete)
<1> DEFINE Inv == StoppedIsComplete /\ ClosingIsComplete
<1>1. Init => Inv
  BY DEF Init, StoppedIsComplete, ClosingIsComplete
<1>2. ASSUME Inv, [Next]_vars
      PROVE  Inv'
  <2> USE DEF StoppedIsComplete, ClosingIsComplete, is_download_complete
  <2>1. CASE StartDownload
    BY <1>2, <2>1 DEF StartDownload, board
  <2>2. CASE \E w \in Worker : Handler(w)
    BY <2>2, HandlerEnds
  <2>3. CASE RunReturns
    BY <1>2, <2>3 DEF RunReturns, board
  <2>4. CASE \E w \in Worker : CloseWorker(w)
    BY <1>2, <2>4 DEF CloseWorker
  <2>5. CASE LoopEnds
    BY <1>2, <2>5 DEF LoopEnds, board
  <2>6. CASE Terminated \/ UNCHANGED vars
    BY <1>2, <2>6 DEF Terminated, vars, board
  <2> QED
    BY <1>2, <2>1, <2>2, <2>3, <2>4, <2>5, <2>6 DEF Next
<1> QED
  BY <1>1, <1>2, PTL DEF Spec

-----------------------------------------------------------------------------
\* An entry that is dialled gets a worker of its own.
LEMMA MaintainInHand ==
  ASSUME SwarmAssumption, made \in [Entry -> 0 .. MaxRetry],
         NEW st \in [Entry -> PoolStates], NEW rc \in [Entry -> Nat],
         NEW aw, NEW sk, NEW rd,
         Budget(st, rc, made), InHand(st, aw),
         maintain_swarm_strength(st, aw, sk, rd)
  PROVE  InHand(pool_state', active_workers')
<1> DEFINE chosen == ToStart(st, aw)
           fresh  == {w \in Worker : w[1] \in chosen /\ w[2] = made[w[1]] + 1}
<1>1. \A e \in chosen : e \in Entry /\ st[e] \in {"UNTOUCHED", "RETRYING"}
  BY DEF ToStart, FirstEligible, Eligible
<1>2. /\ pool_state' = [e \in Entry |->
                          IF e \in chosen THEN "CONNECTING" ELSE st[e]]
      /\ active_workers' = aw \cup fresh
  BY DEF maintain_swarm_strength
<1> HIDE DEF chosen
<1>3. SUFFICES ASSUME NEW e \in Entry, pool_state'[e] = "CONNECTING"
               PROVE  \E w \in active_workers' : w[1] = e
  BY DEF InHand
<1>4. CASE e \in chosen
  <2> DEFINE w == <<e, made[e] + 1>>
  <2>1. made[e] + 1 \in 1 .. MaxRetry
    BY <1>1, <1>4 DEF Budget, SwarmAssumption
  <2>2. w \in Worker
    BY <2>1 DEF Worker
  <2>3. w \in fresh
    BY <2>2, <1>4
  <2>4. w \in active_workers' /\ w[1] = e
    BY <2>3, <1>2
  <2> HIDE DEF w
  <2> QED
    BY <2>4
<1>5. CASE e \notin chosen
  BY <1>2, <1>3, <1>5 DEF InHand
<1> QED
  BY <1>4, <1>5

\* Where addresses differ, a failure is charged to the entry that was dialled.
LEMMA ChargedOwn ==
  ASSUME SwarmAssumption, DistinctAddresses, NEW w \in Worker
  PROVE  Charged(w) = w[1]
<1>1. w[1] \in Entry
  BY DEF Worker
<1>2. {e \in Entry : Ip[e] = Ip[w[1]]} = {w[1]}
  BY <1>1 DEF DistinctAddresses
<1>3. Charged(w) = Lowest({w[1]})
  BY <1>2 DEF Charged
<1>4. Lowest({w[1]}) \in {w[1]}
  <2> DEFINE S == {w[1]}
  <2>1. S \subseteq Nat /\ S # {}
    BY <1>1 DEF Entry
  <2> HIDE DEF S
  <2>2. Lowest(S) \in S
    BY <2>1, LowestIsLeast
  <2> QED
    BY <2>2 DEF S
<1> QED
  BY <1>3, <1>4

\* A connection that ends takes its own entry out of CONNECTING.
LEMMA DisconnectInHand ==
  ASSUME SwarmAssumption, DistinctAddresses, PoolTypes,
         Budget(pool_state, retry_count, made), InHand(pool_state, active_workers),
         NEW w \in Worker,
         NEW sk \in [Worker -> SocketStates], NEW rd \in [Worker -> Readings],
         Numbered(sk, made), handle_disconnect(w, sk, rd)
  PROVE  InHand(pool_state', active_workers')
<1> DEFINE s  == IF retry_count[w[1]] + 1 >= MaxRetry THEN "DEAD" ELSE "RETRYING"
           st == [pool_state EXCEPT ![w[1]] = s]
           rc == [retry_count EXCEPT ![w[1]] = @ + 1]
           aw == active_workers \ {w}
<1>1. w[1] \in Entry /\ Charged(w) = w[1]
  BY ChargedOwn DEF Worker
<1>2. retry_count' = rc /\ maintain_swarm_strength(st, aw, sk, rd)
  BY <1>1 DEF handle_disconnect
<1>3. /\ st \in [Entry -> PoolStates] /\ rc \in [Entry -> Nat]
      /\ made \in [Entry -> 0 .. MaxRetry]
      /\ \A e \in Entry : e # w[1] => st[e] = pool_state[e] /\ rc[e] = retry_count[e]
      /\ st[w[1]] = s /\ rc[w[1]] = retry_count[w[1]] + 1
      /\ s # "CONNECTING"
  BY <1>1 DEF PoolTypes, PoolStates
<1>4. Budget(st, rc, made)
  <2> SUFFICES ASSUME NEW e \in Entry
               PROVE  /\ made[e] <= rc[e] + 1
                      /\ st[e] \in {"UNTOUCHED", "RETRYING"} =>
                           made[e] <= rc[e] /\ rc[e] < MaxRetry
                      /\ st[e] = "DEAD" => rc[e] >= MaxRetry
    BY DEF Budget
  <2>1. /\ made[e] \in Nat /\ retry_count[e] \in Nat /\ MaxRetry \in Nat
        /\ made[e] <= retry_count[e] + 1
        /\ pool_state[e] \in {"UNTOUCHED", "RETRYING"} =>
             made[e] <= retry_count[e] /\ retry_count[e] < MaxRetry
        /\ pool_state[e] = "DEAD" => retry_count[e] >= MaxRetry
    BY DEF PoolTypes, Budget, SwarmAssumption
  <2>2. CASE e = w[1]
    <3>1. /\ rc[e] = retry_count[e] + 1
          /\ st[e] = IF retry_count[e] + 1 >= MaxRetry THEN "DEAD" ELSE "RETRYING"
      BY <2>2, <1>3
    <3> HIDE DEF rc, st
    <3> QED
      BY <3>1, <2>1
  <2>3. CASE e # w[1]
    <3> HIDE DEF rc, st
    <3> QED
      BY <2>1, <2>3, <1>3
  <2> QED
    BY <2>2, <2>3
<1>5. InHand(st, aw)
  <2> SUFFICES ASSUME NEW e \in Entry, st[e] = "CONNECTING"
               PROVE  \E v \in aw : v[1] = e
    BY DEF InHand
  <2>1. e # w[1] /\ pool_state[e] = "CONNECTING"
    <3> HIDE DEF st, s
    <3> QED
      BY <1>3
  <2> QED
    BY <2>1 DEF InHand
<1> HIDE DEF st, rc, aw
<1> QED
  BY <1>2, <1>3, <1>4, <1>5, MaintainInHand

-----------------------------------------------------------------------------
\* Where addresses differ, a step leaves no entry CONNECTING without a connection.
LEMMA StepInHand ==
  ASSUME SwarmAssumption, DistinctAddresses, IInv, PeersInHand, [Next]_vars
  PROVE  PeersInHand'
<1> USE DEF pool
<1>1. /\ PoolTypes /\ Unborn
      /\ Budget(pool_state, retry_count, made) /\ Numbered(socket, made)
  BY DEF IInv, PoolInv
<1>2. /\ socket \in [Worker -> SocketStates] /\ reading \in [Worker -> Readings]
      /\ pool_state \in [Entry -> PoolStates] /\ retry_count \in [Entry -> Nat]
      /\ made \in [Entry -> 0 .. MaxRetry]
  BY <1>1 DEF PoolTypes
<1>3. CASE StartDownload
  <2>1. /\ maintain_swarm_strength(pool_state, active_workers, socket, reading)
        /\ InHand(pool_state, active_workers)
    BY <1>3 DEF StartDownload, PeersInHand, Working
  <2> QED
    BY <1>1, <1>2, <2>1, MaintainInHand DEF PeersInHand, InHand
<1>4. ASSUME NEW w \in Worker, NEW r \in Readings, disconnect(w, r), Working,
             reading[w] # "none" \/ writes[w] > 0 \/ doomed[w] > 0
      PROVE  PeersInHand'
  <2>1. socket[w] # "none"
    BY <1>1, <1>4 DEF Unborn
  <2>2. /\ Numbered([socket EXCEPT ![w] = "closed"], made)
        /\ [socket EXCEPT ![w] = "closed"] \in [Worker -> SocketStates]
        /\ [reading EXCEPT ![w] = r] \in [Worker -> Readings]
    BY <1>1, <1>2, <2>1 DEF Numbered, SocketStates
  <2>3. InHand(pool_state', active_workers')
    BY <1>1, <1>4, <2>2, DisconnectInHand DEF PeersInHand, disconnect
  <2> QED
    BY <2>3 DEF PeersInHand, InHand
<1>5. ASSUME NEW w \in Worker, Handler(w)
      PROVE  PeersInHand'
  <2>1. Working
    BY <1>5, HandlerEnds DEF Working
  <2>2. CASE ConnectFails(w) \/ HandshakeFails(w) \/ ReadFails(w)
    BY <1>4, <2>1, <2>2 DEF ConnectFails, HandshakeFails, ReadFails, Pending, Readings
  <2>3. CASE PieceCorrupt(w)
    BY <1>4, <2>1, <2>3 DEF PieceCorrupt, Complete, Pending, Readings
  <2>4. CASE WriteFails(w)
    BY <1>2, <1>4, <2>1, <2>4 DEF WriteFails
  <2>5. CASE UNCHANGED pool
    BY <2>1, <2>5 DEF PeersInHand, InHand
  <2> QED
    BY <1>5, <2>2, <2>3, <2>4, <2>5
       DEF Handler, Message, Connects, HandshakeWriteThrows, HandshakeRead, Choke,
           Unchoke, Announce, Block, PieceStored, PieceNotStored, HashThrows,
           OtherMessage, WriteDone
<1>6. CASE \/ RunReturns \/ LoopEnds
           \/ \E w \in Worker : CloseWorker(w)
  BY <1>6 DEF RunReturns, LoopEnds, CloseWorker, PeersInHand, Working
<1>7. CASE Terminated \/ UNCHANGED vars
  BY <1>7 DEF Terminated, vars, PeersInHand, InHand, Working
<1> QED
  BY <1>3, <1>5, <1>6, <1>7 DEF Next

\* Where addresses differ, no entry is left CONNECTING without a connection.
LEMMA InHandInvariance == DistinctAddresses /\ Spec => []PeersInHand
<1> SUFFICES ASSUME DistinctAddresses
             PROVE  Spec => []PeersInHand
  OBVIOUS
<1>1. Init => PeersInHand
  BY DEF Init, PeersInHand, InHand
<1>2. IInv /\ PeersInHand /\ [Next]_vars => PeersInHand'
  BY StepInHand, SwarmAssumption
<1> QED
  BY <1>1, <1>2, Invariance, PTL DEF Spec

\* As long as the event loop runs, no peer of the pool is forgotten: of an entry that
\* is CONNECTING some connection is registered, and its end will be noticed.  Two
\* entries that differ in their ports only are what it takes to forget one.
THEOREM PeersAreRemembered == DistinctAddresses /\ Spec => []NoPeerForgotten
<1>1. PeersInHand => NoPeerForgotten
  BY DEF PeersInHand, InHand, NoPeerForgotten, Working
<1> QED
  BY <1>1, InHandInvariance, PTL

-----------------------------------------------------------------------------
\* When nothing is pending while pieces are missing, every entry is dead and every
\* claim has been settled.
LEMMA OutOfWork ==
  ASSUME SwarmAssumption, IInv, PeersInHand, main = "running", ~ is_download_complete,
         NothingPending
  PROVE  /\ \A e \in Entry : pool_state[e] = "DEAD"
         /\ \A p \in Piece : piece_checklist[p] => p \in on_disk
<1>1. /\ Slots(active_workers, socket, reading)
      /\ SlotsFilled /\ NoPieceLost
      /\ pool_state \in [Entry -> PoolStates]
      /\ InHand(pool_state, active_workers)
  BY DEF IInv, PoolInv, PoolTypes, BoardInv, Working, PeersInHand
<1>2. active_workers = {}
  BY <1>1 DEF NothingPending, Slots
<1>3. Cardinality(active_workers) # NumConnections
  BY <1>2, FS_EmptySet DEF SwarmAssumption
<1>4. Eligible(pool_state) = {}
  BY <1>1, <1>3 DEF SlotsFilled
<1>5. ASSUME NEW e \in Entry
      PROVE  pool_state[e] = "DEAD"
  BY <1>1, <1>2, <1>4 DEF Eligible, InHand, PoolStates
<1>6. ASSUME NEW p \in Piece, piece_checklist[p]
      PROVE  p \in on_disk
  BY <1>1, <1>6 DEF NoPieceLost, NothingPending, Working
<1> QED
  BY <1>5, <1>6

\* "SWARM DEPLETED" (swarm.cpp:96) is reached only when every peer has used up its
\* retries and no piece is claimed that is not on disk.
THEOREM DepletionIsHonest == DistinctAddresses /\ Spec => []DepletedMeansSpent
<1> SUFFICES ASSUME DistinctAddresses
             PROVE  Spec => []DepletedMeansSpent
  OBVIOUS
<1> DEFINE Inv == IInv /\ PeersInHand /\ StoppedIsComplete
<1>1. Init => DepletedMeansSpent
  BY DEF Init, DepletedMeansSpent
<1>2. ASSUME Inv, DepletedMeansSpent, [Next]_vars
      PROVE  DepletedMeansSpent'
  <2> SUFFICES ASSUME main' = "depleted"
               PROVE  /\ \A e \in Entry : pool_state'[e] = "DEAD"
                      /\ \A p \in Piece : piece_checklist'[p] => p \in on_disk'
    BY DEF DepletedMeansSpent
  <2>1. CASE RunReturns
    <3>1. /\ main = "running" /\ ~ is_download_complete
          /\ stopped \/ NothingPending
          /\ UNCHANGED <<pool_state, piece_checklist, on_disk>>
      BY <2>1 DEF RunReturns, pool, board
    <3>2. NothingPending
      BY <1>2, <3>1 DEF StoppedIsComplete
    <3> QED
      BY <1>2, <3>1, <3>2, OutOfWork, SwarmAssumption
  <2>2. CASE Terminated \/ UNCHANGED vars
    BY <1>2, <2>2 DEF Terminated, vars, pool, board, DepletedMeansSpent
  <2>3. CASE \E w \in Worker : Handler(w)
    BY <2>3, HandlerEnds
  <2>4. CASE StartDownload \/ LoopEnds \/ \E w \in Worker : CloseWorker(w)
    BY <2>4 DEF StartDownload, LoopEnds, CloseWorker
  <2> QED
    BY <1>2, <2>1, <2>2, <2>3, <2>4 DEF Next
<1> QED
  BY <1>1, <1>2, Invariance, InHandInvariance, CompleteWhenStopped, PTL DEF Spec

-----------------------------------------------------------------------------
\* active_workers_ never has more members than there are slots, also while the
\* connections are closed after a download that is complete: nobody is dialled then.
ActiveBounded ==
  IsFiniteSet(active_workers) /\ Cardinality(active_workers) <= NumConnections

\* The registered workers fit the slots until the end.
LEMMA ActiveInSlots == Spec => []ActiveBounded
<1>1. Init => ActiveBounded
  BY FS_EmptySet, SwarmAssumption DEF Init, ActiveBounded, SwarmAssumption
<1>2. ASSUME ActiveBounded, IInv', ClosingIsComplete, [Next]_vars
      PROVE  ActiveBounded'
  <2> USE DEF pool
  <2>1. CASE Working'
    BY <1>2, <2>1 DEF IInv, PoolInv, Slots, ActiveBounded
  <2>2. CASE UNCHANGED pool
    BY <1>2, <2>2 DEF ActiveBounded
  <2>3. CASE \E w \in Worker : CloseWorker(w)
    <3>1. PICK w \in Worker : CloseWorker(w)
      BY <2>3
    <3>2. is_download_complete
      BY <1>2, <3>1 DEF CloseWorker, ClosingIsComplete
    <3>3. \A st, aw : ToStart(st, aw) = {}
      BY <3>2 DEF ToStart
    <3>4. active_workers' = active_workers \ {w}
      BY <3>1, <3>3 DEF CloseWorker, handle_disconnect, maintain_swarm_strength
    <3> DEFINE T == active_workers \ {w}
    <3>5. T \in SUBSET active_workers
      OBVIOUS
    <3> HIDE DEF T
    <3>6. IsFiniteSet(T) /\ Cardinality(T) <= Cardinality(active_workers)
      BY <1>2, <3>5, FS_Subset DEF ActiveBounded
    <3>7. /\ Cardinality(T) \in Nat /\ Cardinality(active_workers) \in Nat
          /\ NumConnections \in Nat
      BY <1>2, <3>6, FS_CardinalityType, SwarmAssumption DEF ActiveBounded, SwarmAssumption
    <3> QED
      BY <1>2, <3>4, <3>6, <3>7 DEF ActiveBounded, T
  <2>4. CASE \E w \in Worker : Handler(w)
    <3>1. PICK w \in Worker : Handler(w)
      BY <2>4
    <3>2. CASE main' = "running"
      BY <2>1, <3>2 DEF Working
    <3>3. CASE main' = "aborted"
      <4>1. HandshakeWriteThrows(w) \/ HashThrows(w)
        <5>1. main = "running"
          BY <3>1, HandlerEnds
        <5>2. CASE UNCHANGED main
          BY <3>3, <5>1, <5>2
        <5> QED
          BY <3>1, <5>2
             DEF Handler, Message, ConnectFails, Connects, HandshakeFails, HandshakeRead,
                 ReadFails, Choke, Unchoke, Announce, Block, PieceStored,
                 PieceNotStored, PieceCorrupt, OtherMessage, WriteDone, WriteFails
      <4> QED
        BY <2>2, <4>1 DEF HandshakeWriteThrows, HashThrows
    <3> QED
      BY <3>1, <3>2, <3>3, HandlerEnds
  <2>5. CASE StartDownload
    BY <2>1, <2>5 DEF StartDownload, Working
  <2> QED
    BY <1>2, <2>2, <2>3, <2>4, <2>5 DEF Next, RunReturns, LoopEnds, Terminated, vars
<1> QED
  BY <1>1, <1>2, Invariance, CompleteWhenStopped, PTL DEF Spec

\* pieces_downloaded_ never falls, and no handler counts more than one piece.
LEMMA CounterClimbs ==
  ASSUME IInv, [Next]_vars
  PROVE  pieces_downloaded' \in {pieces_downloaded, pieces_downloaded + 1}
<1> USE DEF board
<1>1. ASSUME NEW w \in Worker, Handler(w)
      PROVE  pieces_downloaded' \in {pieces_downloaded, pieces_downloaded + 1}
  BY <1>1
     DEF Handler, Message, ConnectFails, Connects, HandshakeWriteThrows, HandshakeFails,
         HandshakeRead, ReadFails, Choke, Unchoke, Announce, Block, PieceStored,
         PieceNotStored, PieceCorrupt, HashThrows, OtherMessage, WriteDone, WriteFails
<1> QED
  BY <1>1 DEF Next, StartDownload, RunReturns, CloseWorker, LoopEnds, Terminated, vars

-----------------------------------------------------------------------------
(* What becomes of the pieces.                                             *)
(*                                                                         *)
(* SwarmManager implements PieceBoard: a piece is in one pair of hands at  *)
(* a time, what is stored is never fetched again, and a download that is   *)
(* taken for complete is.                                                  *)
(*                                                                         *)
(* This is not so in all behaviours of the code: PeerClient::disconnect    *)
(* leaves active_piece_ as it is, and a connection that has ended and      *)
(* still has operations pending gives its piece back again, or even stores *)
(* it, when somebody else has it by then.  The theorems say that nothing   *)
(* else goes wrong.  Their hypothesis is OnlyOpenHold: whoever holds a     *)
(* piece has an open connection.  It is so where connections end quietly   *)
(* (QuietEnds), and would always be if disconnect reset active_piece_ and  *)
(* ended the read chain.                                                   *)


\* Whoever holds a piece has an open connection.
OnlyOpenHold ==
  \A w \in Worker : active_piece[w] # NoPiece => socket[w] = "open"

\* A piece that is held is marked, not on disk, and held by nobody else; what is on
\* disk is marked.
HeldApart ==
  /\ \A w \in Worker : active_piece[w] # NoPiece =>
       /\ active_piece[w] \notin on_disk
       /\ piece_checklist[active_piece[w]]
       /\ \A v \in Worker \ {w} : active_piece[v] # active_piece[w]
  /\ \A p \in on_disk : piece_checklist[p]

\* pieces_downloaded_ is the number of pieces on disk.
CountIsExact == Cardinality(on_disk) = pieces_downloaded

ClaimsInv == (Working => HeldApart) /\ CountIsExact

\* What a handler of w may do to the pieces: store the one w holds, or give it back,
\* or keep it; and hand w another one that nobody has.
Settles(w) ==
  LET old == active_piece[w]
      new == active_piece'[w]
  IN  /\ UNCHANGED main
      /\ \A v \in Worker \ {w} : active_piece'[v] = active_piece[v]
      /\ \/ UNCHANGED <<on_disk, pieces_downloaded>>
         \/ /\ old # NoPiece
            /\ on_disk' = on_disk \cup {old}
            /\ pieces_downloaded' = pieces_downloaded + 1
      /\ \A p \in Piece : piece_checklist'[p] <=>
           \/ p = new
           \/ piece_checklist[p] /\ (p # old \/ p \in on_disk')
      /\ new # NoPiece => /\ new \notin on_disk'
                          /\ new = old \/ ~ piece_checklist[new]

-----------------------------------------------------------------------------
\* After a disconnect the connection is closed: none is dialled in its place under
\* its number.
LEMMA DisconnectCloses ==
  ASSUME SwarmAssumption, PoolTypes, Numbered(socket, made),
         NEW w \in Worker, NEW r, disconnect(w, r), socket[w] # "none"
  PROVE  socket'[w] = "closed"
<1> DEFINE sk == [socket EXCEPT ![w] = "closed"]
           rd == [reading EXCEPT ![w] = r]
<1>1. w[1] \in Entry /\ made[w[1]] \in Nat /\ w[2] \in Nat /\ w[2] <= made[w[1]]
  BY DEF PoolTypes, Numbered, Worker, SwarmAssumption
<1>2. sk[w] = "closed"
  BY DEF PoolTypes
<1>3. PICK st, aw : maintain_swarm_strength(st, aw, sk, rd)
  BY DEF disconnect, handle_disconnect
<1> DEFINE fresh == {v \in Worker : v[1] \in ToStart(st, aw) /\ v[2] = made[v[1]] + 1}
<1>4. socket' = [v \in Worker |-> IF v \in fresh THEN "open" ELSE sk[v]]
  BY <1>3 DEF maintain_swarm_strength
<1>5. w \notin fresh
  BY <1>1
<1> HIDE DEF sk, rd, fresh
<1> QED
  BY <1>2, <1>4, <1>5

\* A connection that ends gives its piece back.
LEMMA DisconnectSettles ==
  ASSUME SwarmAssumption, IInv, HeldApart, OnlyOpenHold',
         NEW w \in Worker, NEW r, disconnect(w, r), socket[w] # "none",
         UNCHANGED <<main, on_disk, pieces_downloaded>>,
         \A v \in Worker \ {w} : active_piece'[v] = active_piece[v]
  PROVE  Settles(w)
<1>1. PoolTypes /\ BoardTypes /\ Numbered(socket, made)
  BY DEF IInv, PoolInv, BoardInv
<1>2. active_piece'[w] = NoPiece
  BY <1>1, DisconnectCloses DEF OnlyOpenHold
<1>3. \A p \in Piece : piece_checklist'[p] <=>
        piece_checklist[p] /\ p # active_piece[w]
  BY <1>1, RequeuedKeeps DEF disconnect, handle_disconnect
<1>4. \A p \in Piece : p # NoPiece /\ (p = active_piece[w] => p \notin on_disk)
  BY DEF HeldApart, Piece, NoPiece
<1> QED
  BY <1>2, <1>3, <1>4 DEF Settles

\* A handler that leaves the pieces alone.
LEMMA QuietSettles ==
  ASSUME BoardTypes, HeldApart, NEW w \in Worker,
         UNCHANGED <<main, board, active_piece>>
  PROVE  Settles(w)
<1>1. \A p \in Piece : p = active_piece[w] => piece_checklist[p] /\ p # NoPiece
  BY DEF HeldApart, Piece, NoPiece
<1>2. /\ \A v \in Worker \ {w} : active_piece'[v] = active_piece[v]
      /\ UNCHANGED <<main, on_disk, pieces_downloaded>>
      /\ active_piece'[w] = active_piece[w]
      /\ piece_checklist' = piece_checklist
  BY DEF board
<1>3. active_piece[w] # NoPiece => active_piece[w] \notin on_disk
  BY DEF HeldApart
<1> QED
  BY <1>1, <1>2, <1>3 DEF Settles

\* The piece request_work hands out is one nobody has: it was unmarked in the list
\* the call finds, from which the piece of w has been taken out, if it was not stored.
LEMMA WorkSettles ==
  ASSUME BoardTypes, HeldApart, NEW w \in Worker, NEW list \in [Piece -> BOOLEAN],
         request_work(w, list), UNCHANGED main,
         \/ UNCHANGED <<on_disk, pieces_downloaded>>
         \/ /\ active_piece[w] # NoPiece
            /\ on_disk' = on_disk \cup {active_piece[w]}
            /\ pieces_downloaded' = pieces_downloaded + 1,
         \A p \in Piece : list[p] <=>
           piece_checklist[p] /\ (p # active_piece[w] \/ p \in on_disk')
  PROVE  Settles(w)
<1> DEFINE old == active_piece[w]
           new == active_piece'[w]
<1>1. \A v \in Worker \ {w} : active_piece'[v] = active_piece[v]
  BY WorkRequested
<1>2. \A p \in on_disk' : p \in Piece => list[p]
  BY DEF HeldApart
<1>3. CASE /\ piece_checklist' = list
           /\ active_piece' = [active_piece EXCEPT ![w] = NoPiece]
  <2>1. new = NoPiece /\ \A p \in Piece : p # NoPiece
    BY <1>3 DEF BoardTypes, Piece, NoPiece
  <2> QED
    BY <1>1, <1>3, <2>1 DEF Settles
<1>4. CASE /\ Missing(w, list) # {}
           /\ LET p == Lowest(Missing(w, list))
              IN  /\ piece_checklist' = [list EXCEPT ![p] = TRUE]
                  /\ active_piece' = [active_piece EXCEPT ![w] = p]
  <2> DEFINE q == Lowest(Missing(w, list))
  <2>1. q \in Missing(w, list)
    <3> DEFINE S == Missing(w, list)
    <3>1. S \subseteq Nat /\ S # {}
      BY <1>4 DEF Missing, Piece
    <3> HIDE DEF S
    <3>2. Lowest(S) \in S
      BY <3>1, LowestIsLeast
    <3> QED
      BY <3>2 DEF S
  <2>2. q \in Piece /\ ~ list[q]
    BY <2>1 DEF Missing
  <2>3. /\ piece_checklist' = [list EXCEPT ![q] = TRUE]
        /\ active_piece' = [active_piece EXCEPT ![w] = q]
    BY <1>4
  <2> HIDE DEF q
  <2>4. new = q
    BY <2>3 DEF BoardTypes
  <2>5. \A p \in Piece : piece_checklist'[p] <=> p = new \/ list[p]
    BY <2>2, <2>3, <2>4
  <2>6. new \notin on_disk' /\ (new = old \/ ~ piece_checklist[new])
    BY <1>2, <2>2, <2>4
  <2> QED
    BY <1>1, <2>5, <2>6 DEF Settles
<1> QED
  BY <1>3, <1>4 DEF request_work

\* The handlers an exception leaves.
Throws(w) == HandshakeWriteThrows(w) \/ HashThrows(w)

\* Every other handler settles what w holds, and hands out what nobody has.
LEMMA HandlerSettles ==
  ASSUME SwarmAssumption, IInv, HeldApart, OnlyOpenHold, OnlyOpenHold',
         NEW w \in Worker, Handler(w), ~ Throws(w)
  PROVE  Settles(w)
<1> USE DEF board
<1>1. /\ PoolTypes /\ BoardTypes /\ RestTypes /\ Unborn
      /\ piece_checklist \in [Piece -> BOOLEAN]
      /\ active_piece \in [Worker -> Piece \cup {NoPiece}]
  BY DEF IInv, PoolInv, BoardInv, BoardTypes
<1>2. reading[w] # "none" \/ writes[w] > 0 \/ doomed[w] > 0 => socket[w] # "none"
  BY <1>1 DEF Unborn
<1>3. CASE \/ Connects(w) \/ HandshakeRead(w) \/ OtherMessage(w) \/ Block(w)
           \/ \E S \in Offers : Announce(w, S)
  <2>1. UNCHANGED <<main, board, active_piece>>
    BY <1>3 DEF Connects, HandshakeRead, OtherMessage, Block, Announce
  <2> QED
    BY <1>1, <2>1, QuietSettles
<1>4. CASE ConnectFails(w) \/ HandshakeFails(w)
  <2>1. /\ disconnect(w, "none") /\ reading[w] # "none"
        /\ UNCHANGED <<main, on_disk, pieces_downloaded, active_piece>>
    BY <1>4 DEF ConnectFails, HandshakeFails, Pending
  <2> QED
    BY <1>2, <2>1, DisconnectSettles
<1>5. CASE ReadFails(w)
  <2>1. /\ disconnect(w, "none") /\ reading[w] # "none" /\ Release(w)
        /\ UNCHANGED <<main, on_disk, pieces_downloaded>>
    BY <1>5 DEF ReadFails, Pending
  <2>2. \A v \in Worker \ {w} : active_piece'[v] = active_piece[v]
    BY <1>1, <2>1, Released
  <2> QED
    BY <1>2, <2>1, <2>2, DisconnectSettles
<1>6. CASE PieceCorrupt(w)
  <2>1. /\ disconnect(w, "dead") /\ reading[w] # "none"
        /\ active_piece' = [active_piece EXCEPT ![w] = NoPiece]
        /\ UNCHANGED <<main, on_disk, pieces_downloaded>>
    BY <1>6 DEF PieceCorrupt, Complete, Pending
  <2>2. \A v \in Worker \ {w} : active_piece'[v] = active_piece[v]
    BY <1>1, <2>1
  <2> QED
    BY <1>2, <2>1, <2>2, DisconnectSettles
<1>7. CASE WriteFails(w)
  <2>1. /\ disconnect(w, reading[w]) /\ Release(w)
        /\ writes[w] > 0 \/ doomed[w] > 0
        /\ UNCHANGED <<main, on_disk, pieces_downloaded>>
    BY <1>7 DEF WriteFails
  <2>2. \A v \in Worker \ {w} : active_piece'[v] = active_piece[v]
    BY <1>1, <2>1, Released
  <2> QED
    BY <1>2, <2>1, <2>2, DisconnectSettles
<1>8. CASE WriteDone(w)
  <2>1. LoopRuns /\ Release(w) /\ UNCHANGED <<main, board, socket, reading>>
    BY <1>8 DEF WriteDone
  <2>2. reading[w] = "none" => socket[w] # "open"
    BY <2>1 DEF IInv, PoolInv, Slots, Working, LoopRuns
  <2>3. reading[w] = "none" => active_piece[w] = NoPiece
    BY <2>2 DEF OnlyOpenHold
  <2>4. active_piece' = active_piece
    BY <1>1, <2>1, <2>3 DEF Release
  <2> QED
    BY <1>1, <2>1, <2>4, QuietSettles
<1>9. CASE Choke(w)
  <2>1. /\ piece_checklist' = Requeued(w)
        /\ active_piece' = [active_piece EXCEPT ![w] = NoPiece]
        /\ UNCHANGED <<main, on_disk, pieces_downloaded>>
    BY <1>9 DEF Choke
  <2>2. /\ active_piece'[w] = NoPiece
        /\ \A v \in Worker \ {w} : active_piece'[v] = active_piece[v]
    BY <1>1, <2>1
  <2>3. \A p \in Piece : piece_checklist'[p] <=>
          piece_checklist[p] /\ p # active_piece[w]
    BY <1>1, <2>1, RequeuedKeeps
  <2>4. \A p \in Piece : p # NoPiece /\ (p = active_piece[w] => p \notin on_disk)
    BY DEF HeldApart, Piece, NoPiece
  <2> QED
    BY <2>1, <2>2, <2>3, <2>4 DEF Settles
<1>10. CASE Unchoke(w)
  <2>1. /\ request_work(w, piece_checklist)
        /\ active_piece[w] = NoPiece
        /\ UNCHANGED <<main, on_disk, pieces_downloaded>>
    BY <1>10 DEF Unchoke
  <2>2. \A p \in Piece : p # active_piece[w]
    BY <2>1 DEF Piece, NoPiece
  <2> QED
    BY <1>1, <2>1, <2>2, WorkSettles
<1>11. CASE PieceStored(w)
  <2>1. /\ request_work(w, piece_checklist)
        /\ active_piece[w] # NoPiece
        /\ pieces_downloaded' = pieces_downloaded + 1
        /\ on_disk' = on_disk \cup {active_piece[w]}
        /\ UNCHANGED main
    BY <1>11 DEF PieceStored, Complete
  <2>2. \A p \in Piece : p = active_piece[w] => p \in on_disk'
    BY <2>1
  <2> QED
    BY <1>1, <2>1, <2>2, WorkSettles
<1>12. CASE PieceNotStored(w)
  <2>1. /\ request_work(w, Requeued(w))
        /\ UNCHANGED <<main, on_disk, pieces_downloaded>>
    BY <1>12 DEF PieceNotStored
  <2>2. /\ Requeued(w) \in [Piece -> BOOLEAN]
        /\ \A p \in Piece : Requeued(w)[p] <=> piece_checklist[p] /\ p # active_piece[w]
    BY <1>1, RequeuedKeeps
  <2>3. \A p \in Piece : p = active_piece[w] => p \notin on_disk
    BY DEF HeldApart, Piece, NoPiece
  <2>4. \A p \in Piece : Requeued(w)[p] <=>
          piece_checklist[p] /\ (p # active_piece[w] \/ p \in on_disk')
    BY <2>1, <2>2, <2>3
  <2> QED
    BY <1>1, <2>1, <2>2, <2>4, WorkSettles
<1> QED
  BY <1>3, <1>4, <1>5, <1>6, <1>7, <1>8, <1>9, <1>10, <1>11, <1>12
  DEF Handler, Message, Throws

-----------------------------------------------------------------------------
\* Settling keeps the holders apart and the count exact.
LEMMA SettlesApart ==
  ASSUME SwarmAssumption, BoardTypes, HeldApart, CountIsExact,
         NEW w \in Worker, Settles(w), BoardTypes'
  PROVE  HeldApart' /\ CountIsExact'
<1> DEFINE old == active_piece[w]
           new == active_piece'[w]
<1>0. /\ piece_checklist \in [Piece -> BOOLEAN]
      /\ piece_checklist' \in [Piece -> BOOLEAN]
  BY DEF BoardTypes
<1>1. /\ \A v \in Worker \ {w} : active_piece'[v] = active_piece[v]
      /\ \A p \in Piece : piece_checklist'[p] <=>
           \/ p = new
           \/ piece_checklist[p] /\ (p # old \/ p \in on_disk')
      /\ new # NoPiece => /\ new \notin on_disk'
                          /\ new = old \/ ~ piece_checklist[new]
      /\ \/ UNCHANGED <<on_disk, pieces_downloaded>>
         \/ /\ old # NoPiece
            /\ on_disk' = on_disk \cup {old}
            /\ pieces_downloaded' = pieces_downloaded + 1
  BY <1>0 DEF Settles
<1>2. /\ \A v \in Worker : active_piece[v] # NoPiece => active_piece[v] \in Piece
      /\ \A v \in Worker : active_piece'[v] # NoPiece => active_piece'[v] \in Piece
      /\ on_disk \subseteq Piece
      /\ pieces_downloaded \in Nat
  BY DEF BoardTypes, SwarmAssumption
<1>3. HeldApart'
  <2>1. ASSUME NEW v \in Worker, active_piece'[v] # NoPiece
        PROVE  /\ active_piece'[v] \notin on_disk'
               /\ piece_checklist'[active_piece'[v]]
               /\ \A u \in Worker \ {v} : active_piece'[u] # active_piece'[v]
    <3>1. CASE v = w
      <4>1. new \in Piece /\ new \notin on_disk'
        BY <1>1, <1>2, <2>1, <3>1
      <4>2. ASSUME NEW u \in Worker \ {w}
            PROVE  active_piece'[u] # new
        BY <1>1, <2>1, <3>1, <4>2 DEF HeldApart
      <4>3. piece_checklist'[new]
        BY <1>0, <1>1, <4>1
      <4> QED
        BY <3>1, <4>1, <4>2, <4>3
    <3>2. CASE v # w
      <4> DEFINE p == active_piece[v]
      <4>1. /\ active_piece'[v] = p /\ p # NoPiece /\ p \in Piece
            /\ p \notin on_disk /\ piece_checklist[p] /\ p # old
            /\ \A u \in Worker \ {v} : active_piece[u] # p
        BY <1>1, <1>2, <2>1, <3>2 DEF HeldApart
      <4>2. p \notin on_disk' /\ piece_checklist'[p]
        BY <1>1, <4>1
      <4>3. p # new
        BY <1>1, <4>1
      <4> QED
        BY <1>1, <4>1, <4>2, <4>3
    <3> QED
      BY <3>1, <3>2
  <2>2. ASSUME NEW p \in on_disk'
        PROVE  piece_checklist'[p]
    BY <1>1, <1>2, <2>2 DEF HeldApart
  <2> QED
    BY <2>1, <2>2 DEF HeldApart
<1>4. CountIsExact'
  <2>1. CASE UNCHANGED <<on_disk, pieces_downloaded>>
    BY <2>1 DEF CountIsExact
  <2>2. CASE /\ old # NoPiece
             /\ on_disk' = on_disk \cup {old}
             /\ pieces_downloaded' = pieces_downloaded + 1
    <3>1. IsFiniteSet(on_disk)
      <4>1. IsFiniteSet(0 .. TotalPieces - 1)
        BY FS_Interval DEF SwarmAssumption
      <4> QED
        BY <1>2, <4>1, FS_Subset DEF Piece
    <3>2. old \notin on_disk
      BY <2>2 DEF HeldApart
    <3> HIDE DEF old
    <3>3. Cardinality(on_disk \cup {old}) = Cardinality(on_disk) + 1
      BY <3>1, <3>2, FS_AddElement
    <3> QED
      BY <2>2, <3>3 DEF CountIsExact
  <2> QED
    BY <1>1, <2>1, <2>2
<1> QED
  BY <1>3, <1>4

\* As long as only open connections hold pieces, every step keeps the claims apart.
LEMMA StepClaims ==
  ASSUME SwarmAssumption, IInv, IInv', ClaimsInv, OnlyOpenHold, OnlyOpenHold',
         [Next]_vars
  PROVE  ClaimsInv'
<1> USE DEF pool, board, conn
<1>1. BoardTypes /\ BoardTypes'
  BY DEF IInv, BoardInv
<1>2. CASE \E w \in Worker : Handler(w) /\ ~ Throws(w)
  <2>1. PICK w \in Worker : Handler(w) /\ ~ Throws(w)
    BY <1>2
  <2>2. HeldApart
    BY <2>1, HandlerEnds DEF ClaimsInv, Working
  <2>3. Settles(w)
    BY <2>1, <2>2, HandlerSettles
  <2> QED
    BY <1>1, <2>2, <2>3, SettlesApart DEF ClaimsInv
<1>3. CASE StartDownload
  BY <1>3 DEF StartDownload, ClaimsInv, HeldApart, CountIsExact, Working
<1>4. CASE \/ RunReturns \/ LoopEnds
           \/ \E w \in Worker : Throws(w) \/ CloseWorker(w)
  BY <1>4 DEF RunReturns, LoopEnds, Throws, HandshakeWriteThrows, HashThrows,
              CloseWorker, ClaimsInv, CountIsExact, Working
<1>5. CASE Terminated \/ UNCHANGED vars
  BY <1>5 DEF Terminated, vars, ClaimsInv, HeldApart, CountIsExact, Working
<1> QED
  BY <1>2, <1>3, <1>4, <1>5 DEF Next

\* As long as only open connections hold pieces, the claims stay apart.
LEMMA ClaimsInvariance == Spec /\ []OnlyOpenHold => []ClaimsInv
<1>1. Init => ClaimsInv
  <2> SUFFICES ASSUME Init
               PROVE  ClaimsInv
    OBVIOUS
  <2> USE DEF Init
  <2>1. Cardinality(on_disk) = 0
    BY FS_EmptySet
  <2>2. \A w \in Worker : active_piece[w] = NoPiece
    OBVIOUS
  <2> QED
    BY <2>1, <2>2 DEF ClaimsInv, HeldApart, CountIsExact
<1>2. /\ IInv /\ IInv' /\ ClaimsInv /\ OnlyOpenHold /\ OnlyOpenHold' /\ [Next]_vars
      => ClaimsInv'
  BY StepClaims, SwarmAssumption
<1> QED
  BY <1>1, <1>2, Invariance, PTL DEF Spec

\* A count that is exact and has reached total_pieces_ means that the disk is full.
LEMMA FullDisk ==
  ASSUME SwarmAssumption, BoardTypes, CountIsExact, is_download_complete
  PROVE  on_disk = Piece
<1>1. IsFiniteSet(Piece) /\ Cardinality(Piece) = TotalPieces
  <2>1. TotalPieces \in Nat /\ 0 \in Int /\ TotalPieces - 1 \in Int
    BY DEF SwarmAssumption
  <2>2. /\ IsFiniteSet(0 .. TotalPieces - 1)
        /\ Cardinality(0 .. TotalPieces - 1) =
             IF 0 > TotalPieces - 1 THEN 0 ELSE TotalPieces - 1 - 0 + 1
    BY <2>1, FS_Interval
  <2> QED
    BY <2>1, <2>2 DEF Piece
<1>2. on_disk \in SUBSET Piece /\ Cardinality(on_disk) = TotalPieces
  BY DEF BoardTypes, CountIsExact, is_download_complete
<1> QED
  BY <1>1, <1>2, FS_Subset

\* A piece is fetched over one connection at a time and never again once it is
\* stored, as long as only open connections hold pieces.
THEOREM FetchedOnce == Spec /\ []OnlyOpenHold => []OneFetchPerPiece
<1>1. ClaimsInv => OneFetchPerPiece
  BY DEF ClaimsInv, HeldApart, OneFetchPerPiece
<1> QED
  BY <1>1, ClaimsInvariance, PTL

\* "DOWNLOAD COMPLETE." (swarm.cpp:88) means that every piece is on disk, as long as
\* only open connections hold pieces.
THEOREM CompleteIsOnDisk == Spec /\ []OnlyOpenHold => []CompleteMeansAllOnDisk
<1>1. IInv /\ ClaimsInv /\ ClosingIsComplete => CompleteMeansAllOnDisk
  BY FullDisk, SwarmAssumption
     DEF IInv, BoardInv, ClaimsInv, ClosingIsComplete, CompleteMeansAllOnDisk
<1> QED
  BY <1>1, Invariance, ClaimsInvariance, CompleteWhenStopped, PTL

-----------------------------------------------------------------------------
(* The refinement.                                                         *)

\* Settling is work on the board: one piece is settled at most, and one claimed.
LEMMA SettlesIsWork ==
  ASSUME SwarmAssumption, BoardTypes, BoardTypes', HeldApart, Working,
         NEW w \in Worker, Settles(w)
  PROVE  Board!Work
<1> DEFINE old == active_piece[w]
           new == active_piece'[w]
           V == PieceView
           Moved == Board!Settled \cup Board!Claimed
<1>1. /\ piece_checklist \in [Piece -> BOOLEAN]
      /\ piece_checklist' \in [Piece -> BOOLEAN]
      /\ old # NoPiece => piece_checklist[old]
      /\ \A p \in on_disk' : p \in on_disk \/ (p = old /\ old # NoPiece)
      /\ \A p \in on_disk : p \in on_disk'
  BY DEF BoardTypes, HeldApart, Settles
<1>2. \A p \in Piece : piece_checklist'[p] <=>
        \/ p = new
        \/ piece_checklist[p] /\ (p # old \/ p \in on_disk')
  BY <1>1 DEF Settles
<1>3. \A p \in Piece :
        /\ V[p] = IF p \in on_disk THEN "done"
                  ELSE IF piece_checklist[p] THEN "claimed" ELSE "missing"
        /\ V'[p] = IF p \in on_disk' THEN "done"
                   ELSE IF piece_checklist'[p] THEN "claimed" ELSE "missing"
  BY DEF PieceView
<1>4. V' = [p \in Piece |-> V'[p]]
  BY DEF PieceView
<1>5. OutcomeView = "running" /\ OutcomeView' = "running"
  BY DEF OutcomeView, Working, Settles
<1> HIDE DEF V, old, new
<1>6. \A p \in Piece : V[p] = "claimed" /\ V'[p] \in {"done", "missing"} => p = old
  BY <1>1, <1>2, <1>3
<1>7. \A p \in Piece : V[p] = "missing" /\ V'[p] = "claimed" => p = new
  BY <1>1, <1>2, <1>3
<1>8. \A p \in Piece : V[p] = "done" => V'[p] = "done"
  BY <1>1, <1>3
<1>9. \A p \in Piece : V[p] = "missing" => V'[p] # "done"
  BY <1>1, <1>3
<1>10. /\ Board!Settled = {p \in Piece : \/ V[p] = "claimed" /\ V'[p] = "done"
                                         \/ V[p] = "claimed" /\ V'[p] = "missing"}
       /\ Board!Claimed = {p \in Piece : V[p] = "missing" /\ V'[p] = "claimed"}
  BY DEF Board!Settled, Board!Claimed, Board!Turns, V
<1>11. Board!AtMostOne(Board!Settled) /\ Board!AtMostOne(Board!Claimed)
  BY <1>6, <1>7, <1>10 DEF Board!AtMostOne
<1>12. ASSUME NEW p \in Piece, p \notin Moved
       PROVE  V'[p] = V[p]
  BY <1>3, <1>8, <1>9, <1>10, <1>12
<1>13. V' = [p \in Piece |-> IF p \in Moved THEN V'[p] ELSE V[p]]
  <2> HIDE DEF Moved
  <2> QED
    BY <1>4, <1>12
<1> QED
  BY <1>5, <1>11, <1>13 DEF Board!Work, V

\* Every step of the swarm is a step of the board, or does not concern it.
LEMMA StepIsBoardStep ==
  ASSUME SwarmAssumption, IInv, IInv', ClaimsInv, OnlyOpenHold, OnlyOpenHold',
         StoppedIsComplete, ClosingIsComplete, [Next]_vars
  PROVE  [Board!BoardNext]_<<PieceView, OutcomeView>>
<1> USE DEF board
<1>1. /\ BoardTypes /\ BoardTypes' /\ NoPieceLost /\ CountIsExact
      /\ is_download_complete => on_disk = Piece
  BY FullDisk DEF IInv, BoardInv, ClaimsInv
<1>2. CASE \E w \in Worker : Handler(w) /\ ~ Throws(w)
  <2>1. PICK w \in Worker : Handler(w) /\ ~ Throws(w)
    BY <1>2
  <2>2. Working /\ HeldApart
    BY <2>1, HandlerEnds DEF ClaimsInv, Working
  <2>3. Settles(w)
    BY <2>1, <2>2, HandlerSettles
  <2>4. Board!Work
    BY <1>1, <2>2, <2>3, SettlesIsWork
  <2> QED
    BY <2>4 DEF Board!BoardNext
<1>3. CASE \E w \in Worker : Throws(w)
  <2>1. main = "running" /\ main' = "aborted" /\ UNCHANGED board
    BY <1>3 DEF Throws, HandshakeWriteThrows, HashThrows, Complete, Pending, LoopRuns
  <2>2. OutcomeView = "running" /\ OutcomeView' = "aborted"
    BY <2>1 DEF OutcomeView, Working
  <2>3. UNCHANGED PieceView
    BY <2>1 DEF PieceView
  <2>4. Board!Abort
    BY <2>2, <2>3 DEF Board!Abort
  <2> QED
    BY <2>4 DEF Board!BoardNext
<1>4. CASE RunReturns
  <2>1. /\ main = "running" /\ UNCHANGED board
        /\ stopped \/ NothingPending
        /\ main' = IF is_download_complete THEN "closing" ELSE "depleted"
    BY <1>4 DEF RunReturns
  <2>2. OutcomeView = "running" /\ UNCHANGED PieceView
    BY <2>1 DEF OutcomeView, Working, PieceView
  <2>3. CASE is_download_complete
    <3>1. OutcomeView' = "complete"
      BY <2>1, <2>3 DEF OutcomeView, Working
    <3>2. \A p \in Piece : PieceView[p] = "done"
      BY <1>1, <2>3 DEF PieceView
    <3>3. Board!Complete
      BY <2>2, <3>1, <3>2 DEF Board!Complete
    <3> QED
      BY <3>3 DEF Board!BoardNext
  <2>4. CASE ~ is_download_complete
    <3>1. OutcomeView' = "stuck"
      BY <2>1, <2>4 DEF OutcomeView, Working
    <3>2. NothingPending
      BY <2>1, <2>4 DEF StoppedIsComplete
    <3>3. \A p \in Piece : piece_checklist[p] => p \in on_disk
      BY <1>1, <2>1, <3>2 DEF NoPieceLost, NothingPending, Working
    <3>4. \A p \in Piece : PieceView[p] = IF p \in on_disk THEN "done" ELSE "missing"
      BY <3>3 DEF PieceView
    <3>5. on_disk # Piece
      <4>1. Cardinality(Piece) = TotalPieces
        <5>1. TotalPieces \in Nat /\ 0 \in Int /\ TotalPieces - 1 \in Int
          BY DEF SwarmAssumption
        <5> QED
          BY <5>1, FS_Interval DEF Piece
      <4> QED
        BY <1>1, <2>4, <4>1 DEF CountIsExact, is_download_complete
    <3>6. on_disk \subseteq Piece
      BY <1>1 DEF BoardTypes
    <3>7. \E p \in Piece : PieceView[p] = "missing"
      BY <3>4, <3>5, <3>6
    <3>8. \A p \in Piece : PieceView[p] # "claimed"
      BY <3>4
    <3>9. Board!Stuck
      BY <2>2, <3>1, <3>7, <3>8 DEF Board!Stuck
    <3> QED
      BY <3>9 DEF Board!BoardNext
  <2> QED
    BY <2>3, <2>4
<1>5. CASE StartDownload
  <2>1. UNCHANGED board /\ main = "created" /\ main' = "running"
    BY <1>5 DEF StartDownload
  <2>2. UNCHANGED <<PieceView, OutcomeView>>
    BY <2>1 DEF PieceView, OutcomeView, Working
  <2> QED
    BY <2>2
<1>6. CASE LoopEnds \/ \E w \in Worker : CloseWorker(w)
  <2>1. /\ main \in {"closing", "torn"} /\ main' \in {"complete", "torn", "crashed"}
        /\ UNCHANGED on_disk
    BY <1>6 DEF LoopEnds, CloseWorker
  <2>2. OutcomeView = "complete" /\ OutcomeView' = "complete"
    BY <2>1 DEF OutcomeView, Working
  <2>3. on_disk = Piece /\ on_disk' = Piece
    BY <1>1, <2>1 DEF ClosingIsComplete
  <2>4. UNCHANGED PieceView
    BY <2>3 DEF PieceView
  <2> QED
    BY <2>2, <2>4
<1>7. CASE Terminated \/ UNCHANGED vars
  BY <1>7 DEF Terminated, vars, PieceView, OutcomeView, Working
<1> QED
  BY <1>2, <1>3, <1>4, <1>5, <1>6, <1>7 DEF Next

\* The swarm implements the board, as long as only open connections hold pieces: one
\* handler settles one piece and claims one, a download that is complete has every
\* piece, and one that is stuck has none in anybody's hands.
THEOREM SwarmIsBoard == Spec /\ []OnlyOpenHold => ImplementsPieceBoard
<1>1. Init => Board!BoardInit
  BY DEF Init, Board!BoardInit, PieceView, OutcomeView, Working
<1>2. /\ IInv /\ IInv' /\ ClaimsInv /\ OnlyOpenHold /\ OnlyOpenHold'
      /\ StoppedIsComplete /\ ClosingIsComplete /\ [Next]_vars
      => [Board!BoardNext]_<<PieceView, OutcomeView>>
  BY StepIsBoardStep, SwarmAssumption
<1> QED
  BY <1>1, <1>2, Invariance, ClaimsInvariance, CompleteWhenStopped, PTL
     DEF Spec, ImplementsPieceBoard, Board!BoardSpec

-----------------------------------------------------------------------------
(* Where the hypothesis holds: the operation that reports the end of a     *)
(* connection is the last one it had pending (EndsQuietly).  Any number of *)
(* request writes may be pending while a connection is open.               *)

\* Whoever holds a piece waits for a message on an open connection.
HeldByReaders ==
  \A w \in Worker : active_piece[w] # NoPiece =>
    socket[w] = "open" /\ reading[w] = "message"

\* maintain_swarm_strength leaves the connections alone that have been made.
LEMMA MaintainLeaves ==
  ASSUME SwarmAssumption, PoolTypes, NEW st, NEW aw, NEW sk, NEW rd,
         Numbered(sk, made), maintain_swarm_strength(st, aw, sk, rd),
         NEW v \in Worker
  PROVE  \/ socket'[v] = sk[v] /\ reading'[v] = rd[v]
         \/ sk[v] = "none" /\ socket'[v] = "open"
<1> DEFINE fresh == {u \in Worker : u[1] \in ToStart(st, aw) /\ u[2] = made[u[1]] + 1}
<1>1. /\ socket' = [u \in Worker |-> IF u \in fresh THEN "open" ELSE sk[u]]
      /\ reading' = [u \in Worker |-> IF u \in fresh THEN "connect" ELSE rd[u]]
  BY DEF maintain_swarm_strength
<1>2. ASSUME v \in fresh
      PROVE  sk[v] = "none"
  <2>1. v[1] \in Entry /\ made[v[1]] \in Nat /\ v[2] = made[v[1]] + 1
    BY <1>2 DEF Worker, PoolTypes, SwarmAssumption
  <2> QED
    BY <2>1 DEF Numbered
<1> HIDE DEF fresh
<1> QED
  BY <1>1, <1>2

\* What disconnect does to the connections that have been made.
LEMMA DisconnectReads ==
  ASSUME SwarmAssumption, IInv, NEW w \in Worker, NEW r, disconnect(w, r),
         socket[w] # "none"
  PROVE  /\ socket'[w] = "closed" /\ reading'[w] = r
         /\ \A v \in Worker \ {w} : socket[v] # "none" =>
              socket'[v] = socket[v] /\ reading'[v] = reading[v]
<1> DEFINE sk == [socket EXCEPT ![w] = "closed"]
           rd == [reading EXCEPT ![w] = r]
<1>1. PoolTypes /\ Numbered(socket, made)
  BY DEF IInv, PoolInv
<1>2. /\ sk[w] = "closed" /\ rd[w] = r
      /\ \A v \in Worker \ {w} : sk[v] = socket[v] /\ rd[v] = reading[v]
  BY <1>1 DEF PoolTypes
<1>3. PICK st, aw : maintain_swarm_strength(st, aw, sk, rd)
  BY DEF disconnect, handle_disconnect
<1> HIDE DEF sk, rd
<1>4. Numbered(sk, made)
  BY <1>1, <1>2 DEF Numbered
<1>5. \A v \in Worker :
        \/ socket'[v] = sk[v] /\ reading'[v] = rd[v]
        \/ sk[v] = "none" /\ socket'[v] = "open"
  BY <1>1, <1>3, <1>4, MaintainLeaves
<1> QED
  BY <1>2, <1>5

\* A connection that ends leaves nothing behind when it keeps no piece.
LEMMA DisconnectReaders ==
  ASSUME SwarmAssumption, IInv, HeldByReaders,
         NEW w \in Worker, NEW r, disconnect(w, r),
         socket[w] # "none", active_piece'[w] = NoPiece,
         \A v \in Worker \ {w} : active_piece'[v] = active_piece[v]
  PROVE  HeldByReaders'
BY DisconnectReads DEF HeldByReaders

\* Every handler leaves pieces with readers only, as long as connections end quietly.
LEMMA HandlerReaders ==
  ASSUME SwarmAssumption, IInv, HeldByReaders, EndsQuietly, EndsQuietly',
         NEW w \in Worker, Handler(w)
  PROVE  HeldByReaders'
<1> USE DEF pool, board, conn
<1>1. /\ PoolTypes /\ BoardTypes
      /\ socket \in [Worker -> SocketStates] /\ reading \in [Worker -> Readings]
      /\ active_piece \in [Worker -> Piece \cup {NoPiece}]
      /\ \A v \in Worker : socket[v] = "none" =>
           reading[v] = "none" /\ writes[v] = 0 /\ doomed[v] = 0
  BY DEF IInv, PoolInv, BoardInv, PoolTypes, BoardTypes, Unborn
<1>2. ASSUME socket[w] = "open"
      PROVE  reading[w] \in {"connect", "handshake", "message"}
  <2>1. Working
    BY HandlerEnds DEF Working
  <2> QED
    BY <1>2, <2>1 DEF IInv, PoolInv, Slots
<1>3. CASE ConnectFails(w) \/ HandshakeFails(w)
  <2>1. /\ disconnect(w, "none") /\ UNCHANGED active_piece
        /\ reading[w] \in {"connect", "handshake"}
    BY <1>3 DEF ConnectFails, HandshakeFails, Pending
  <2>2. active_piece[w] = NoPiece /\ socket[w] # "none"
    BY <1>1, <2>1 DEF HeldByReaders
  <2> QED
    BY <2>1, <2>2, DisconnectReaders
<1>4. CASE ReadFails(w)
  <2>1. disconnect(w, "none") /\ Release(w) /\ reading[w] \in {"message", "dead"}
    BY <1>4 DEF ReadFails, Pending
  <2>2. socket[w] # "none"
    BY <1>1, <2>1
  <2>3. reading'[w] = "none" /\ writes'[w] = 0 /\ doomed'[w] = 0
    BY <2>1, <2>2, DisconnectReads DEF EndsQuietly
  <2>4. active_piece' = [active_piece EXCEPT ![w] = NoPiece]
    BY <2>1, <2>3 DEF Release
  <2>5. /\ active_piece'[w] = NoPiece
        /\ \A v \in Worker \ {w} : active_piece'[v] = active_piece[v]
    BY <1>1, <2>4
  <2> QED
    BY <2>1, <2>2, <2>5, DisconnectReaders
<1>5. CASE PieceCorrupt(w)
  <2>1. /\ disconnect(w, "dead") /\ reading[w] = "message"
        /\ active_piece' = [active_piece EXCEPT ![w] = NoPiece]
    BY <1>5 DEF PieceCorrupt, Complete, Pending
  <2>2. /\ active_piece'[w] = NoPiece /\ socket[w] # "none"
        /\ \A v \in Worker \ {w} : active_piece'[v] = active_piece[v]
    BY <1>1, <2>1
  <2> QED
    BY <2>1, <2>2, DisconnectReaders
<1>6. CASE Connects(w)
  <2>1. /\ reading[w] = "connect" /\ reading' = [reading EXCEPT ![w] = "handshake"]
        /\ UNCHANGED <<socket, active_piece>>
    BY <1>6 DEF Connects, Pending
  <2>2. /\ active_piece[w] = NoPiece
        /\ \A v \in Worker \ {w} : reading'[v] = reading[v]
    BY <1>1, <2>1 DEF HeldByReaders
  <2> QED
    BY <2>1, <2>2 DEF HeldByReaders
<1>7. CASE (HandshakeRead(w) \/ Message(w)) /\ ~ PieceCorrupt(w) /\ ~ HashThrows(w)
  <2>1. /\ reading[w] \in {"handshake", "message"} /\ ReadNext(w) /\ UNCHANGED socket
    BY <1>7 DEF HandshakeRead, Message, Choke, Unchoke, Block, OtherMessage, Announce,
                PieceStored, PieceNotStored, Complete, Pending
  <2>2. socket[w] = "open"
    BY <1>1, <2>1 DEF EndsQuietly, SocketStates
  <2>3. /\ reading'[w] = "message"
        /\ \A v \in Worker \ {w} : reading'[v] = reading[v]
    BY <1>1, <2>1, <2>2 DEF ReadNext
  <2>4. \A v \in Worker \ {w} : active_piece'[v] = active_piece[v]
    <3>1. CASE Unchoke(w) \/ PieceStored(w) \/ PieceNotStored(w)
      <4>1. \E list \in [Piece -> BOOLEAN] : request_work(w, list)
        BY <1>1, <3>1, RequeuedKeeps
           DEF Unchoke, PieceStored, PieceNotStored, BoardTypes
      <4> QED
        BY <1>1, <4>1, WorkRequested
    <3>2. CASE Choke(w)
      BY <1>1, <3>2 DEF Choke
    <3>3. CASE UNCHANGED active_piece
      BY <3>3
    <3> QED
      BY <1>7, <3>1, <3>2, <3>3 DEF HandshakeRead, Message, Block, OtherMessage, Announce
  <2> QED
    BY <2>1, <2>2, <2>3, <2>4 DEF HeldByReaders
<1>8. CASE Throws(w)
  <2>1. UNCHANGED <<socket, reading>>
    BY <1>8 DEF Throws, HandshakeWriteThrows, HashThrows
  <2>2. active_piece' \in {active_piece, [active_piece EXCEPT ![w] = NoPiece]}
    BY <1>8 DEF Throws, HandshakeWriteThrows, HashThrows
  <2>3. \A v \in Worker : active_piece'[v] \in {active_piece[v], NoPiece}
    BY <1>1, <2>2
  <2> QED
    BY <2>1, <2>3 DEF HeldByReaders
<1>9. CASE WriteDone(w)
  <2>1. /\ writes[w] > 0 /\ Release(w) /\ UNCHANGED <<socket, reading>>
    BY <1>9 DEF WriteDone
  <2>2. socket[w] # "closed" /\ socket[w] # "none"
    BY <1>1, <2>1 DEF EndsQuietly
  <2>3. reading'[w] # "none"
    BY <1>1, <1>2, <2>1, <2>2 DEF SocketStates
  <2>4. UNCHANGED active_piece
    BY <2>1, <2>3 DEF Release
  <2> QED
    BY <2>1, <2>4 DEF HeldByReaders
<1>10. CASE WriteFails(w)
  <2>1. disconnect(w, reading[w]) /\ (writes[w] > 0 \/ doomed[w] > 0)
    BY <1>10 DEF WriteFails
  <2>2. socket[w] = "open"
    BY <1>1, <2>1 DEF EndsQuietly, SocketStates
  <2>3. socket'[w] = "closed" /\ reading'[w] = reading[w]
    BY <2>1, <2>2, DisconnectReads
  <2> QED
    BY <1>2, <2>2, <2>3 DEF EndsQuietly
<1> QED
  BY <1>3, <1>4, <1>5, <1>6, <1>7, <1>8, <1>9, <1>10 DEF Handler, Message, Throws

\* Only open connections hold pieces, where connections end quietly.
LEMMA QuietEnds == Spec /\ []EndsQuietly => []OnlyOpenHold
<1>1. Init => HeldByReaders
  BY DEF Init, HeldByReaders
<1>2. ASSUME IInv, HeldByReaders, EndsQuietly, EndsQuietly', [Next]_vars
      PROVE  HeldByReaders'
  <2> USE DEF pool, conn
  <2>1. PoolTypes /\ Numbered(socket, made) /\ SwarmAssumption
    BY <1>2, SwarmAssumption DEF IInv, PoolInv
  <2>2. ASSUME NEW st, NEW aw, maintain_swarm_strength(st, aw, socket, reading),
               UNCHANGED active_piece
        PROVE  HeldByReaders'
    <3>1. \A v \in Worker :
            \/ socket'[v] = socket[v] /\ reading'[v] = reading[v]
            \/ socket[v] = "none" /\ socket'[v] = "open"
      BY <2>1, <2>2, MaintainLeaves
    <3> QED
      BY <1>2, <2>2, <3>1 DEF HeldByReaders
  <2>3. CASE StartDownload
    BY <2>2, <2>3 DEF StartDownload
  <2>4. CASE \E w \in Worker : Handler(w)
    BY <1>2, <2>1, <2>4, HandlerReaders
  <2>5. CASE \E w \in Worker : CloseWorker(w)
    BY <2>2, <2>5 DEF CloseWorker, handle_disconnect
  <2>6. CASE RunReturns \/ LoopEnds \/ Terminated \/ UNCHANGED vars
    BY <1>2, <2>6 DEF RunReturns, LoopEnds, Terminated, vars, HeldByReaders
  <2> QED
    BY <1>2, <2>3, <2>4, <2>5, <2>6 DEF Next
<1>3. HeldByReaders => OnlyOpenHold
  BY DEF HeldByReaders, OnlyOpenHold
<1> QED
  BY <1>1, <1>2, <1>3, Invariance, PTL DEF Spec

\* Where the end of each connection is reported by the last operation it had pending,
\* the swarm keeps all it promises about its pieces, with any number of request writes
\* pending before: what CompleteMeansAllOnDisk is violated by is a second report.
THEOREM SettledSwarm ==
  QuietSpec =>
    /\ [](OneFetchPerPiece /\ CompleteMeansAllOnDisk)
    /\ ImplementsPieceBoard
<1>1. Init => EndsQuietly
  BY DEF Init, EndsQuietly
<1>2. UNCHANGED vars /\ EndsQuietly => EndsQuietly'
  BY DEF vars, conn, EndsQuietly
<1>3. QuietSpec => Spec /\ []EndsQuietly
  BY <1>1, <1>2, PTL DEF QuietSpec, Spec
<1> QED
  BY <1>3, QuietEnds, FetchedOnce, CompleteIsOnDisk, SwarmIsBoard, PTL
=============================================================================
