----------------------------- MODULE AnziProofs -----------------------------
(***************************************************************************)
(* The theorem about the barrier of Anzi, for any finite set of instances, *)
(* any number of tokens, and any dumps, failures and outages.              *)
(***************************************************************************)
EXTENDS Anzi, TLAPS, FiniteSetTheorems

-----------------------------------------------------------------------------
(* The inductive invariant.                                                *)

\* Migrate makes tokens until there are MaxRDBConcurrency, and stops.
FillInv ==
  /\ filled \in Nat /\ filled <= MaxRDBConcurrency
  /\ main \in {"ping", "fill"} => filled < MaxRDBConcurrency

IInv ==
  /\ FillInv
  /\ tokens \in Nat
  /\ pc \in [Sources -> {"start", "sync", "rdb", "forward"}]
  /\ tokens + Cardinality(Holders) = filled

-----------------------------------------------------------------------------
(* Holders.                                                                *)

\* The instances are finitely many, so the holders can be counted.
LEMMA HoldersCounted == IsFiniteSet(Holders) /\ Cardinality(Holders) \in Nat
<1>1. Holders \subseteq Sources
  BY DEF Holders
<1>2. IsFiniteSet(Holders)
  BY <1>1, AnziAssumption, FS_Subset
<1> QED
  BY <1>2, FS_CardinalityType

\* An instance that moves among the labels before, or among those after its token,
\* leaves the holders as they are.
LEMMA HoldersKept ==
  ASSUME pc \in [Sources -> {"start", "sync", "rdb", "forward"}],
         NEW i \in Sources, NEW l \in {"sync", "rdb"}, pc[i] \in {"sync", "rdb"},
         pc' = [pc EXCEPT ![i] = l]
  PROVE  Holders' = Holders /\ pc' \in [Sources -> {"start", "sync", "rdb", "forward"}]
BY DEF Holders

\* One more holder.
LEMMA HolderAdded ==
  ASSUME pc \in [Sources -> {"start", "sync", "rdb", "forward"}],
         NEW i \in Sources, pc[i] = "start", pc' = [pc EXCEPT ![i] = "sync"]
  PROVE  /\ Cardinality(Holders') = Cardinality(Holders) + 1
         /\ pc' \in [Sources -> {"start", "sync", "rdb", "forward"}]
<1>1. Holders' = Holders \cup {i} /\ i \notin Holders
  BY DEF Holders
<1>2. Cardinality(Holders \cup {i}) = Cardinality(Holders) + 1
  BY <1>1, HoldersCounted, FS_AddElement
<1> QED
  BY <1>1, <1>2

\* One holder less; there was one.
LEMMA HolderRemoved ==
  ASSUME pc \in [Sources -> {"start", "sync", "rdb", "forward"}],
         NEW i \in Sources, pc[i] = "rdb", pc' = [pc EXCEPT ![i] = "forward"]
  PROVE  /\ Cardinality(Holders') = Cardinality(Holders) - 1
         /\ Cardinality(Holders) \in Nat \ {0}
         /\ pc' \in [Sources -> {"start", "sync", "rdb", "forward"}]
<1>1. Holders' = Holders \ {i} /\ i \in Holders
  BY DEF Holders
<1>2. Cardinality(Holders \ {i}) = Cardinality(Holders) - 1
  BY <1>1, HoldersCounted, FS_RemoveElement
<1>3. IsFiniteSet(Holders \ {i})
  BY HoldersCounted, FS_RemoveElement
<1>4. Cardinality(Holders \ {i}) \in Nat
  BY <1>3, FS_CardinalityType
<1>5. Cardinality(Holders) \in Nat \ {0}
  BY <1>2, <1>4, HoldersCounted
<1> QED
  BY <1>1, <1>2, <1>5

-----------------------------------------------------------------------------
(* The steps.                                                              *)

\* Everything but taking, keeping and giving back a token leaves the barrier alone.
LEMMA Untouched ==
  ASSUME IInv, UNCHANGED <<main, filled, tokens, pc>>
  PROVE  IInv'
BY DEF IInv, FillInv, Holders

\* Migrate pings the proxy and fills the barrier.
LEMMA MigrateIInv ==
  ASSUME IInv, Migrate
  PROVE  IInv'
<1>1. CASE CheckPing
  BY <1>1 DEF CheckPing, IInv, FillInv, Holders
<1>2. CASE FillBarrier
  <2>1. /\ main = "fill" /\ filled' = filled + 1 /\ tokens' = tokens + 1 /\ pc' = pc
        /\ main' = IF filled' = MaxRDBConcurrency THEN "wait" ELSE "fill"
    BY <1>2 DEF FillBarrier
  <2>2. FillInv'
    BY <2>1, AnziAssumption DEF IInv, FillInv
  <2>3. Holders' = Holders
    BY <2>1 DEF Holders
  <2> QED
    BY <2>1, <2>2, <2>3, HoldersCounted DEF IInv, FillInv
<1> QED
  BY <1>1, <1>2 DEF Migrate

\* Sync takes one token, keeps it over failed attempts and gives it back once.
LEMMA SyncIInv ==
  ASSUME IInv, NEW i \in Sources, Sync(i)
  PROVE  IInv'
<1>0. pc \in [Sources -> {"start", "sync", "rdb", "forward"}]
  BY DEF IInv
<1>1. CASE TakeToken(i)
  <2>1. /\ pc[i] = "start" /\ tokens > 0 /\ tokens' = tokens - 1
        /\ pc' = [pc EXCEPT ![i] = "sync"] /\ UNCHANGED <<main, filled>>
    BY <1>1 DEF TakeToken
  <2>2. /\ Cardinality(Holders') = Cardinality(Holders) + 1
        /\ pc' \in [Sources -> {"start", "sync", "rdb", "forward"}]
    BY <1>0, <2>1, HolderAdded, Zenon
  <2>3. FillInv'
    BY <2>1 DEF IInv, FillInv
  <2>4. tokens' \in Nat /\ tokens' + Cardinality(Holders') = filled'
    BY <2>1, <2>2, HoldersCounted DEF IInv, FillInv
  <2> QED
    BY <2>2, <2>3, <2>4 DEF IInv
<1>2. CASE \E l \in {"sync", "rdb"} : /\ pc[i] \in {"sync", "rdb"} /\ pc' = [pc EXCEPT ![i] = l]
                                      /\ UNCHANGED <<main, filled, tokens>>
  <2>1. PICK l \in {"sync", "rdb"} : /\ pc[i] \in {"sync", "rdb"} /\ pc' = [pc EXCEPT ![i] = l]
                                     /\ UNCHANGED <<main, filled, tokens>>
    BY <1>2, Zenon
  <2>2. Holders' = Holders /\ pc' \in [Sources -> {"start", "sync", "rdb", "forward"}]
    BY <1>0, <2>1, HoldersKept, Zenon
  <2> QED
    BY <2>1, <2>2 DEF IInv, FillInv
<1>3. CASE StartRDB(i)
  BY <1>2, <1>3 DEF StartRDB
<1>4. CASE ReadRDB(i) \/ WriteCmd(i)
  BY <1>4, Untouched, Zenon DEF ReadRDB, WriteCmd
<1>5. CASE SyncFails(i)
  BY <1>2, <1>5, Zenon DEF SyncFails, Restart
<1>6. CASE EndOfRDB(i)
  <2>1. pc[i] = "rdb" /\ UNCHANGED <<main, filled>>
    BY <1>6 DEF EndOfRDB
  <2>2. CASE Restart(i)
    BY <1>2, <2>1, <2>2 DEF Restart
  <2>3. CASE GiveBack /\ pc' = [pc EXCEPT ![i] = "forward"]
    <3>1. /\ Cardinality(Holders') = Cardinality(Holders) - 1
          /\ Cardinality(Holders) \in Nat \ {0}
          /\ pc' \in [Sources -> {"start", "sync", "rdb", "forward"}]
      BY <1>0, <2>1, <2>3, HolderRemoved, Zenon
    <3>2. tokens < MaxRDBConcurrency
      BY <3>1, AnziAssumption DEF IInv, FillInv
    <3>3. tokens' = tokens + 1
      BY <2>3, <3>2 DEF GiveBack
    <3>4. FillInv'
      BY <2>1 DEF IInv, FillInv
    <3>5. tokens' \in Nat /\ tokens' + Cardinality(Holders') = filled'
      BY <2>1, <3>1, <3>3 DEF IInv, FillInv
    <3> QED
      BY <3>1, <3>4, <3>5 DEF IInv
  <2> QED
    BY <1>6, <2>2, <2>3 DEF EndOfRDB
<1> QED
  BY <1>1, <1>3, <1>4, <1>5, <1>6 DEF Sync

\* What happens after the dump does not touch the barrier.
LEMMA ForwardIInv ==
  ASSUME IInv, NEW i \in Sources, CmdForward(i) \/ External(i)
  PROVE  IInv'
<1>1. UNCHANGED fixed
  BY Zenon DEF CmdForward, Copy, CopyEnds, Dial, Reconnect, SkipUntilNewCmd, Discard,
         External, Execute, Break, CloseIdle
<1> QED
  BY <1>1, Untouched DEF fixed

-----------------------------------------------------------------------------
(* The theorems.                                                           *)

\* No token has been made, and nobody holds one.
LEMMA InitIInv == Init => IInv
<1> SUFFICES ASSUME Init PROVE IInv
  OBVIOUS
<1>1. Holders = {}
  BY DEF Init, Holders
<1>2. Cardinality(Holders) = 0
  BY <1>1, FS_EmptySet
<1>3. pc \in [Sources -> {"start", "sync", "rdb", "forward"}]
  BY DEF Init
<1>4. FillInv /\ tokens = 0 /\ filled = 0
  BY AnziAssumption DEF Init, FillInv
<1> QED
  BY <1>2, <1>3, <1>4 DEF IInv

\* Every step keeps the invariant.
LEMMA NextIInv == IInv /\ [Next]_vars => IInv'
<1> SUFFICES ASSUME IInv, [Next]_vars PROVE IInv'
  OBVIOUS
<1>1. CASE UNCHANGED vars
  BY <1>1, Untouched DEF vars
<1>2. CASE Migrate
  BY <1>2, MigrateIInv
<1>3. ASSUME NEW i \in Sources, Sync(i) \/ CmdForward(i) \/ External(i) PROVE IInv'
  BY <1>3, SyncIInv, ForwardIInv
<1> QED
  BY <1>1, <1>2, <1>3 DEF Next

\* The tokens of barrierC are neither made nor lost by failed attempts, and never
\* more than MaxRDBConcurrency instances read their dump.
THEOREM TokensConserved == Spec => []BarrierHolds
<1>1. IInv => BarrierHolds
  BY HoldersCounted, AnziAssumption DEF IInv, FillInv, BarrierHolds
<1> QED
  BY <1>1, InitIInv, NextIInv, PTL DEF Spec
=============================================================================
