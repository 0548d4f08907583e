--------------------------------- MODULE Anzi ---------------------------------
(***************************************************************************)
(* anzi, which copies redis instances into a proxy's cluster: Migrate and  *)
(* the barrier, and for every instance Sync: PSYNC, the dump read record   *)
(* by record and written through ProtocolCallbacker's buffer, and then     *)
(* cmdForward's two goroutines under the read-write lock.  Writes are      *)
(* numbered; io.Copy passes them on one by one.                            *)
(***************************************************************************)
EXTENDS RdbWriter

CONSTANTS Sources,             \* the instances to copy
          Dumps,               \* functions from instances to the objects they hold
          Outages,             \* sets of instances that cannot be reached
          MaxRDBConcurrency,
          Buf,                 \* commands the writer's buffer takes
          MaxWrites,           \* bound: commands an instance executes after its dump
          MaxFaults

ASSUME AnziAssumption == IsFiniteSet(Sources) /\ MaxRDBConcurrency \in Nat \ {0}

VARIABLES dump, down,          \* the data, and the instances that cannot be reached
          main, filled,        \* Migrate's progress, tokens it has made
          tokens,              \* barrierC
          pc,                  \* per instance: start, sync, rdb, forward
          rd,                  \* its RDB
          buf, werr,           \* bw of the callback: what it holds, its sticky error
          got,                 \* commands the target has received
          wrote, fwd,          \* commands the instance executed, and written to the target
          up, target,          \* the two connections: ok, eof, err; fresh after a redial
          copier, discard,     \* the goroutines of cmdForward
          copied, offset,      \* size of the running io.Copy, inst.offset
          retried, lost,       \* history: an attempt failed, a buffer was lost
          panicked, faults

conns == <<wrote, fwd, up, target, copier, discard, copied, offset>>
vars == <<dump, down, main, filled, tokens, pc, rd, buf, werr, got, conns,
          retried, lost, panicked, faults>>

Init ==
  /\ dump \in Dumps /\ down \in Outages
  /\ main = "ping" /\ filled = 0 /\ tokens = 0
  /\ pc = [i \in Sources |-> "start"]
  /\ rd = [i \in Sources |-> Reader(<<>>)]
  /\ buf = [i \in Sources |-> <<>>] /\ werr = [i \in Sources |-> FALSE]
  /\ got = [i \in Sources |-> <<>>]
  /\ wrote = [i \in Sources |-> 0] /\ fwd = [i \in Sources |-> 0]
  /\ up = [i \in Sources |-> "ok"] /\ target = [i \in Sources |-> "ok"]
  /\ copier = [i \in Sources |-> "off"] /\ discard = [i \in Sources |-> "off"]
  /\ copied = [i \in Sources |-> 0] /\ offset = [i \in Sources |-> 0]
  /\ retried = [i \in Sources |-> FALSE] /\ lost = [i \in Sources |-> FALSE]
  /\ panicked = FALSE /\ faults = 0

Fault == faults < MaxFaults /\ faults' = faults + 1
-----------------------------------------------------------------------------
(* Migrate: CheckPing until the proxy answers, then the tokens. *)
CheckPing ==
  /\ main = "ping" /\ main' = "fill"
  /\ UNCHANGED <<dump, down, filled, tokens, pc, rd, buf, werr, got, conns, retried, lost, panicked, faults>>
FillBarrier ==
  /\ main = "fill" /\ tokens < MaxRDBConcurrency
  /\ filled' = filled + 1 /\ tokens' = tokens + 1
  /\ main' = IF filled' = MaxRDBConcurrency THEN "wait" ELSE "fill"
  /\ UNCHANGED <<dump, down, pc, rd, buf, werr, got, conns, retried, lost, panicked, faults>>

(* Sync takes a token, once. *)
TakeToken(i) ==
  /\ pc[i] = "start" /\ tokens > 0
  /\ tokens' = tokens - 1 /\ pc' = [pc EXCEPT ![i] = "sync"]
  /\ UNCHANGED <<dump, down, main, filled, rd, buf, werr, got, conns, retried, lost, panicked, faults>>

(* sync: the dial, PSYNC and its reply, the header of the dump, and the     *)
(* callback's connection.  Whatever fails of the first three is tried again *)
(* after a sleep; a callback without connection panics at its first write.  *)
StartRDB(i) ==
  /\ pc[i] = "sync" /\ i \notin down
  /\ pc' = [pc EXCEPT ![i] = "rdb"]
  /\ rd' = [rd EXCEPT ![i] = Reader(Dump(dump[i]))]
  /\ buf' = [buf EXCEPT ![i] = <<>>] /\ werr' = [werr EXCEPT ![i] = FALSE]
  /\ lost' = [lost EXCEPT ![i] = FALSE]
  /\ \/ UNCHANGED <<panicked, faults>>
     \/ Fault /\ panicked' = TRUE
  /\ UNCHANGED <<dump, down, main, filled, tokens, got, conns, retried>>

(* bgSyncProc carries out a task; the connection may break before it.       *)
ReadRDB(i) ==
  /\ pc[i] = "rdb" /\ rd[i].out = <<>> /\ rd[i].e = "" /\ ~rd[i].end
  /\ \/ rd' = [rd EXCEPT ![i] = Step(@)] /\ UNCHANGED faults
     \/ Fault /\ \E e \in Breaks(rd[i]) : rd' = [rd EXCEPT ![i] = Err(@, e)]
  /\ panicked' = (rd'[i].e = "panic")
  /\ UNCHANGED <<dump, down, main, filled, tokens, pc, buf, werr, got, conns, retried, lost>>

(* A command goes into the buffer, which is flushed when it is full.  If    *)
(* that fails, handleErr dials again and starts with an empty buffer: what  *)
(* the old one held and this command are lost.                              *)
WriteCmd(i) ==
  /\ pc[i] = "rdb" /\ rd[i].out # <<>>
  /\ rd' = [rd EXCEPT ![i].out = <<>>]
  /\ LET full == Len(buf[i]) = Buf
         cmd == Head(rd[i].out)
     IN \/ /\ ~werr[i]
           /\ buf' = [buf EXCEPT ![i] = IF full THEN <<cmd>> ELSE Append(@, cmd)]
           /\ got' = IF full THEN [got EXCEPT ![i] = @ \o buf[i]] ELSE got
           /\ UNCHANGED <<werr, lost, faults>>
        \/ /\ ~werr[i] /\ full /\ Fault
           /\ lost' = [lost EXCEPT ![i] = TRUE] /\ buf' = [buf EXCEPT ![i] = <<>>]
           /\ \E dialed \in BOOLEAN : werr' = [werr EXCEPT ![i] = ~dialed]
           /\ UNCHANGED got
        \/ /\ werr[i] /\ \E dialed \in BOOLEAN : werr' = [werr EXCEPT ![i] = ~dialed]
           /\ UNCHANGED <<buf, got, lost, faults>>
  /\ UNCHANGED <<dump, down, main, filled, tokens, pc, conns, retried, panicked>>

\* A bug: the token is given back by an attempt that failed, too.
RestartFree(i) ==
  /\ pc' = [pc EXCEPT ![i] = "sync"] /\ retried' = [retried EXCEPT ![i] = TRUE]
  /\ tokens' = IF tokens < MaxRDBConcurrency THEN tokens + 1 ELSE tokens
(* sync fails: both connections are closed, the buffer is dropped, and the  *)
(* token is kept for the next attempt.                                      *)
Restart(i) ==
  /\ pc' = [pc EXCEPT ![i] = "sync"] /\ retried' = [retried EXCEPT ![i] = TRUE]
  /\ UNCHANGED tokens
SyncFails(i) ==
  /\ pc[i] = "rdb" /\ rd[i].out = <<>> /\ rd[i].e # ""
  /\ Restart(i)
  /\ UNCHANGED <<dump, down, main, filled, rd, buf, werr, got, conns, lost, panicked, faults>>

(* The end of the dump: the last flush, whose error is ignored; the         *)
(* checksum; the token is given back; cmdForward starts.                    *)
GiveBack == tokens' = IF tokens < MaxRDBConcurrency THEN tokens + 1 ELSE tokens
EndOfRDB(i) ==
  /\ pc[i] = "rdb" /\ rd[i].out = <<>> /\ rd[i].end
  /\ buf' = [buf EXCEPT ![i] = <<>>]
  /\ \/ /\ ~werr[i] /\ got' = [got EXCEPT ![i] = @ \o buf[i]]
        /\ UNCHANGED <<lost, target>>
     \/ /\ werr[i] \/ faults < MaxFaults
        /\ lost' = [lost EXCEPT ![i] = TRUE] /\ target' = [target EXCEPT ![i] = "err"]
        /\ UNCHANGED got
  /\ \/ /\ GiveBack /\ pc' = [pc EXCEPT ![i] = "forward"]
        /\ copier' = [copier EXCEPT ![i] = "copy"] /\ discard' = [discard EXCEPT ![i] = "copy"]
        /\ faults' = IF target' # target /\ ~werr[i] THEN faults + 1 ELSE faults
        /\ UNCHANGED retried
     \/ /\ target' = target /\ Fault /\ Restart(i) /\ UNCHANGED <<copier, discard>>
  /\ UNCHANGED <<dump, down, main, filled, rd, werr, wrote, fwd, up, copied, offset, panicked>>
-----------------------------------------------------------------------------
fixed == <<dump, down, main, filled, tokens, pc, rd, buf, werr, got, retried, lost, panicked>>

(* External: the instance executes a command and sends it on; a connection  *)
(* is closed or reset.                                                      *)
Execute(i) ==
  /\ pc[i] = "forward" /\ up[i] = "ok" /\ wrote[i] < MaxWrites
  /\ wrote' = [wrote EXCEPT ![i] = @ + 1]
  /\ UNCHANGED <<fixed, fwd, up, target, copier, discard, copied, offset, faults>>
Break(i) ==
  /\ pc[i] = "forward" /\ Fault
  /\ \E how \in {"eof", "err"} :
       \/ up[i] = "ok" /\ up' = [up EXCEPT ![i] = how] /\ UNCHANGED target
       \/ target[i] = "ok" /\ target' = [target EXCEPT ![i] = how] /\ UNCHANGED up
  /\ UNCHANGED <<fixed, wrote, fwd, copier, discard, copied, offset>>
CloseIdle(i) ==
  /\ up[i] = "fresh" /\ \E how \in {"eof", "err"} : up' = [up EXCEPT ![i] = how]
  /\ UNCHANGED <<fixed, wrote, fwd, target, copier, discard, copied, offset, faults>>

(* The discarding goroutine holds the read lock as long as the target's     *)
(* connection is open.                                                      *)
DiscardHolds(i) == discard[i] = "copy" /\ target[i] = "ok"

\* A bug: the copying goroutine takes the write lock.
CopyExclusive(i) ==
  /\ copier[i] = "copy" /\ ~DiscardHolds(i) /\ up[i] # "fresh" /\ target[i] # "err" /\ fwd[i] < wrote[i]
  /\ fwd' = [fwd EXCEPT ![i] = @ + 1] /\ copied' = [copied EXCEPT ![i] = @ + 1]
  /\ target' = [target EXCEPT ![i] = IF @ = "eof" THEN "err" ELSE @]
  /\ UNCHANGED <<fixed, wrote, up, copier, discard, offset, faults>>
(* io.Copy passes a command on; it ends without an error when the instance  *)
(* has closed the connection, with one when a connection is reset.  The     *)
(* first write after the target has closed its own succeeds.                *)
Copy(i) ==
  /\ copier[i] = "copy" /\ up[i] # "fresh" /\ target[i] # "err" /\ fwd[i] < wrote[i]
  /\ fwd' = [fwd EXCEPT ![i] = @ + 1] /\ copied' = [copied EXCEPT ![i] = @ + 1]
  /\ target' = [target EXCEPT ![i] = IF @ = "eof" THEN "err" ELSE @]
  /\ UNCHANGED <<fixed, wrote, up, copier, discard, offset, faults>>
AddOffset(i) == offset' = [offset EXCEPT ![i] = @ + copied[i]] /\ copied' = [copied EXCEPT ![i] = 0]
CopyEnds(i) ==
  /\ copier[i] = "copy"
  /\ \/ /\ up[i] = "eof" /\ fwd[i] = wrote[i]
        /\ AddOffset(i) /\ UNCHANGED copier
     \/ /\ up[i] = "err" \/ (target[i] = "err" /\ fwd[i] < wrote[i] /\ up[i] # "fresh")
        /\ copier' = [copier EXCEPT ![i] = "dial"] /\ UNCHANGED <<copied, offset>>
  /\ UNCHANGED <<fixed, wrote, fwd, up, target, discard, faults>>

(* reconnectInstance: when the dial fails io.Copy is called again, and the  *)
(* size is forgotten; otherwise it waits for the write lock.                *)
Dial(i) ==
  /\ copier[i] = "dial"
  /\ \/ copier' = [copier EXCEPT ![i] = "lock"] /\ UNCHANGED copied
     \/ copier' = [copier EXCEPT ![i] = "copy"] /\ copied' = [copied EXCEPT ![i] = 0]
  /\ UNCHANGED <<fixed, wrote, fwd, up, target, discard, offset, faults>>
Reconnect(i) ==
  /\ copier[i] = "lock" /\ ~DiscardHolds(i)
  /\ up' = [up EXCEPT ![i] = "fresh"] /\ copier' = [copier EXCEPT ![i] = "skip"]
  /\ UNCHANGED <<fixed, wrote, fwd, target, discard, copied, offset, faults>>
(* skipUntilNewCmd: nothing comes from a connection without PSYNC. *)
SkipUntilNewCmd(i) ==
  /\ copier[i] = "skip" /\ up[i] # "fresh"
  /\ copier' = [copier EXCEPT ![i] = "copy"] /\ AddOffset(i)
  /\ UNCHANGED <<fixed, wrote, fwd, up, target, discard, faults>>
Discard(i) ==
  /\ discard[i] = "copy" /\ target[i] = "err"
  /\ discard' = [discard EXCEPT ![i] = "done"]
  /\ UNCHANGED <<fixed, wrote, fwd, up, target, copier, copied, offset, faults>>
-----------------------------------------------------------------------------
Migrate == ~panicked /\ (CheckPing \/ FillBarrier)
Sync(i) ==
  /\ ~panicked
  /\ TakeToken(i) \/ StartRDB(i) \/ ReadRDB(i) \/ WriteCmd(i) \/ SyncFails(i) \/ EndOfRDB(i)
CmdForward(i) ==
  /\ ~panicked
  /\ Copy(i) \/ CopyEnds(i) \/ Dial(i) \/ Reconnect(i) \/ SkipUntilNewCmd(i) \/ Discard(i)
External(i) == ~panicked /\ (Execute(i) \/ Break(i) \/ CloseIdle(i))
Next == Migrate \/ \E i \in Sources : Sync(i) \/ CmdForward(i) \/ External(i)
(* The goroutines keep running. *)
Fairness == WF_vars(Migrate) /\ \A i \in Sources : WF_vars(Sync(i)) /\ WF_vars(CmdForward(i))
Spec == Init /\ [][Next]_vars /\ Fairness
-----------------------------------------------------------------------------
OfKey(seq, key) == SelectSeq(seq, LAMBDA c : c[2] = [t |-> key])

(***************************************************************************)
(* What the target has made of an instance's dump once cmdForward runs:    *)
(* for every object its elements in order, exactly once, and its expiry;   *)
(* if an attempt failed before, after what that attempt had sent (RPUSH is *)
(* not idempotent).  A sorted set is not there, because ZADD is sent       *)
(* without the score, and an expiry is a thousand times as late, because   *)
(* EXPIREAT is sent milliseconds.  Exceptions are the objects the reader   *)
(* misreads and a buffer lost with the target's connection.  The offset    *)
(* that replAck reports is never past what was forwarded, and the reader   *)
(* is never out of step but by a score without text.                       *)
(***************************************************************************)
Migrated ==
  \A i \in Sources :
    /\ pc[i] = "forward" /\ ~lost[i] =>
         \A n \in 1..Len(dump[i]) :
           LET o == dump[i][n]
               have == OfKey(got[i], o.key)
           IN Exact(o) => IF retried[i] THEN IsSuffix(Arrives(o), Applied(have))
                          ELSE Applied(have) = Arrives(o)
    /\ offset[i] + copied[i] <= fwd[i]
    /\ rd[i].e = "skew" => \E n \in 1..Len(dump[i]) : Skews(dump[i][n])

(***************************************************************************)
(* The barrier: no more than MaxRDBConcurrency instances are between their *)
(* token and the end of their dump, through any number of failed attempts, *)
(* and no token is made or lost.                                           *)
(***************************************************************************)
Holders == {i \in Sources : pc[i] \in {"sync", "rdb"}}
BarrierHolds ==
  /\ Cardinality(Holders) <= MaxRDBConcurrency
  /\ tokens + Cardinality(Holders) = filled

(***************************************************************************)
(* Every instance is copied and followed for ever, except one that cannot  *)
(* be reached or whose dump cannot be read, those that wait for a token    *)
(* when such instances hold them all, and an instance one of whose         *)
(* connections broke: cmdForward never gets it back.                       *)
(***************************************************************************)
Hopeless(i) == i \in down \/ \E n \in 1..Len(dump[i]) : Skews(dump[i][n]) \/ dump[i][n].t \in {6, 8}
Followed(i) ==
  \/ pc[i] = "forward" /\ (fwd[i] = wrote[i] \/ up[i] # "ok" \/ target[i] # "ok")
  \/ Hopeless(i)
  \/ pc[i] = "start" /\ tokens = 0 /\ \A j \in Holders : Hopeless(j)
EveryInstanceFollowed == <>[](panicked \/ \A i \in Sources : Followed(i))
=============================================================================
