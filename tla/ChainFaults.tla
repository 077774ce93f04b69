------------------------------ MODULE ChainFaults ------------------------------
(***************************************************************************)
(* ChainNode on a file system whose writes may fail (a full disk, an I/O   *)
(* error) without stopping the process.  A failed write throws out of      *)
(* applyLiveBlock or reorgToBlock after memory was changed; the exception  *)
(* ends the handler (attachSocket's catch drops the peer, tickNow's        *)
(* records an error) and the node goes on with what it has in memory.      *)
(* A failed append writes nothing here: partial records are left out.      *)
(***************************************************************************)
EXTENDS ChainNode

\* The exception ends whatever the handler was doing: the orphans it had taken
\* off the stash are gone.
Abort(h) ==
  /\ ingested' = [ingested EXCEPT ![h] = NoBlock]
  /\ waiting' = [waiting EXCEPT ![h] = <<>>]

\* The handler h is about to ingest b.
Begins(h, b) ==
  /\ up /\ ingested[h] = NoBlock
  /\ \/ /\ waiting[h] = <<>> /\ (h = Local => ExtendsTip(b))
        /\ b \notin Known /\ Attached(b)
     \/ waiting[h] # <<>> /\ Head(waiting[h]) = b

\* store.append throws: the block is in memory and not in the log.
AppendFails(h, b) ==
  /\ Begins(h, b) /\ CanExtend(b)
  /\ Learn(b)
  /\ active' = Append(active, b)
  /\ applied' = Append(applied, b)
  /\ Abort(h)
  /\ UNCHANGED <<up, orphans, late, disk, grafted>>

\* snapshot.write throws: the log has the block, the old snapshot stays.
SnapshotFails(h, b) ==
  /\ Begins(h, b) /\ CanExtend(b) /\ SnapshotDue(b)
  /\ Learn(b)
  /\ active' = Append(active, b)
  /\ applied' = Append(applied, b)
  /\ log' = Append(log, b)
  /\ Abort(h)
  /\ UNCHANGED <<up, orphans, late, torn, snap, grafted>>

\* store.rewrite throws: memory follows the new branch, the log the old one.
RewriteFails(h, b) ==
  /\ Begins(h, b) /\ CanReorg(b)
  /\ Learn(b)
  /\ active' = Ancestry[b]
  /\ applied' = Effects(Ancestry[b])
  /\ Abort(h)
  /\ UNCHANGED <<up, orphans, late, disk, grafted>>

FaultNext ==
  \/ Next
  \/ \E h \in Handler, b \in Block \ {Genesis} :
       AppendFails(h, b) \/ SnapshotFails(h, b) \/ RewriteFails(h, b)

FaultSpec == Init /\ [][FaultNext]_vars
------------------------------------------------------------------------------
\* "The log is always the linear active chain (a reorg rewrites it via
\* rewriteStoreToActiveChain), so each block must extend the current tip":
\* replayFromStore's comment, which the node's appends have to make true.
LogIsLinear ==
  \A i \in DOMAIN log :
    Parent[log[i]] = IF i = 1 THEN Genesis ELSE log[i - 1]
==============================================================================
