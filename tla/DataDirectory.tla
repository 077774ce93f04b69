---------------------------- MODULE DataDirectory ----------------------------
(***************************************************************************)
(* The data directory of a node across starts, crashes and genesis resets  *)
(* (storage/persistence.ts, config/testnet-reset.ts): the manifest binds   *)
(* it to one chain, the block log, the chain snapshot and the audit book   *)
(* hold that chain's state, and a reset moves all of them into an archive  *)
(* one rename at a time, writing its marker last.  The operator may start  *)
(* any release, with or without the reset token, after any crash.  A file  *)
(* is the chain it belongs to and a stamp no other content carries.        *)
(***************************************************************************)
EXTENDS Naturals, Sequences, FiniteSetsExt

CONSTANTS
  Genesis,    \* the genesis hash of each release
  Legacy,     \* the chain of a directory written before the manifest existed
  ResetId,    \* the resets the operator may name, and NoReset: no token given
  NoReset,
  MaxWrites   \* bound: files written

Nothing == [chain |-> "", stamp |-> 0]

(* readdirSync(...).sort() *)
Sorted == <<"audits.json", "blocks.dat", "blocks.torn", "chainstate.corrupt",
            "chainstate.snapshot", "storage-manifest.json">>

Name == {Sorted[i] : i \in DOMAIN Sorted}

StateFile == {"audits.json", "blocks.dat", "chainstate.snapshot"}

Directory == [n \in Name |-> Nothing]

VARIABLES
  dir,      \* the files of the data directory
  archive,  \* [label -> files], the archives made so far
  done,     \* the resets whose marker is written
  node,     \* [phase, genesis, todo, label, mark]: the process
  torn,     \* the last append of the log was cut short
  live,     \* contents no writer has replaced or deleted (history)
  writes    \* stamps used

directoryVars == <<dir, archive, done, node, torn, live, writes>>

Down == [phase |-> "down", genesis |-> Nothing.chain, todo |-> {},
         label |-> <<>>, mark |-> <<>>]

Has(name) == dir[name] # Nothing

(* StorageManifest.ensure on a directory without a manifest: state whose   *)
(* block log is not of the current format is refused.                      *)
Adoptable == ~ Has("storage-manifest.json") =>
  \/ \A n \in StateFile : ~ Has(n)
  \/ Has("blocks.dat") /\ dir["blocks.dat"].chain # Legacy

Opens(g) ==
  /\ Has("storage-manifest.json") => dir["storage-manifest.json"].chain = g
  /\ Adoptable

(* The files a reset moves, and of those left the one it moves next. *)
Todo == {n \in Name : Has(n)}

ManifestFirst(names) ==
  IF "storage-manifest.json" \in names THEN "storage-manifest.json"
  ELSE CHOOSE n \in names : TRUE

First(names) == Sorted[Min({i \in DOMAIN Sorted : Sorted[i] \in names})]

ArchiveLabel(id, g) == <<dir["storage-manifest.json"].chain, id, g>>

Archived(label) == IF label \in DOMAIN archive THEN archive[label] ELSE Directory

UnclaimedAlways(label) == TRUE

Unclaimed(label) == \A n \in Todo : Archived(label)[n] = Nothing

(* A writer of the node puts a new content in place of its own last one. *)
Write(name, g) ==
  LET new == [chain |-> g, stamp |-> writes + 1]
  IN /\ writes < MaxWrites
     /\ writes' = writes + 1
     /\ dir' = [dir EXCEPT ![name] = new]
     /\ live' = (live \ {dir[name]}) \cup {new}

Rename(from, to) ==
  /\ Has(from) /\ ~ Has(to)
  /\ dir' = [dir EXCEPT ![to] = dir[from], ![from] = Nothing]
  /\ UNCHANGED <<live, writes>>
------------------------------------------------------------------------------
LegacyFiles == [Directory EXCEPT !["blocks.dat"] = [chain |-> Legacy, stamp |-> 1],
                                 !["audits.json"] = [chain |-> Legacy, stamp |-> 2]]

DirectoryInit ==
  /\ dir \in {Directory, LegacyFiles}
  /\ archive = <<>>
  /\ done = {}
  /\ node = Down
  /\ torn = FALSE
  /\ live = {dir[n] : n \in Name} \ {Nothing}
  /\ writes = 2

(* The node opens the directory it is left with, or stays down.  A torn   *)
(* tail of the log is set aside first; a file so named has its time in    *)
(* its name, and the model keeps the last one.                            *)
Open(g) ==
  /\ Opens(g)
  /\ node' = [Down EXCEPT !.phase = "running", !.genesis = g]
  /\ torn' = FALSE
  /\ \/ ~ Has("storage-manifest.json") /\ Write("storage-manifest.json", g)
     \/ Has("storage-manifest.json") /\ torn /\ Write("blocks.torn", g)
     \/ Has("storage-manifest.json") /\ ~ torn /\ UNCHANGED <<dir, live, writes>>

(* No token, or its marker is there already: the reset does nothing. *)
Start(g, id) ==
  /\ node.phase = "down"
  /\ id # NoReset => <<id, g>> \in done
  /\ Open(g)
  /\ UNCHANGED <<archive, done>>

(* A wrong token fails before this; so does a destination already there. *)
StartReset(g, id) ==
  /\ node.phase = "down"
  /\ id # NoReset
  /\ <<id, g>> \notin done
  /\ Unclaimed(ArchiveLabel(id, g))
  /\ node' = [phase |-> "resetting", genesis |-> g, todo |-> Todo,
              label |-> ArchiveLabel(id, g), mark |-> <<id, g>>]
  /\ UNCHANGED <<dir, archive, done, torn, live, writes>>

MoveNext ==
  /\ node.phase = "resetting"
  /\ node.todo # {}
  /\ LET name == First(node.todo)
         files == [Archived(node.label) EXCEPT ![name] = dir[name]]
     IN /\ archive' = [l \in DOMAIN archive \cup {node.label} |->
                         IF l = node.label THEN files ELSE archive[l]]
        /\ dir' = [dir EXCEPT ![name] = Nothing]
        /\ torn' = (torn /\ name # "blocks.dat")
  /\ node' = [node EXCEPT !.todo = @ \ {First(@)}]
  /\ UNCHANGED <<done, live, writes>>

(* The marker is renamed into place; the node opens what is left. *)
FinishReset ==
  /\ node.phase = "resetting"
  /\ node.todo = {}
  /\ done' = done \cup {node.mark}
  /\ Open(node.genesis)
  /\ UNCHANGED archive

(* BlockStore.append and rewrite, AuditStore.save, SnapshotStore.write. *)
Save(name) ==
  /\ node.phase = "running"
  /\ Write(name, node.genesis)
  /\ UNCHANGED <<archive, done, node, torn>>

(* A reorg deletes the snapshot. *)
ClearSnapshot ==
  /\ node.phase = "running"
  /\ Has("chainstate.snapshot")
  /\ dir' = [dir EXCEPT !["chainstate.snapshot"] = Nothing]
  /\ live' = live \ {dir["chainstate.snapshot"]}
  /\ UNCHANGED <<archive, done, node, torn, writes>>

(* A snapshot that does not decode is set aside, not deleted. *)
Quarantine ==
  /\ node.phase = "running"
  /\ Rename("chainstate.snapshot", "chainstate.corrupt")
  /\ UNCHANGED <<archive, done, node, torn>>

(* The process dies, perhaps in the middle of an append. *)
Dies ==
  /\ node.phase # "down"
  /\ node' = Down
  /\ torn' \in {torn, node.phase = "running" /\ Has("blocks.dat")}
  /\ UNCHANGED <<dir, archive, done, live, writes>>

DirectoryNext ==
  \/ \E g \in Genesis, id \in ResetId : Start(g, id) \/ StartReset(g, id)
  \/ MoveNext \/ FinishReset
  \/ \E name \in StateFile : Save(name)
  \/ ClearSnapshot \/ Quarantine \/ Dies

DirectorySpec == DirectoryInit /\ [][DirectoryNext]_directoryVars
------------------------------------------------------------------------------
Contents(files) == {files[n] : n \in Name}

(* A node that runs finds only its own chain's files around it, whatever  *)
(* reset was cut short before, and every content that no writer of the    *)
(* node replaced or deleted is still in the directory or in an archive    *)
(* (testnet-reset.ts:60, persistence.ts:383).                             *)
DirectoryInv ==
  /\ node.phase = "running" =>
       \A n \in Name : Has(n) => dir[n].chain = node.genesis
  /\ live \subseteq Contents(dir) \cup UNION {Contents(archive[l]) : l \in DOMAIN archive}
==============================================================================
