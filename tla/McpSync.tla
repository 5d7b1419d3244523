------------------------------ MODULE McpSync ------------------------------
(* `agent-scale mcp sync` (agent-scale/src/mcp_sync.rs): it merges the MCP   *)
(* servers of the selected Edges into the config files of the selected       *)
(* client programs of one project, and keeps a manifest of the entries it    *)
(* generated.  Several files change together, so they are first written to a *)
(* journal, which the next run applies if this one did not finish.  Runs of  *)
(* the command exclude each other by a lock file; people, editors and other  *)
(* tools change the config files without it.                                 *)
EXTENDS Integers, Sequences, FiniteSets

CONSTANTS
    Runs,        \* processes that run the command
    Programs,    \* the kinds of client program, in the order of ClientKind
    Aliases,     \* names of entries, "<edge>__<server>"
    Targets,     \* the pairs of Edge and server
    AliasOf,     \* the alias of a target; two targets may share one
    Custom,      \* an entry the command did not generate
    None

ASSUME McpAssumption ==
    /\ AliasOf \in [Targets -> Aliases]
    /\ Custom \notin Targets /\ None \notin Targets /\ None # Custom
    /\ Programs \in Seq({"claude", "codex"})
    /\ \A i, j \in DOMAIN Programs : Programs[i] = Programs[j] => i = j

VARIABLES
    config,      \* config[p][a]: the entry a in the file of program p
    manifest,    \* manifest[p][a]: the fingerprint recorded for an owned entry
    journal,     \* the journal file: a list of files with their new contents
    holder,      \* who holds the lock of the project
    run,         \* run[r]: what a process has in memory
    edited       \* history: <<p, a>> was edited since the command last read p

disk == <<config, manifest, journal>>
vars == <<config, manifest, journal, holder, run, edited>>

ProgramSet == {Programs[i] : i \in DOMAIN Programs}

(* Fingerprints are digests of the parsed entry, taken as injective: an      *)
(* entry stands for its own fingerprint.                                     *)
Entries == [Aliases -> Targets \cup {Custom, None}]
Owned == [Aliases -> Targets \cup {None}]
Nothing == [a \in Aliases |-> None]

(* One file of a journal: the config of a program, or the manifest.          *)
File == [path : ProgramSet, entries : Entries]
          \cup [path : {"manifest"}, entries : [ProgramSet -> Owned]]

Idle == [pc |-> "idle", programs |-> {}, desired |-> Nothing,
         owned |-> [p \in ProgramSet |-> Nothing], files |-> <<>>, next |-> 1]

Init ==
    /\ config = [p \in ProgramSet |-> Nothing]
    /\ manifest = [p \in ProgramSet |-> Nothing]
    /\ journal = None
    /\ holder = None
    /\ run = [r \in Runs |-> Idle]
    /\ edited = {}

-----------------------------------------------------------------------------
(* reconcile                                                                 *)

(* The errors of reconcile: an entry to remove was modified, an entry to add *)
(* is not ours, an entry to update was modified.                             *)
Refused_OwnedOnly(desired, owned, current) ==
    \E a \in Aliases : current[a] # None /\ owned[a] # None /\ current[a] # owned[a]

Refused(desired, owned, current) ==
    \E a \in Aliases :
        /\ current[a] # None
        /\ owned[a] # None \/ desired[a] # None
        /\ current[a] # owned[a]

(* Put for what is desired, Remove for what was owned and is not desired any *)
(* more; other entries stay as they are.                                     *)
Reconciled(desired, owned, current) ==
    [a \in Aliases |-> IF desired[a] # None THEN desired[a]
                       ELSE IF owned[a] # None THEN None
                       ELSE current[a]]

(* What the manifest records afterwards: just the entries now generated.     *)
OwnedAfter(desired, owned, current) == desired

-----------------------------------------------------------------------------
(* The command                                                               *)

(* A process that ends, in any way, gives the lock back.                     *)
Exit(r) ==
    /\ run' = [run EXCEPT ![r] = Idle]
    /\ holder' = IF holder = r THEN None ELSE holder

(* The command waits for the lock, then reads the journal that an earlier    *)
(* run may have left.                                                        *)
Begin_Unlocked(r, programs) ==
    /\ run[r].pc = "idle"
    /\ programs # {}
    /\ holder' = r
    /\ run' = [run EXCEPT ![r] = [Idle EXCEPT !.programs = programs,
                                    !.pc = IF journal = None THEN "catalog" ELSE "recover",
                                    !.files = IF journal = None THEN <<>> ELSE journal]]
    /\ UNCHANGED <<config, manifest, journal, edited>>

Begin(r, programs) ==
    /\ run[r].pc = "idle"
    /\ programs # {}
    /\ holder = None
    /\ holder' = r
    /\ run' = [run EXCEPT ![r] = [Idle EXCEPT !.programs = programs,
                                    !.pc = IF journal = None THEN "catalog" ELSE "recover",
                                    !.files = IF journal = None THEN <<>> ELSE journal]]
    /\ UNCHANGED <<config, manifest, journal, edited>>

(* The catalogs of the selected Edges are read, and checked on request; the  *)
(* targets must have different aliases.  Then the manifest is loaded.        *)
Catalog(r, targets) ==
    /\ run[r].pc = "catalog"
    /\ IF \A s, t \in targets : AliasOf[s] = AliasOf[t] => s = t
       THEN /\ run' = [run EXCEPT ![r].pc = "prepare", ![r].next = 1, ![r].files = <<>>,
                         ![r].owned = manifest,
                         ![r].desired = [a \in Aliases |->
                             IF \E t \in targets : AliasOf[t] = a
                             THEN CHOOSE t \in targets : AliasOf[t] = a
                             ELSE None]]
            /\ UNCHANGED holder
       ELSE Exit(r)
    /\ UNCHANGED <<disk, edited>>

(* prepare_claude and prepare_codex: read the file of the next program and   *)
(* compute its new contents, or refuse, with nothing written so far.         *)
Prepare(r) ==
    LET i == run[r].next
        p == Programs[i]
        desired == run[r].desired
        owned == run[r].owned[p]
    IN  /\ run[r].pc = "prepare"
        /\ i \in DOMAIN Programs
        /\ \/ /\ p \notin run[r].programs
              /\ run' = [run EXCEPT ![r].next = i + 1]
              /\ UNCHANGED <<holder, edited>>
           \/ /\ p \in run[r].programs
              /\ edited' = {e \in edited : e[1] # p}
              /\ IF Refused(desired, owned, config[p])
                 THEN Exit(r)
                 ELSE /\ run' = [run EXCEPT ![r].next = i + 1,
                                   ![r].owned[p] = OwnedAfter(desired, owned, config[p]),
                                   ![r].files = Append(@,
                                     [path |-> p, entries |-> Reconciled(desired, owned, config[p])])]
                      /\ UNCHANGED holder
        /\ UNCHANGED disk

(* commit_prepared: the manifest comes last; the journal replaces its file   *)
(* in one step.                                                              *)
WriteJournal(r) ==
    LET files == Append(run[r].files, [path |-> "manifest", entries |-> run[r].owned])
    IN  /\ run[r].pc = "prepare"
        /\ run[r].next = Len(Programs) + 1
        /\ journal' = files
        /\ run' = [run EXCEPT ![r].pc = "apply", ![r].next = 1, ![r].files = files]
        /\ UNCHANGED <<config, manifest, holder, edited>>

(* A file is replaced by a rename, in one step, whatever it holds by now.    *)
WriteIfChanged(f) ==
    IF f.path = "manifest"
    THEN manifest' = f.entries /\ UNCHANGED config
    ELSE config' = [config EXCEPT ![f.path] = f.entries] /\ UNCHANGED manifest

(* apply_journal, of this run's journal or of the one it found.              *)
ApplyFile(r) ==
    /\ run[r].pc \in {"recover", "apply"}
    /\ run[r].next \in DOMAIN run[r].files
    /\ WriteIfChanged(run[r].files[run[r].next])
    /\ run' = [run EXCEPT ![r].next = @ + 1]
    /\ UNCHANGED <<journal, holder, edited>>

(* All files are in place: the journal is removed.  A recovery goes on to    *)
(* the catalogs, a commit to the end of the command.                         *)
RemoveJournal_Early(r) ==
    /\ run[r].pc \in {"recover", "apply"}
    /\ run[r].next = Len(run[r].files)
    /\ journal' = None
    /\ run' = [run EXCEPT ![r].pc = IF @ = "recover" THEN "catalog" ELSE "done"]
    /\ UNCHANGED <<config, manifest, holder, edited>>

RemoveJournal(r) ==
    /\ run[r].pc \in {"recover", "apply"}
    /\ run[r].next = Len(run[r].files) + 1
    /\ journal' = None
    /\ run' = [run EXCEPT ![r].pc = IF @ = "recover" THEN "catalog" ELSE "done"]
    /\ UNCHANGED <<config, manifest, holder, edited>>

Unlock(r) ==
    /\ run[r].pc = "done"
    /\ Exit(r)
    /\ UNCHANGED <<disk, edited>>

(* The process is killed, or a read, a write or a call to an Edge fails: the *)
(* command ends where it is.                                                 *)
Fail(r) ==
    /\ run[r].pc \notin {"idle", "done"}
    /\ Exit(r)
    /\ UNCHANGED <<disk, edited>>

(* Somebody writes or deletes an entry by hand, at any time.                 *)
Edit(p, a, entry) ==
    /\ entry # config[p][a]
    /\ config' = [config EXCEPT ![p][a] = entry]
    /\ edited' = edited \cup {<<p, a>>}
    /\ UNCHANGED <<manifest, journal, holder, run>>

Next ==
    \/ \E r \in Runs :
        \/ \E programs \in SUBSET ProgramSet : Begin(r, programs)
        \/ \E targets \in SUBSET Targets : Catalog(r, targets)
        \/ Prepare(r) \/ WriteJournal(r) \/ ApplyFile(r) \/ RemoveJournal(r)
        \/ Unlock(r) \/ Fail(r)
    \/ \E p \in ProgramSet, a \in Aliases, entry \in {Custom, None} : Edit(p, a, entry)

Spec == Init /\ [][Next]_vars

-----------------------------------------------------------------------------
(* Properties                                                                *)

(* Every file, the journal and what a process holds have their shape.        *)
TypeOK ==
    /\ config \in [ProgramSet -> Entries]
    /\ manifest \in [ProgramSet -> Owned]
    /\ journal = None \/ journal \in Seq(File)
    /\ holder \in Runs \cup {None}
    /\ edited \subseteq ProgramSet \X Aliases
    /\ \A r \in Runs :
        /\ run[r].pc \in {"idle", "recover", "catalog", "prepare", "apply", "done"}
        /\ run[r].programs \subseteq ProgramSet
        /\ run[r].desired \in Owned
        /\ run[r].owned \in [ProgramSet -> Owned]
        /\ run[r].files \in Seq(File)
        /\ run[r].next \in 1 .. Len(Programs) + 2

(* While there is no journal to apply, every generated entry in a config     *)
(* file is in the manifest with the fingerprint it has.  So a sync that died *)
(* anywhere never leaves an entry that later syncs take for somebody else's  *)
(* and refuse to touch.                                                      *)
GeneratedEntriesAreOwned ==
    journal = None =>
        \A p \in ProgramSet, a \in Aliases :
            config[p][a] \in Targets => manifest[p][a] = config[p][a]

(* Together: manifest, journal and config files are well formed and agree,   *)
(* wherever syncs died.                                                      *)
OwnershipIsSound == TypeOK /\ GeneratedEntriesAreOwned

(* A sync that finished has installed what it wanted in every program it was *)
(* asked for, and nothing generated beyond that, except where somebody       *)
(* edited an entry since it read the file.                                   *)
FinishedSyncInstalled ==
    \A r \in Runs : run[r].pc = "done" =>
        \A p \in run[r].programs :
            /\ manifest[p] = run[r].desired
            /\ \A a \in Aliases : <<p, a>> \notin edited =>
                  IF run[r].desired[a] = None THEN config[p][a] \notin Targets
                  ELSE config[p][a] = run[r].desired[a]

(* The command changes a handwritten entry only if it was written after the  *)
(* command, or the run whose journal it recovers, had read the file: this is *)
(* how far "Sync never overwrites handwritten entries" (docs/mcp.md) goes.   *)
HandwrittenEntriesSurvive ==
    [][\A p \in ProgramSet, a \in Aliases :
         (config[p][a] = Custom /\ config'[p][a] # Custom)
            => <<p, a>> \in edited']_vars
=============================================================================
