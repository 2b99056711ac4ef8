---------------------------- MODULE MemoryStorage ----------------------------
(***************************************************************************)
(* One memory file and its cache: FileMemoryStorage (storage.py), with the *)
(* updater and the edits of updater.py that load, change and save it.      *)
(*                                                                         *)
(* No lock covers the file: a stat, a read, a replacement and an access to *)
(* the cache are steps of their own.  The callers are the timer thread of  *)
(* MemoryQueue, the event loop, which runs the requests of                 *)
(* routers/memory.py one at a time, and the threads that build prompts.    *)
(*                                                                         *)
(* A content is a version, a number that grows with every replacement and  *)
(* also stands for the mtime; 0 is a missing file and an empty memory.     *)
(***************************************************************************)
EXTENDS Naturals

CONSTANTS
    Updater,        \* the timer thread that updates the memory
    Callers,        \* the other threads that use the storage
    MaxSaves        \* bound: replacements of the file

Storers == Callers \cup {Updater}
Version == 0..MaxSaves

ASSUME MemoryStorageAssumption == Updater \notin Callers /\ MaxSaves \in Nat \ {0}

VARIABLES
    file,       \* the memory file
    cache,      \* _memory_cache
    storer,     \* where each caller stands
    spoiled     \* history: the file could not be read, or was replaced while a
                \* save or a reload was under way

storageVars == <<file, cache, storer, spoiled>>

Storer == [pc : {"idle", "cache", "read", "fill", "model", "save", "stat",
                 "store", "reread", "restat"},
           op : {"get", "edit", "clear", "import", "reload", "update"},
           data : Version, mtime : Version]

Resting == [pc |-> "idle", op |-> "get", data |-> 0, mtime |-> 0]

\* Every variable has its type.
MemoryStorageTypeOK ==
    /\ file \in Version
    /\ cache \in [data : Version, mtime : Version]
    /\ storer \in [Storers -> Storer]
    /\ spoiled \in BOOLEAN

\* No entry in the cache is as good as the entry of a missing file.
MemoryStorageInit ==
    /\ file \in {0, 1}
    /\ cache = [data |-> 0, mtime |-> 0]
    /\ storer = [s \in Storers |-> Resting]
    /\ spoiled = FALSE

-----------------------------------------------------------------------------

Goto(s, pc) == storer' = [storer EXCEPT ![s].pc = pc]
Leave(s) == storer' = [storer EXCEPT ![s] = Resting]

\* load returns data: an edit changes and saves it, the updater asks its model.
Loaded(s, data) ==
    CASE storer[s].op = "edit" -> storer' = [storer EXCEPT ![s].pc = "save", ![s].data = data]
      [] storer[s].op = "update" -> storer' = [storer EXCEPT ![s].pc = "model", ![s].data = data]
      [] OTHER -> Leave(s)

\* load begins with the file's mtime, an overwrite with the save; reload reads.
Begin(s, op) ==
    storer' = [storer EXCEPT ![s] =
        [pc |-> CASE op \in {"clear", "import"} -> "save"
                  [] op = "reload" -> "reread"
                  [] OTHER -> "cache",
         op |-> op, data |-> 0,
         mtime |-> IF op \in {"clear", "import", "reload"} THEN 0 ELSE file]]

\* A request, a prompt, or the next conversation of the updater.
Call(s) ==
    /\ storer[s].pc = "idle"
    /\ \E op \in IF s = Updater THEN {"update"}
                 ELSE {"get", "edit", "clear", "import", "reload"} : Begin(s, op)
    /\ UNCHANGED <<file, cache, spoiled>>

\* Mutant: an entry is brought up to the file's mtime without being read again.
LookUpTrusting(s) ==
    /\ storer[s].pc = "cache"
    /\ IF cache.mtime # 0 THEN Loaded(s, cache.data) ELSE Goto(s, "read")
    /\ cache' = IF cache.mtime # 0 THEN [cache EXCEPT !.mtime = storer[s].mtime] ELSE cache
    /\ UNCHANGED <<file, spoiled>>

\* load: an entry with the file's mtime is current.
LookUp(s) ==
    /\ storer[s].pc = "cache"
    /\ IF cache.mtime = storer[s].mtime THEN Loaded(s, cache.data) ELSE Goto(s, "read")
    /\ UNCHANGED <<file, cache, spoiled>>

\* _load_memory_from_file, by load and by reload; a file that cannot be opened
\* or parsed counts as an empty memory.
ReadFile(s, readable) ==
    /\ storer[s].pc \in {"read", "reread"}
    /\ storer' = [storer EXCEPT ![s].data = IF readable THEN file ELSE 0,
                        ![s].pc = IF @ = "read" THEN "fill" ELSE "restat"]
    /\ spoiled' = (spoiled \/ ~readable)
    /\ UNCHANGED <<file, cache>>

\* reload: the mtime after the content.
Restat(s) ==
    /\ storer[s].pc = "restat"
    /\ storer' = [storer EXCEPT ![s].mtime = file, ![s].pc = "fill"]
    /\ UNCHANGED <<file, cache, spoiled>>

\* The new entry of load and of reload.
Fill(s) ==
    /\ storer[s].pc = "fill"
    /\ cache' = [data |-> storer[s].data, mtime |-> storer[s].mtime]
    /\ Loaded(s, storer[s].data)
    /\ UNCHANGED <<file, spoiled>>

\* The model answers with an update that parses.
ModelAnswers ==
    /\ storer[Updater].pc = "model"
    /\ Goto(Updater, "save")
    /\ UNCHANGED <<file, cache, spoiled>>

\* Somebody is between a replacement or a read of the file and its mtime.
Between == \E s \in Storers : storer[s].pc \in {"stat", "restat"}

\* The file is replaced, in one step.
NewVersion ==
    /\ file < MaxSaves
    /\ file' = file + 1
    /\ spoiled' = (spoiled \/ Between)

\* save: the temporary file replaces the memory file.
Replace(s) ==
    /\ storer[s].pc = "save"
    /\ NewVersion
    /\ storer' = [storer EXCEPT ![s].pc = "stat", ![s].data = file + 1]
    /\ UNCHANGED cache

\* There is nothing to save, the answer cannot be used or save raises OSError.
GiveUp(s) ==
    /\ storer[s].pc \in {"model", "save"}
    /\ Leave(s)
    /\ UNCHANGED <<file, cache, spoiled>>

StatSaved(s) ==
    /\ storer[s].pc = "stat"
    /\ storer' = [storer EXCEPT ![s].mtime = file, ![s].pc = "store"]
    /\ UNCHANGED <<file, cache, spoiled>>

\* The new entry of save; an import answers with what it then loads.
StoreSaved(s) ==
    /\ storer[s].pc = "store"
    /\ cache' = [data |-> storer[s].data, mtime |-> storer[s].mtime]
    /\ IF storer[s].op = "import" THEN Begin(s, "get") ELSE Leave(s)
    /\ UNCHANGED <<file, spoiled>>

\* The file is edited from outside; the comparison of mtimes is there for it.
EditFile ==
    /\ NewVersion
    /\ UNCHANGED <<cache, storer>>

StorerNext(s) ==
    \/ Call(s) \/ LookUp(s) \/ (\E readable \in BOOLEAN : ReadFile(s, readable))
    \/ Restat(s) \/ Fill(s) \/ Replace(s) \/ GiveUp(s) \/ StatSaved(s) \/ StoreSaved(s)

MemoryStorageNext == (\E s \in Storers : StorerNext(s)) \/ ModelAnswers \/ EditFile

MemoryStorageSpec == MemoryStorageInit /\ [][MemoryStorageNext]_storageVars

-----------------------------------------------------------------------------

\* An entry that load accepts is the content of the file: load, save, edits
\* from outside and their interleavings never pair the new mtime with an old
\* content, unless the file could not be read, or two saves, or a reload and a
\* save, overlap.
CacheCurrent ==
    cache.mtime = file /\ ~spoiled => cache.data = file
=============================================================================
