-------------------------- MODULE JsonHistoryStore --------------------------
(***************************************************************************)
(* JSONHistoryStore (evaluator/storage/json_store.py): save rewrites the   *)
(* history file through a temporary file beside it and os.replace.  The    *)
(* writers are processes that save to the same path: the gateway           *)
(* (evaluator/api/app.py), the CLI, the evaluation pipeline.               *)
(*                                                                         *)
(* The file system is external: names refer to inodes, an open file keeps  *)
(* its inode when the name moves on, mode "a" appends and mode "w"         *)
(* truncates when it opens and then writes from its own offset.            *)
(*                                                                         *)
(* A file is a sequence of lines.  Records are numbered as they are given  *)
(* to save; TORN is the beginning of a line, without its newline.          *)
(***************************************************************************)
EXTENDS Integers, Sequences, Functions

CONSTANTS
    Writers,        \* processes that save to the path
    MaxRecords,     \* bound: calls of save in a behaviour
    MaxCrashes      \* bound: writers killed in a behaviour

ASSUME StoreConstants ==
    /\ MaxRecords \in Nat
    /\ MaxCrashes \in Nat

VARIABLES
    path,           \* inode of self._path, or NoFile
    tmp,            \* inode of self._path + ".tmp", or NoFile
    content,        \* lines of each inode
    pc,             \* where each writer is in save
    file,           \* the writer's f: its inode
    mode,           \* write_mode
    buffer,         \* what the writer wrote to f, flushed when f is closed
    record,         \* the record being saved
    records,        \* calls of save so far
    saved,          \* records whose save returned
    crashes         \* writers killed so far

files == <<path, tmp, content>>
writers == <<pc, file, mode, buffer, record>>
vars == <<files, writers, records, saved, crashes>>

NoFile == 0
TORN == 0
Inodes == 1..MaxRecords      \* a save creates at most one

Init ==
    /\ path = NoFile
    /\ tmp = NoFile
    /\ content = [n \in Inodes |-> << >>]
    /\ pc = [w \in Writers |-> "idle"]
    /\ file = [w \in Writers |-> NoFile]
    /\ mode = [w \in Writers |-> "a"]
    /\ buffer = [w \in Writers |-> << >>]
    /\ record = [w \in Writers |-> 0]
    /\ records = 0
    /\ saved = {}
    /\ crashes = 0

Lines(n) == IF n = NoFile THEN << >> ELSE content[n]

(* What load_all returns: the lines that are whole.  A line that starts    *)
(* right after a torn one is part of that malformed line.                  *)
Loaded(n) ==
    LET lines == Lines(n) IN
    {lines[i] : i \in {j \in DOMAIN lines :
        lines[j] # TORN /\ (j = 1 \/ lines[j - 1] # TORN)}}
-----------------------------------------------------------------------------
(* Mutants of Open: opens the history file itself; opens for update.       *)
OpenInPlace(w) ==
    /\ pc[w] = "idle"
    /\ records < MaxRecords
    /\ records' = records + 1
    /\ record' = [record EXCEPT ![w] = records + 1]
    /\ mode' = [mode EXCEPT ![w] = "a"]
    /\ LET n == IF path = NoFile THEN records + 1 ELSE path
       IN tmp' = n /\ file' = [file EXCEPT ![w] = n]
    /\ pc' = [pc EXCEPT ![w] = "opened"]
    /\ UNCHANGED <<path, content, buffer, saved, crashes>>

OpenForUpdate(w) ==
    /\ pc[w] = "idle"
    /\ records < MaxRecords
    /\ records' = records + 1
    /\ record' = [record EXCEPT ![w] = records + 1]
    /\ mode' = [mode EXCEPT ![w] = "r+"]
    /\ LET n == IF tmp = NoFile THEN records + 1 ELSE tmp
       IN tmp' = n /\ file' = [file EXCEPT ![w] = n]
    /\ pc' = [pc EXCEPT ![w] = "opened"]
    /\ UNCHANGED <<path, content, buffer, saved, crashes>>

(* save: choose the mode, open the temporary file.  Mode "a" keeps what a  *)
(* killed writer, or another writer, put there.                            *)
Open(w) ==
    /\ pc[w] = "idle"
    /\ records < MaxRecords
    /\ records' = records + 1
    /\ record' = [record EXCEPT ![w] = records + 1]
    /\ LET m == IF path = NoFile THEN "w" ELSE "a"
           n == IF tmp = NoFile THEN records + 1 ELSE tmp
       IN /\ mode' = [mode EXCEPT ![w] = m]
          /\ file' = [file EXCEPT ![w] = n]
          /\ tmp' = n
          /\ content' = IF m = "w" THEN [content EXCEPT ![n] = << >>] ELSE content
    /\ pc' = [pc EXCEPT ![w] = "opened"]
    /\ UNCHANGED <<path, buffer, saved, crashes>>

(* Mutant of Copy: writes the new line only.                               *)
CopyNothing(w) ==
    /\ pc[w] = "opened"
    /\ buffer' = [buffer EXCEPT ![w] = <<record[w]>>]
    /\ pc' = [pc EXCEPT ![w] = "written"]
    /\ UNCHANGED <<files, file, mode, record, records, saved, crashes>>

(* Copy the history file, if it is there, and add the new line.            *)
Copy(w) ==
    /\ pc[w] = "opened"
    /\ buffer' = [buffer EXCEPT ![w] = Append(Lines(path), record[w])]
    /\ pc' = [pc EXCEPT ![w] = "written"]
    /\ UNCHANGED <<files, file, mode, record, records, saved, crashes>>

(* Mutant of Close: f is still open when the file is renamed.              *)
CloseLater(w) ==
    /\ pc[w] = "written"
    /\ pc' = [pc EXCEPT ![w] = "closed"]
    /\ UNCHANGED <<files, file, mode, buffer, record, records, saved, crashes>>

(* What is left of the inode's lines behind those written over it.         *)
Remains(lines) ==
    {<< >>} \cup {<<TORN>> \o SubSeq(lines, k, Len(lines)) : k \in 2..(Len(lines) + 1)}

(* The inode after w wrote lines to it.  In mode "w" they overwrite what   *)
(* another writer has put there since f was opened.                        *)
Flushed(w, lines) ==
    LET before == content[file[w]] IN
    IF mode[w] = "a" THEN {before \o lines}
    ELSE {lines \o rest : rest \in IF before = << >> THEN {<< >>} ELSE Remains(before)}

(* f is closed: its buffer reaches the inode.                              *)
Close(w) ==
    /\ pc[w] = "written"
    /\ \E lines \in Flushed(w, buffer[w]) :
        content' = [content EXCEPT ![file[w]] = lines]
    /\ pc' = [pc EXCEPT ![w] = "closed"]
    /\ UNCHANGED <<path, tmp, file, mode, buffer, record, records, saved, crashes>>

(* os.replace, or FileNotFoundError when another writer renamed the file.  *)
Replace(w) ==
    /\ pc[w] = "closed"
    /\ path' = IF tmp = NoFile THEN path ELSE tmp
    /\ tmp' = NoFile
    /\ saved' = IF tmp = NoFile THEN saved ELSE saved \cup {record[w]}
    /\ pc' = [pc EXCEPT ![w] = "idle"]
    /\ UNCHANGED <<content, file, mode, buffer, record, records, crashes>>

(* What of its buffer a writer that is killed may have put in the file: a  *)
(* file object writes as soon as it holds more than its buffer's size.     *)
Partial(w) ==
    IF pc[w] # "written" THEN {<< >>}
    ELSE LET whole == {SubSeq(buffer[w], 1, k) : k \in 0..(Len(buffer[w]) - 1)}
         IN whole \cup {lines \o <<TORN>> : lines \in whole}

(* The writer is killed.                                                   *)
Crash(w) ==
    /\ pc[w] # "idle"
    /\ crashes < MaxCrashes
    /\ crashes' = crashes + 1
    /\ \E part \in Partial(w) :
        \E lines \in IF part = << >> THEN {content[file[w]]} ELSE Flushed(w, part) :
            content' = [content EXCEPT ![file[w]] = lines]
    /\ pc' = [pc EXCEPT ![w] = "idle"]
    /\ UNCHANGED <<path, tmp, file, mode, buffer, record, records, saved>>

Next ==
    \/ \E w \in Writers : Open(w)
    \/ \E w \in Writers : Copy(w)
    \/ \E w \in Writers : Close(w)
    \/ \E w \in Writers : Replace(w)
    \/ \E w \in Writers : Crash(w)

Spec == Init /\ [][Next]_vars
-----------------------------------------------------------------------------
(* Every variable ranges over the values its counterpart can have.         *)
TypeOK ==
    /\ path \in Inodes \cup {NoFile}
    /\ tmp \in Inodes \cup {NoFile}
    /\ content \in [Inodes -> Seq(0..records)]
    /\ pc \in [Writers -> {"idle", "opened", "written", "closed"}]
    /\ file \in [Writers -> Inodes \cup {NoFile}]
    /\ mode \in [Writers -> {"a", "w"}]
    /\ buffer \in [Writers -> Seq(0..records)]
    /\ record \in [Writers -> 0..records]
    /\ records \in 0..MaxRecords
    /\ saved \subseteq 1..records

(* "Preserves all previous records": a record whose save returned is       *)
(* loaded from then on.                                                    *)
SavedIsLoaded == saved \subseteq Loaded(path)

(* With one writer, killed anywhere, the only record that can be lost is   *)
(* the oldest: the beginning of a line that a kill left in the temporary   *)
(* file is completed by the first line of the next save's copy.            *)
OldestSaved == {r \in saved : \A q \in saved : r <= q}
OnlyOldestIsLost == saved \ OldestSaved \subseteq Loaded(path)

(* "Uses atomic write (temp file + rename)": the file under the name is    *)
(* never written to, so that load_all reads one state of it.               *)
PublishedIsFinal == [][path # NoFile => content'[path] = content[path]]_vars

(* A replaced file holds what the file before it held but for the oldest   *)
(* record: also the records of saves that were killed before they returned *)
(* and were published by a later one.                                      *)
PreservesRecords == [][Loaded(path) \ OldestSaved \subseteq Loaded(path)']_vars
=============================================================================
