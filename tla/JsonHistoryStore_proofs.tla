---------------------- MODULE JsonHistoryStore_proofs ----------------------
(***************************************************************************)
(* Proofs about JsonHistoryStore, for every bound on records and kills.    *)
(* For any number of writers TypeInv is inductive.  With one writer JInv   *)
(* is: it says what the temporary file holds at each point of save and     *)
(* after kills, and that the oldest saved record is the one that a torn    *)
(* line can swallow.                                                       *)
(***************************************************************************)
EXTENDS JsonHistoryStore, SequenceTheorems, TLAPS

Busy(w) == pc[w] # "idle"

TypeInv ==
    /\ TypeOK
    /\ \A w \in Writers : Busy(w) => file[w] \in Inodes /\ record[w] \in 1..records
-----------------------------------------------------------------------------
(* Sequences of lines with numbers up to r.                                *)
LEMMA ConstantsType ==
    /\ MaxRecords \in Nat /\ MaxCrashes \in Nat
    /\ NoFile \notin Inodes
    /\ \A n \in Inodes : n \in Nat
    BY StoreConstants DEF NoFile, Inodes

LEMMA LinesGrow ==
    ASSUME NEW r \in Nat, NEW s \in Seq(0..r)
    PROVE  s \in Seq(0..(r + 1))
    <1>1. 0..r \subseteq 0..(r + 1)
        OBVIOUS
    <1>2. QED BY <1>1, SeqMonotonic

(* What Flushed leaves in a file is made of lines and TORN.                *)
LEMMA FlushedType ==
    ASSUME TypeInv, NEW w \in Writers, Busy(w), NEW lines \in Seq(0..records),
           NEW f \in Flushed(w, lines)
    PROVE  f \in Seq(0..records)
    <1> DEFINE before == content[file[w]]
    <1>1. before \in Seq(0..records) /\ TORN \in 0..records /\ records \in Nat
        BY ConstantsType DEF TypeInv, TypeOK, TORN
    <1>2. f \in {before \o lines} \/ \E rest \in {<< >>} \cup Remains(before) : f = lines \o rest
        BY DEF Flushed
    <1> HIDE DEF before
    <1>3. ASSUME NEW rest \in Remains(before) PROVE rest \in Seq(0..records)
        <2>1. CASE rest = << >>
            BY <2>1
        <2>2. ASSUME NEW k \in 2..(Len(before) + 1),
                     rest = <<TORN>> \o SubSeq(before, k, Len(before))
              PROVE  rest \in Seq(0..records)
            <3>1. SubSeq(before, k, Len(before)) \in Seq(0..records)
                <4>1. \A i \in k..Len(before) : i \in 1..Len(before)
                    BY <1>1
                <4>2. \A i \in k..Len(before) : before[i] \in 0..records
                    BY <1>1, <4>1, ElementOfSeq
                <4>3. k \in Nat /\ Len(before) \in Nat
                    BY <1>1
                <4>4. QED BY <1>1, <4>1, <4>2, <4>3, SubSeqProperties
            <3>2. <<TORN>> \in Seq(0..records)
                BY <1>1
            <3>3. QED BY <2>2, <3>1, <3>2, ConcatProperties
        <2>3. QED BY <2>1, <2>2 DEF Remains
    <1>4. << >> \in Seq(0..records)
        OBVIOUS
    <1>5. QED BY <1>1, <1>2, <1>3, <1>4, ConcatProperties

(* A killed writer may have put the first k lines of its copy in the file, *)
(* or those and the beginning of the next.                                 *)
LEMMA PartOfCopy ==
    ASSUME NEW w \in Writers, NEW part \in Partial(w), part # << >>
    PROVE  /\ pc[w] = "written"
           /\ \E k \in 0..(Len(buffer[w]) - 1) :
                part \in {SubSeq(buffer[w], 1, k), SubSeq(buffer[w], 1, k) \o <<TORN>>}
    BY DEF Partial

LEMMA PartialType ==
    ASSUME TypeInv, NEW w \in Writers, NEW part \in Partial(w)
    PROVE  part \in Seq(0..records)
    <1>1. buffer[w] \in Seq(0..records) /\ TORN \in 0..records /\ records \in Nat
        BY ConstantsType DEF TypeInv, TypeOK, TORN
    <1>2. << >> \in Seq(0..records) /\ <<TORN>> \in Seq(0..records)
        BY <1>1
    <1>3. ASSUME NEW k \in 0..(Len(buffer[w]) - 1)
          PROVE  SubSeq(buffer[w], 1, k) \in Seq(0..records)
        <2>1. Len(buffer[w]) \in Nat
            BY <1>1
        <2>2. k \in Nat /\ k <= Len(buffer[w])
            BY <2>1
        <2>3. \A i \in 1..k : i \in 1..Len(buffer[w])
            BY <2>1, <2>2
        <2>4. \A i \in 1..k : buffer[w][i] \in 0..records
            BY <1>1, <2>3, ElementOfSeq
        <2>5. QED BY <1>1, <2>1, <2>2, <2>3, <2>4, SubSeqProperties
    <1>4. CASE part # << >>
        <2>1. PICK k \in 0..(Len(buffer[w]) - 1) :
                part \in {SubSeq(buffer[w], 1, k), SubSeq(buffer[w], 1, k) \o <<TORN>>}
            BY <1>4, PartOfCopy
        <2> DEFINE front == SubSeq(buffer[w], 1, k)
        <2>2. front \in Seq(0..records)
            BY <1>3
        <2> HIDE DEF front
        <2>3. front \o <<TORN>> \in Seq(0..records)
            BY ONLY <1>2, <2>2, ConcatProperties
        <2>4. QED BY ONLY <2>1, <2>2, <2>3 DEF front
    <1>5. QED BY <1>2, <1>4

LEMMA OpenTypes ==
    ASSUME TypeInv, NEW w \in Writers, Open(w)
    PROVE  TypeInv'
    <1>1. /\ records \in Nat /\ records < MaxRecords /\ records' = records + 1
          /\ record' = [record EXCEPT ![w] = records + 1]
          /\ pc' = [pc EXCEPT ![w] = "opened"]
          /\ UNCHANGED <<path, buffer, saved, crashes>>
        BY ConstantsType DEF TypeInv, TypeOK, Open
    <1> DEFINE m == IF path = NoFile THEN "w" ELSE "a"
               n == IF tmp = NoFile THEN records + 1 ELSE tmp
    <1>2. /\ mode' = [mode EXCEPT ![w] = m] /\ file' = [file EXCEPT ![w] = n]
          /\ tmp' = n
          /\ content' = IF m = "w" THEN [content EXCEPT ![n] = << >>] ELSE content
        BY DEF Open
    <1>3. n \in Inodes /\ m \in {"a", "w"} /\ records + 1 \in 1..records'
        BY <1>1, ConstantsType DEF TypeInv, TypeOK, Inodes
    <1> HIDE DEF m, n
    <1>4. \A s \in Seq(0..records) : s \in Seq(0..records')
        BY <1>1, LinesGrow
    <1>5. /\ content \in [Inodes -> Seq(0..records)] /\ buffer \in [Writers -> Seq(0..records)]
          /\ pc \in [Writers -> {"idle", "opened", "written", "closed"}]
          /\ file \in [Writers -> Inodes \cup {NoFile}]
          /\ mode \in [Writers -> {"a", "w"}]
          /\ record \in [Writers -> 0..records]
          /\ path \in Inodes \cup {NoFile} /\ saved \subseteq 1..records
        BY DEF TypeInv, TypeOK
    <1>6. content' \in [Inodes -> Seq(0..records')]
        <2>1. \A i \in Inodes : content'[i] = content[i] \/ content'[i] = << >>
            BY <1>2, <1>3, <1>5
        <2>2. DOMAIN content' = Inodes /\ content' = [i \in Inodes |-> content'[i]]
            BY <1>2, <1>5
        <2>3. ASSUME NEW i \in Inodes PROVE content'[i] \in Seq(0..records')
            <3>1. content[i] \in Seq(0..records) /\ << >> \in Seq(0..records)
                BY <1>5
            <3>2. content'[i] \in Seq(0..records)
                BY <2>1, <3>1
            <3>3. QED BY <1>4, <3>2
        <2>4. QED BY <2>2, <2>3
    <1>7. buffer' \in [Writers -> Seq(0..records')]
        BY <1>1, <1>4, <1>5
    <1>8. record' \in [Writers -> 0..records'] /\ saved' \subseteq 1..records'
        BY <1>1, <1>5
    <1>9. records' \in 0..MaxRecords
        BY <1>1, ConstantsType
    <1>10. \A v \in Writers : Busy(v)' => file'[v] \in Inodes /\ record'[v] \in 1..records'
        BY <1>1, <1>2, <1>3, <1>5 DEF TypeInv, Busy
    <1>11. /\ tmp' \in Inodes /\ file' \in [Writers -> Inodes \cup {NoFile}]
           /\ mode' \in [Writers -> {"a", "w"}]
           /\ pc' \in [Writers -> {"idle", "opened", "written", "closed"}]
           /\ path' \in Inodes \cup {NoFile}
        BY <1>1, <1>2, <1>3, <1>5
    <1>12. TypeOK'
        BY <1>6, <1>7, <1>8, <1>9, <1>11 DEF TypeOK
    <1>13. QED BY <1>10, <1>12 DEF TypeInv

LEMMA CopyTypes ==
    ASSUME TypeInv, NEW w \in Writers, Copy(w)
    PROVE  TypeInv'
    <1> USE DEF files
    <1>1. Lines(path) \in Seq(0..records)
        <2>1. path \in Inodes => content[path] \in Seq(0..records)
            BY DEF TypeInv, TypeOK
        <2>2. << >> \in Seq(0..records)
            OBVIOUS
        <2>3. QED BY <2>1, <2>2 DEF TypeInv, TypeOK, Lines
    <1>2. Append(Lines(path), record[w]) \in Seq(0..records)
        BY <1>1, AppendProperties DEF TypeInv, TypeOK
    <1>3. /\ buffer' \in [Writers -> Seq(0..records)]
          /\ pc' \in [Writers -> {"idle", "opened", "written", "closed"}]
          /\ \A v \in Writers : pc'[v] # "idle" => pc[v] # "idle"
        BY <1>2 DEF TypeInv, TypeOK, Copy
    <1>4. UNCHANGED <<files, file, mode, record, records, saved, crashes>>
        BY DEF Copy
    <1>5. QED BY <1>3, <1>4 DEF TypeInv, TypeOK, Busy

(* A step that puts lines in the file of w.                                *)
LEMMA WriteTypes ==
    ASSUME TypeInv, NEW w \in Writers, Busy(w), NEW f \in Seq(0..records), NEW p,
           p \in {"idle", "closed"},
           content' = [content EXCEPT ![file[w]] = f],
           pc' = [pc EXCEPT ![w] = p],
           UNCHANGED <<path, tmp, file, mode, buffer, record, records, saved>>
    PROVE  TypeInv'
    <1>1. content' \in [Inodes -> Seq(0..records)]
        BY DEF TypeInv, TypeOK
    <1>2. /\ pc' \in [Writers -> {"idle", "opened", "written", "closed"}]
          /\ \A v \in Writers : pc'[v] # "idle" => pc[v] # "idle"
        BY DEF TypeInv, TypeOK, Busy
    <1>3. QED BY <1>1, <1>2 DEF TypeInv, TypeOK, Busy

LEMMA CloseTypes ==
    ASSUME TypeInv, NEW w \in Writers, Close(w)
    PROVE  TypeInv'
    <1>1. Busy(w) /\ buffer[w] \in Seq(0..records)
        BY DEF Close, Busy, TypeInv, TypeOK
    <1>2. PICK f \in Flushed(w, buffer[w]) : content' = [content EXCEPT ![file[w]] = f]
        BY DEF Close
    <1>3. f \in Seq(0..records)
        BY <1>1, FlushedType
    <1>4. QED BY <1>1, <1>2, <1>3, WriteTypes DEF Close

LEMMA CrashTypes ==
    ASSUME TypeInv, NEW w \in Writers, Crash(w)
    PROVE  TypeInv'
    <1>1. Busy(w) /\ content[file[w]] \in Seq(0..records)
        BY DEF Crash, Busy, TypeInv, TypeOK
    <1>2. PICK part \in Partial(w) :
            \E f \in IF part = << >> THEN {content[file[w]]} ELSE Flushed(w, part) :
                content' = [content EXCEPT ![file[w]] = f]
        BY DEF Crash
    <1>3. PICK f \in IF part = << >> THEN {content[file[w]]} ELSE Flushed(w, part) :
            content' = [content EXCEPT ![file[w]] = f]
        BY <1>2
    <1>4. f \in Seq(0..records)
        BY <1>1, FlushedType, PartialType
    <1>5. QED BY <1>1, <1>3, <1>4, WriteTypes DEF Crash

LEMMA ReplaceTypes ==
    ASSUME TypeInv, NEW w \in Writers, Replace(w)
    PROVE  TypeInv'
    <1>1. /\ path' \in Inodes \cup {NoFile} /\ tmp' = NoFile
          /\ pc' \in [Writers -> {"idle", "opened", "written", "closed"}]
          /\ \A v \in Writers : pc'[v] # "idle" => pc[v] # "idle"
        BY DEF Replace, TypeInv, TypeOK
    <1>2. saved' \subseteq 1..records
        BY DEF Replace, TypeInv, TypeOK, Busy
    <1>3. UNCHANGED <<content, file, mode, buffer, record, records, crashes>>
        BY DEF Replace
    <1>4. QED BY <1>1, <1>2, <1>3 DEF TypeInv, TypeOK, Busy

LEMMA InitTypes == Init => TypeInv
    <1> SUFFICES ASSUME Init PROVE TypeInv
        OBVIOUS
    <1>1. /\ content \in [Inodes -> Seq(0..records)]
          /\ buffer \in [Writers -> Seq(0..records)]
        BY DEF Init
    <1>2. QED BY <1>1, ConstantsType DEF Init, TypeInv, TypeOK, Busy

LEMMA StepTypes == TypeInv /\ [Next]_vars => TypeInv'
    <1> SUFFICES ASSUME TypeInv, [Next]_vars PROVE TypeInv'
        OBVIOUS
    <1>1. ASSUME NEW w \in Writers,
                 Open(w) \/ Copy(w) \/ Close(w) \/ Replace(w) \/ Crash(w)
          PROVE  TypeInv'
        BY <1>1, OpenTypes, CopyTypes, CloseTypes, ReplaceTypes, CrashTypes
    <1>2. CASE UNCHANGED vars
        BY <1>2 DEF TypeInv, TypeOK, Busy, vars, files, writers
    <1>3. QED BY <1>1, <1>2 DEF Next

LEMMA TypesInductive == Spec => []TypeInv
    BY InitTypes, StepTypes, PTL DEF Spec

(* However many processes save to one path, and wherever they are killed,  *)
(* every variable of JSONHistoryStore and of the file system keeps the     *)
(* values its counterpart can have: a writer that is inside save has an    *)
(* open file, and files hold the lines of records given to save.           *)
THEOREM StoreTypes == Spec => []TypeOK
    <1>1. TypeInv => TypeOK
        BY DEF TypeInv
    <1>2. QED BY TypesInductive, <1>1, PTL
-----------------------------------------------------------------------------
(* One writer.                                                             *)
OneWriter == \A v, w \in Writers : v = w

(* The lines that load_all can parse.                                      *)
Whole(s) == {s[i] : i \in {j \in DOMAIN s : s[j] # TORN /\ (j = 1 \/ s[j - 1] # TORN)}}

FirstOK(s) == s[1] = TORN \/ s[1] \in OldestSaved
LastOK(s) == s # << >> /\ s[Len(s)] # TORN

(* The published file ends with a whole line, begins with the oldest saved *)
(* record or a torn line, and has every saved record but the oldest.       *)
PathOK ==
    /\ path = NoFile <=> saved = {}
    /\ path # NoFile =>
        /\ path # tmp
        /\ FirstOK(content[path])
        /\ LastOK(content[path])
        /\ saved \ OldestSaved \subseteq Whole(content[path])

(* Inodes not yet used are empty; what kills left in the temporary file    *)
(* begins as the published file does, or with a torn line.                 *)
TmpOK ==
    /\ \A n \in Inodes : n > records => content[n] = << >> /\ path # n /\ tmp # n
    /\ path # NoFile /\ tmp # NoFile /\ content[tmp] # << >> => FirstOK(content[tmp])

(* The writer's file is the temporary file.  It is empty until the first   *)
(* record is written to it; when it is closed it is fit to be published.   *)
WriterOK(w) ==
    Busy(w) =>
        /\ file[w] = tmp
        /\ tmp # NoFile
        /\ record[w] = records
        /\ \A r \in saved : r < records
        /\ mode[w] = IF path = NoFile THEN "w" ELSE "a"
        /\ path = NoFile /\ pc[w] # "closed" => content[tmp] = << >>
        /\ pc[w] = "written" => buffer[w] = Append(Lines(path), record[w])
        /\ pc[w] = "closed" =>
            /\ LastOK(content[tmp])
            /\ path = NoFile => content[tmp] = <<records>>
            /\ path # NoFile => Whole(content[path]) \ OldestSaved \subseteq Whole(content[tmp])
            /\ records \in Whole(content[tmp])

JInv == TypeInv /\ PathOK /\ TmpOK /\ \A w \in Writers : WriterOK(w)
-----------------------------------------------------------------------------
LEMMA WholeLines ==
    ASSUME NEW s \in Seq(Nat)
    PROVE  /\ Len(s) \in Nat /\ \A i \in 1..Len(s) : s[i] \in Nat
           /\ \A i \in 1..Len(s) :
                s[i] # TORN /\ (i = 1 \/ s[i - 1] # TORN) => s[i] \in Whole(s)
           /\ \A x \in Whole(s) :
                x # TORN /\ \E i \in 1..Len(s) :
                    x = s[i] /\ (i = 1 \/ s[i - 1] # TORN)
    <1>1. DOMAIN s = 1..Len(s) /\ Len(s) \in Nat /\ \A i \in 1..Len(s) : s[i] \in Nat
        BY LenProperties, ElementOfSeq
    <1>2. \A i \in 1..Len(s) :
            s[i] # TORN /\ (i = 1 \/ s[i - 1] # TORN) => s[i] \in Whole(s)
        BY <1>1, Zenon DEF Whole
    <1>3. \A x \in Whole(s) :
            x # TORN /\ \E i \in 1..Len(s) : x = s[i] /\ (i = 1 \/ s[i - 1] # TORN)
        BY <1>1, Zenon DEF Whole
    <1>4. QED BY <1>1, <1>2, <1>3

(* A complete copy t of the history file with the new line r, behind what  *)
(* is already in the temporary file.                                       *)
LEMMA CopyIsWhole ==
    ASSUME NEW s \in Seq(Nat), NEW t \in Seq(Nat), NEW r \in Nat,
           r # TORN, LastOK(t)
    PROVE  LET u == s \o Append(t, r)
           IN /\ LastOK(u)
              /\ u[1] = IF s = << >> THEN t[1] ELSE s[1]
              /\ Whole(t) \ {t[1]} \subseteq Whole(u)
              /\ r \in Whole(u)
    <1> DEFINE a == Append(t, r)
               u == s \o a
    <1>1. /\ a \in Seq(Nat) /\ Len(a) = Len(t) + 1 /\ a[Len(t) + 1] = r
          /\ \A i \in 1..Len(t) : a[i] = t[i]
        BY AppendProperties
    <1>2. Len(t) \in Nat /\ Len(t) > 0 /\ t[Len(t)] # TORN /\ Len(s) \in Nat
        BY EmptySeq DEF LastOK
    <1> HIDE DEF a
    <1>3. /\ u \in Seq(Nat) /\ Len(u) = Len(s) + (Len(t) + 1)
          /\ \A i \in 1..(Len(s) + (Len(t) + 1)) :
                u[i] = IF i <= Len(s) THEN s[i] ELSE a[i - Len(s)]
        <2>1. /\ u \in Seq(Nat) /\ Len(u) = Len(s) + Len(a)
              /\ \A i \in 1..(Len(s) + Len(a)) :
                    u[i] = IF i <= Len(s) THEN s[i] ELSE a[i - Len(s)]
            BY <1>1, ConcatProperties
        <2>2. QED BY <2>1, <1>1
    <1> HIDE DEF u
    <1>4. \A i \in 1..Len(t) : /\ Len(s) + i \in 1..Len(u)
                               /\ u[Len(s) + i] = t[i]
        <2> TAKE i \in 1..Len(t)
        <2>1. /\ Len(s) + i \in 1..(Len(s) + (Len(t) + 1)) /\ ~(Len(s) + i <= Len(s))
              /\ (Len(s) + i) - Len(s) = i
            BY <1>2
        <2>2. u[Len(s) + i] = a[i]
            BY <2>1, <1>3
        <2>3. QED BY <2>1, <2>2, <1>1, <1>2, <1>3
    <1>5. Len(u) \in 1..Len(u) /\ u[Len(u)] = r /\ u[Len(u) - 1] = t[Len(t)]
        <2>1. /\ Len(u) \in 1..(Len(s) + (Len(t) + 1)) /\ ~(Len(u) <= Len(s))
              /\ Len(u) - Len(s) = Len(t) + 1 /\ Len(u) - 1 = Len(s) + Len(t)
              /\ Len(t) \in 1..Len(t)
            BY <1>2, <1>3
        <2>2. u[Len(u)] = a[Len(t) + 1]
            BY <2>1, <1>3
        <2>3. QED BY <2>1, <2>2, <1>1, <1>2, <1>3, <1>4
    <1>6. LastOK(u)
        BY <1>2, <1>3, <1>5 DEF LastOK
    <1>7. r \in Whole(u)
        BY <1>2, <1>3, <1>5, WholeLines
    <1>8. u[1] = IF s = << >> THEN t[1] ELSE s[1]
        <2>1. CASE s = << >>
            BY <2>1, <1>2, <1>4
        <2>2. CASE s # << >>
            <3>1. 1 <= Len(s) /\ 1 \in 1..(Len(s) + (Len(t) + 1))
                BY <2>2, <1>2, EmptySeq
            <3>2. QED BY <2>2, <3>1, <1>3
        <2>3. QED BY <2>1, <2>2
    <1>9. ASSUME NEW x \in Whole(t), x # t[1] PROVE x \in Whole(u)
        <2>1. PICK i \in 1..Len(t) : x = t[i] /\ (i = 1 \/ t[i - 1] # TORN)
            BY WholeLines
        <2>2. x # TORN /\ i # 1 /\ i - 1 \in 1..Len(t)
            BY <2>1, <1>2, <1>9, WholeLines
        <2>3. u[Len(s) + i] = x /\ u[Len(s) + (i - 1)] # TORN /\ Len(s) + i \in 1..Len(u)
            BY <2>1, <2>2, <1>4
        <2>4. Len(s) + (i - 1) = (Len(s) + i) - 1
            BY <1>2
        <2>5. QED BY <2>2, <2>3, <2>4, <1>3, WholeLines
    <1>10. QED BY <1>6, <1>7, <1>8, <1>9 DEF u, a

(* The first line of a file to which a killed writer wrote part of a copy. *)
PartOf(part, t, k) == part = SubSeq(t, 1, k) \/ part = SubSeq(t, 1, k) \o <<TORN>>

LEMMA FirstOfPart ==
    ASSUME NEW s \in Seq(Nat), NEW t \in Seq(Nat), NEW k \in 0..Len(t), NEW part,
           PartOf(part, t, k), part # << >>
    PROVE  /\ (s \o part)[1] = IF s = << >> THEN part[1] ELSE s[1]
           /\ part[1] = t[1] \/ part[1] = TORN
    <1> DEFINE front == SubSeq(t, 1, k)
    <1>1. Len(t) \in Nat /\ k \in Nat /\ k <= Len(t) /\ \A i \in 1..k : i \in 1..Len(t)
        OBVIOUS
    <1>2. /\ front \in Seq(Nat) /\ Len(front) = k
          /\ \A i \in 1..k : front[i] = t[i]
        BY <1>1, SubSeqProperties
    <1>3. <<TORN>> \in Seq(Nat) /\ Len(<<TORN>>) = 1 /\ <<TORN>>[1] = TORN
        BY DEF TORN
    <1> HIDE DEF front
    <1>4. /\ front \o <<TORN>> \in Seq(Nat)
          /\ Len(front \o <<TORN>>) = k + 1
          /\ \A i \in 1..(k + 1) :
                (front \o <<TORN>>)[i] = IF i <= k THEN front[i] ELSE <<TORN>>[i - k]
        <2>1. /\ front \o <<TORN>> \in Seq(Nat)
              /\ Len(front \o <<TORN>>) = Len(front) + Len(<<TORN>>)
              /\ \A i \in 1..(Len(front) + Len(<<TORN>>)) :
                    (front \o <<TORN>>)[i] = IF i <= Len(front) THEN front[i]
                                             ELSE <<TORN>>[i - Len(front)]
            BY <1>2, <1>3, ConcatProperties
        <2>2. QED BY <2>1, <1>2, <1>3
    <1>5. part = front \/ part = front \o <<TORN>>
        BY DEF PartOf, front
    <1>6. k # 0 => front[1] = t[1] /\ 1 \in 1..k /\ 1 <= k
        BY <1>1, <1>2
    <1>7. part[1] = t[1] \/ part[1] = TORN
        <2>1. CASE part = front
            <3>1. k # 0
                BY <2>1, <1>2, EmptySeq
            <3>2. QED BY <2>1, <3>1, <1>6
        <2>2. CASE part = front \o <<TORN>>
            <3>1. CASE k = 0
                <4>1. part[1] = <<TORN>>[1]
                    BY <2>2, <3>1, <1>4
                <4>2. QED BY <4>1, <1>3
            <3>2. CASE k # 0
                BY <2>2, <3>2, <1>1, <1>4, <1>6
            <3>3. QED BY <3>1, <3>2
        <2>3. QED BY <2>1, <2>2, <1>5
    <1>8. part \in Seq(Nat)
        BY <1>2, <1>4, <1>5
    <1>9. (s \o part)[1] = IF s = << >> THEN part[1] ELSE s[1]
        <2>1. /\ Len(s) \in Nat /\ Len(part) \in Nat /\ Len(part) > 0
              /\ s # << >> => Len(s) > 0
            BY <1>8, EmptySeq, LenProperties
        <2>2. CASE s = << >>
            BY <2>2, <1>8, ConcatEmptySeq
        <2>3. CASE s # << >>
            <3>1. 1 \in 1..(Len(s) + Len(part)) /\ 1 <= Len(s)
                BY <2>1, <2>3
            <3>2. QED BY <2>3, <3>1, <1>8, ConcatProperties
        <2>4. QED BY <2>2, <2>3
    <1>10. QED BY <1>7, <1>9
-----------------------------------------------------------------------------
LEMMA TypeFacts ==
    ASSUME TypeInv
    PROVE  /\ records \in Nat /\ saved \subseteq Nat
           /\ \A r \in saved : r <= records
           /\ path \in Inodes \cup {NoFile} /\ tmp \in Inodes \cup {NoFile}
           /\ \A n \in Inodes : content[n] \in Seq(Nat)
           /\ DOMAIN content = Inodes
           /\ pc \in [Writers -> {"idle", "opened", "written", "closed"}]
           /\ file \in [Writers -> Inodes \cup {NoFile}]
           /\ record \in [Writers -> Nat]
           /\ mode \in [Writers -> {"a", "w"}]
           /\ DOMAIN buffer = Writers
           /\ \A w \in Writers : Busy(w) => file[w] \in Inodes /\ record[w] # TORN
    <1>1. records \in Nat /\ saved \subseteq 1..records
        BY ConstantsType DEF TypeInv, TypeOK
    <1>2. ASSUME NEW n \in Inodes PROVE content[n] \in Seq(Nat)
        <2>1. content[n] \in Seq(0..records) /\ 0..records \subseteq Nat
            BY <1>1 DEF TypeInv, TypeOK
        <2>2. QED BY <2>1, SeqMonotonic
    <1>3. QED BY <1>1, <1>2 DEF TypeInv, TypeOK, TORN

(* The steps that leave the published file and the saved records alone.    *)
LEMMA PathStays ==
    ASSUME PathOK, UNCHANGED <<path, saved>>,
           path # NoFile => path # tmp' /\ content'[path] = content[path]
    PROVE  PathOK' /\ OldestSaved' = OldestSaved
    <1>1. OldestSaved' = OldestSaved
        BY DEF OldestSaved
    <1>2. QED BY <1>1 DEF PathOK, FirstOK, LastOK

LEMMA OpenJInv ==
    ASSUME OneWriter, JInv, NEW w \in Writers, Open(w)
    PROVE  JInv'
    <1> USE DEF JInv
    <1> DEFINE m == IF path = NoFile THEN "w" ELSE "a"
               n == IF tmp = NoFile THEN records + 1 ELSE tmp
    <1>1. /\ records' = records + 1 /\ records < MaxRecords
          /\ record' = [record EXCEPT ![w] = records + 1]
          /\ mode' = [mode EXCEPT ![w] = m] /\ file' = [file EXCEPT ![w] = n]
          /\ tmp' = n
          /\ content' = IF m = "w" THEN [content EXCEPT ![n] = << >>] ELSE content
          /\ pc' = [pc EXCEPT ![w] = "opened"]
          /\ UNCHANGED <<path, buffer, saved>>
        BY DEF Open
    <1>2. /\ m = IF path = NoFile THEN "w" ELSE "a"
          /\ tmp = NoFile => n = records + 1 /\ n > records
          /\ tmp # NoFile => n = tmp
          /\ n \in Inodes /\ n # NoFile
        BY <1>1, TypeFacts, ConstantsType DEF Inodes, NoFile
    <1> HIDE DEF m, n
    <1>3. path # NoFile => path # n
        BY <1>2 DEF PathOK, TmpOK
    <1>4. path # NoFile => content' = content
        BY <1>1, <1>2
    <1>5. PathOK' /\ OldestSaved' = OldestSaved
        <2>1. path # NoFile => path # tmp' /\ content'[path] = content[path]
            BY <1>1, <1>3, <1>4
        <2>2. UNCHANGED <<path, saved>>
            BY <1>1
        <2>3. QED BY <2>1, <2>2, PathStays
    <1>6. TmpOK'
        <2>1. ASSUME NEW i \in Inodes, i > records + 1
              PROVE  content'[i] = << >> /\ path' # i /\ tmp' # i
            <3>1. i > records /\ i # records + 1
                BY <2>1, TypeFacts, ConstantsType
            <3>2. content[i] = << >> /\ path # i /\ tmp # i
                BY <3>1 DEF TmpOK
            <3>3. QED BY <1>1, <1>2, <3>1, <3>2, TypeFacts
        <2>2. path # NoFile /\ content'[n] # << >> => FirstOK(content'[n])
            BY <1>2, <1>4 DEF TmpOK
        <2>3. QED BY <1>1, <1>5, <2>1, <2>2 DEF TmpOK, FirstOK
    <1>7. ASSUME NEW v \in Writers PROVE WriterOK(v)'
        <2>1. v = w
            BY DEF OneWriter
        <2>2. \A r \in saved' : r < records'
            BY <1>1, TypeFacts
        <2>3. path' = NoFile => content'[tmp'] = << >>
            BY <1>1, <1>2, TypeFacts
        <2>4. /\ file'[w] = tmp' /\ tmp' # NoFile /\ record'[w] = records'
              /\ mode'[w] = (IF path' = NoFile THEN "w" ELSE "a") /\ pc'[w] = "opened"
            BY <1>1, <1>2, TypeFacts
        <2>5. QED BY <2>1, <2>2, <2>3, <2>4 DEF WriterOK
    <1>8. QED BY <1>5, <1>6, <1>7, OpenTypes

LEMMA CopyJInv ==
    ASSUME OneWriter, JInv, NEW w \in Writers, Copy(w)
    PROVE  JInv'
    <1> USE DEF JInv, files
    <1>1. /\ pc[w] = "opened" /\ pc' = [pc EXCEPT ![w] = "written"]
          /\ buffer' = [buffer EXCEPT ![w] = Append(Lines(path), record[w])]
          /\ UNCHANGED <<path, tmp, content, file, mode, record, records, saved>>
        BY DEF Copy
    <1>2. PathOK' /\ OldestSaved' = OldestSaved
        <2>1. path # NoFile => path # tmp' /\ content'[path] = content[path]
            BY <1>1 DEF PathOK
        <2>2. UNCHANGED <<path, saved>>
            BY <1>1
        <2>3. QED BY <2>1, <2>2, PathStays
    <1>3. TmpOK'
        BY <1>1, <1>2 DEF TmpOK, FirstOK
    <1>4. ASSUME NEW v \in Writers PROVE WriterOK(v)'
        <2>1. v = w /\ Busy(w) /\ pc'[w] = "written"
            BY <1>1, TypeFacts DEF OneWriter, Busy
        <2>2. buffer'[w] = Append(Lines(path)', record'[w])
            BY <1>1, TypeFacts DEF Lines
        <2>3. QED BY <1>1, <2>1, <2>2 DEF WriterOK
    <1>5. QED BY <1>2, <1>3, <1>4, CopyTypes

(* A closed file is fit to be published.                                   *)
LEMMA CloseJInv ==
    ASSUME OneWriter, JInv, NEW w \in Writers, Close(w)
    PROVE  JInv'
    <1> USE DEF JInv
    <1>1. PICK u \in Flushed(w, buffer[w]) : content' = [content EXCEPT ![file[w]] = u]
        BY DEF Close
    <1>2. /\ pc[w] = "written" /\ Busy(w) /\ pc' = [pc EXCEPT ![w] = "closed"]
          /\ UNCHANGED <<path, tmp, file, mode, record, records, saved>>
        BY DEF Close, Busy
    <1>3. /\ file[w] = tmp /\ tmp \in Inodes /\ record[w] = records /\ records # TORN
          /\ mode[w] = IF path = NoFile THEN "w" ELSE "a"
          /\ path = NoFile => content[tmp] = << >>
          /\ buffer[w] = Append(Lines(path), records)
        BY <1>2, TypeFacts DEF WriterOK
    <1>4. content' = [content EXCEPT ![tmp] = u] /\ content'[tmp] = u
        BY <1>1, <1>3, TypeFacts
    <1>5. PathOK' /\ OldestSaved' = OldestSaved
        <2>1. path # NoFile => path # tmp' /\ content'[path] = content[path]
            BY <1>2, <1>4, TypeFacts DEF PathOK
        <2>2. UNCHANGED <<path, saved>>
            BY <1>2
        <2>3. QED BY <2>1, <2>2, PathStays
    <1>6. CASE path = NoFile
        <2>1. u = <<records>>
            <3>1. buffer[w] = <<records>> /\ content[file[w]] = << >> /\ mode[w] = "w"
                BY <1>3, <1>6 DEF Lines
            <3>2. \E rest \in {<< >>} : u = buffer[w] \o rest
                BY <1>1, <3>1 DEF Flushed
            <3>3. <<records>> \in Seq(Nat) /\ u = <<records>> \o << >>
                BY <3>1, <3>2, TypeFacts
            <3>4. QED BY <3>3, ConcatEmptySeq
        <2>2. LastOK(u) /\ records \in Whole(u)
            <3>1. u \in Seq(Nat) /\ Len(u) = 1 /\ u[1] = records /\ 1 \in 1..Len(u)
                BY <2>1, TypeFacts
            <3>2. records \in Whole(u)
                BY <1>3, <3>1, WholeLines
            <3>3. QED BY <1>3, <2>1, <3>1, <3>2 DEF LastOK
        <2>3. TmpOK'
            BY <1>2, <1>4, <1>6, TypeFacts DEF TmpOK
        <2>4. ASSUME NEW v \in Writers PROVE WriterOK(v)'
            <3>1. v = w /\ pc'[w] = "closed"
                BY <1>2, TypeFacts DEF OneWriter
            <3>2. QED BY <1>2, <1>3, <1>4, <1>6, <2>1, <2>2, <3>1, ConstantsType DEF WriterOK
        <2>5. QED BY <1>5, <2>3, <2>4, CloseTypes
    <1>7. CASE path # NoFile
        <2> DEFINE s == content[tmp]
                   t == content[path]
        <2>1. u = s \o Append(t, records)
            <3>1. mode[w] = "a" /\ buffer[w] = Append(t, records)
                BY <1>3, <1>7 DEF Lines
            <3>2. QED BY <1>1, <1>3, <3>1 DEF Flushed
        <2>2. s \in Seq(Nat) /\ t \in Seq(Nat) /\ LastOK(t) /\ FirstOK(t)
            BY <1>3, <1>7, TypeFacts DEF PathOK
        <2>3. s # << >> => FirstOK(s)
            BY <1>3, <1>7, ConstantsType DEF TmpOK
        <2> HIDE DEF s, t
        <2>4. /\ LastOK(u) /\ records \in Whole(u)
              /\ u[1] = IF s = << >> THEN t[1] ELSE s[1]
              /\ Whole(t) \ {t[1]} \subseteq Whole(u)
            <3>1. records \in Nat /\ records # TORN
                BY <1>3, TypeFacts
            <3>2. QED BY ONLY <2>1, <2>2, <3>1, CopyIsWhole
        <2>5. FirstOK(u)
            BY <2>2, <2>3, <2>4 DEF FirstOK
        <2>6. Whole(t) \ OldestSaved \subseteq Whole(u)
            <3>1. TORN \notin Whole(t)
                BY <2>2, WholeLines
            <3>2. QED BY <2>2, <2>4, <3>1 DEF FirstOK
        <2>7. content'[path] = t
            BY <1>4, <1>7, TypeFacts DEF PathOK, t
        <2>8. TmpOK'
            <3>1. \A i \in Inodes : i > records => content'[i] = << >>
                BY <1>3, <1>4, TypeFacts DEF TmpOK
            <3>2. FirstOK(content[tmp])'
                BY <1>2, <1>4, <1>5, <2>5 DEF FirstOK
            <3>3. QED BY <1>2, <3>1, <3>2 DEF TmpOK
        <2>9. ASSUME NEW v \in Writers PROVE WriterOK(v)'
            <3>1. v = w /\ pc'[w] = "closed"
                BY <1>2, TypeFacts DEF OneWriter
            <3>2. \A r \in saved : r < records
                BY <1>2 DEF WriterOK
            <3>3. /\ content'[tmp'] = u /\ content'[path'] = t
                  /\ Whole(content'[path']) \ OldestSaved' \subseteq Whole(content'[tmp'])
                BY <1>2, <1>4, <1>5, <2>6, <2>7
            <3>4. QED BY <1>2, <1>3, <1>7, <2>4, <3>1, <3>2, <3>3, ConstantsType DEF WriterOK
        <2>10. QED BY <1>5, <2>8, <2>9, CloseTypes
    <1>8. QED BY <1>6, <1>7
LEMMA ReplaceJInv ==
    ASSUME OneWriter, JInv, NEW w \in Writers, Replace(w)
    PROVE  /\ JInv'
           /\ path # NoFile => Whole(content[path]) \ OldestSaved \subseteq Whole(content'[path'])
           /\ path' # NoFile /\ content' = content
    <1> USE DEF JInv
    <1>1. /\ pc[w] = "closed" /\ Busy(w) /\ pc' = [pc EXCEPT ![w] = "idle"]
          /\ tmp # NoFile /\ record[w] = records
          /\ UNCHANGED <<content, file, mode, buffer, record, records>>
        BY DEF Replace, Busy, WriterOK
    <1>2. path' = tmp /\ tmp' = NoFile /\ saved' = saved \cup {records} /\ tmp \in Inodes
        BY <1>1, TypeFacts DEF Replace
    <1>3. /\ LastOK(content[tmp]) /\ records \in Whole(content[tmp])
          /\ path = NoFile => content[tmp] = <<records>>
          /\ path # NoFile => Whole(content[path]) \ OldestSaved \subseteq Whole(content[tmp])
          /\ \A r \in saved : r < records
        BY <1>1 DEF WriterOK
    <1>4. OldestSaved \subseteq OldestSaved' /\ (saved = {} => records \in OldestSaved')
        <2>1. \A r \in saved : r \in Nat /\ r <= records
            BY TypeFacts
        <2>2. records <= records
            BY TypeFacts
        <2>3. QED BY <1>2, <2>1, <2>2 DEF OldestSaved
    <1>5. content[tmp][1] = TORN \/ content[tmp][1] \in OldestSaved'
        <2>1. CASE path = NoFile
            <3>1. content[tmp][1] = records /\ saved = {}
                BY <1>3, <2>1 DEF PathOK
            <3>2. QED BY <1>4, <3>1
        <2>2. CASE path # NoFile
            BY <1>1, <1>3, <1>4, <2>2 DEF TmpOK, FirstOK, LastOK
        <2>3. QED BY <2>1, <2>2
    <1>6. PathOK'
        <2>1. content'[path'] = content[tmp]
            BY <1>1, <1>2
        <2>2. FirstOK(content[path])' /\ LastOK(content[path])'
            BY <1>3, <1>5, <2>1 DEF FirstOK, LastOK
        <2>3. ASSUME NEW x \in saved', x \notin OldestSaved' PROVE x \in Whole(content[tmp])
            <3>1. CASE x = records
                BY <1>3, <3>1
            <3>2. CASE x # records
                <4>1. x \in saved /\ x \notin OldestSaved
                    BY <1>2, <1>4, <2>3, <3>2
                <4>2. path # NoFile /\ x \in Whole(content[path])
                    BY <4>1 DEF PathOK
                <4>3. QED BY <1>3, <4>1, <4>2
            <3>3. QED BY <3>1, <3>2
        <2>4. saved' # {} /\ path' # NoFile /\ path' # tmp'
            BY <1>1, <1>2
        <2>5. QED BY <2>1, <2>2, <2>3, <2>4 DEF PathOK
    <1>7. TmpOK'
        BY <1>1, <1>2, ConstantsType DEF TmpOK
    <1>8. ASSUME NEW v \in Writers PROVE WriterOK(v)'
        BY <1>1, TypeFacts DEF OneWriter, WriterOK, Busy
    <1>9. QED BY <1>1, <1>2, <1>3, <1>6, <1>7, <1>8, ReplaceTypes, ConstantsType

LEMMA CrashJInv ==
    ASSUME OneWriter, JInv, NEW w \in Writers, Crash(w)
    PROVE  /\ JInv'
           /\ path # NoFile => content'[path] = content[path]
           /\ UNCHANGED <<path, saved>>
    <1> USE DEF JInv
    <1>1. /\ Busy(w) /\ pc' = [pc EXCEPT ![w] = "idle"]
          /\ UNCHANGED <<path, tmp, file, mode, buffer, record, records, saved>>
        BY DEF Crash, Busy
    <1>2. PICK part \in Partial(w) :
            \E f \in IF part = << >> THEN {content[file[w]]} ELSE Flushed(w, part) :
                content' = [content EXCEPT ![file[w]] = f]
        BY DEF Crash
    <1>3. PICK f \in IF part = << >> THEN {content[file[w]]} ELSE Flushed(w, part) :
            content' = [content EXCEPT ![file[w]] = f]
        BY <1>2
    <1>4. file[w] = tmp /\ tmp \in Inodes
        BY <1>1, TypeFacts DEF WriterOK
    <1>5. content'[tmp] = f /\ \A i \in Inodes : i # tmp => content'[i] = content[i]
        BY <1>3, <1>4, TypeFacts
    <1>6. path # NoFile => path # tmp /\ content'[path] = content[path]
        BY <1>5, TypeFacts DEF PathOK
    <1>7. PathOK' /\ OldestSaved' = OldestSaved
        BY <1>1, <1>6, PathStays
    <1>8. ASSUME path # NoFile, f # << >> PROVE FirstOK(f)
        <2> DEFINE s == content[tmp]
                   t == content[path]
        <2>1. s \in Seq(Nat) /\ t \in Seq(Nat) /\ LastOK(t) /\ FirstOK(t)
            BY <1>4, <1>8, TypeFacts DEF PathOK
        <2>2. s # << >> => FirstOK(s)
            BY <1>4, <1>8, ConstantsType DEF TmpOK
        <2>3. CASE part = << >>
            BY <1>3, <1>4, <1>8, <2>2, <2>3
        <2>4. CASE part # << >>
            <3>1. pc[w] = "written" /\ mode[w] = "a" /\ buffer[w] = Append(t, record[w])
                BY <1>1, <1>8, <2>4, PartOfCopy DEF WriterOK, Lines
            <3>2. f = s \o part
                BY <1>3, <1>4, <2>4, <3>1 DEF Flushed
            <3>3. buffer[w] \in Seq(Nat) /\ buffer[w][1] = t[1]
                <4>1. record[w] \in Nat /\ 1 \in 1..Len(t)
                    BY <2>1, TypeFacts, EmptySeq, LenProperties DEF LastOK
                <4>2. QED BY <2>1, <3>1, <4>1, AppendProperties
            <3>4. PICK k \in 0..(Len(buffer[w]) - 1) :
                    part \in {SubSeq(buffer[w], 1, k), SubSeq(buffer[w], 1, k) \o <<TORN>>}
                BY <2>4, PartOfCopy
            <3>5. k \in 0..Len(buffer[w])
                BY <3>3, LenProperties
            <3> HIDE DEF s, t
            <3>6. /\ f[1] = IF s = << >> THEN part[1] ELSE s[1]
                  /\ part[1] = t[1] \/ part[1] = TORN
                <4> DEFINE b == buffer[w]
                <4>1. /\ b \in Seq(Nat) /\ k \in 0..Len(b) /\ part # << >>
                      /\ PartOf(part, b, k)
                    BY <2>4, <3>3, <3>4, <3>5 DEF PartOf
                <4> HIDE DEF b
                <4>2. /\ (s \o part)[1] = IF s = << >> THEN part[1] ELSE s[1]
                      /\ part[1] = b[1] \/ part[1] = TORN
                    BY ONLY <2>1, <4>1, FirstOfPart
                <4>3. b[1] = t[1]
                    BY <3>3 DEF b
                <4>4. QED BY <3>2, <4>2, <4>3
            <3>7. QED BY <2>1, <2>2, <3>6 DEF FirstOK
        <2>5. QED BY <2>3, <2>4
    <1>9. TmpOK'
        <2>1. \A i \in Inodes : i > records => content'[i] = << >>
            BY <1>5 DEF TmpOK
        <2>2. path # NoFile /\ content'[tmp] # << >> => FirstOK(content[tmp])'
            BY <1>1, <1>5, <1>7, <1>8 DEF FirstOK
        <2>3. QED BY <1>1, <2>1, <2>2 DEF TmpOK
    <1>10. ASSUME NEW v \in Writers PROVE WriterOK(v)'
        BY <1>1, TypeFacts DEF OneWriter, WriterOK, Busy
    <1>11. QED BY <1>1, <1>6, <1>7, <1>9, <1>10, CrashTypes

LEMMA InitJInv == Init => JInv
    <1> SUFFICES ASSUME Init PROVE JInv
        OBVIOUS
    <1>1. TypeInv
        BY InitTypes
    <1>2. QED BY <1>1, ConstantsType
              DEF Init, JInv, PathOK, TmpOK, WriterOK, Busy, OldestSaved

(* What a step does to the published file.                                 *)
Publishes ==
    \/ UNCHANGED path /\ UNCHANGED saved /\ (path # NoFile => content'[path] = content[path])
    \/ /\ path' # NoFile
       /\ content' = content
       /\ path # NoFile => Whole(content[path]) \ OldestSaved \subseteq Whole(content'[path'])

LEMMA StepJInv == OneWriter /\ JInv /\ [Next]_vars => JInv' /\ Publishes
    <1> SUFFICES ASSUME OneWriter, JInv, [Next]_vars PROVE JInv' /\ Publishes
        OBVIOUS
    <1>1. ASSUME NEW w \in Writers, Open(w) PROVE JInv' /\ Publishes
        <2>1. UNCHANGED <<path, saved>> /\ (path # NoFile => content' = content)
            BY <1>1 DEF Open
        <2>2. QED BY <1>1, <2>1, OpenJInv DEF Publishes
    <1>2. ASSUME NEW w \in Writers, Copy(w) PROVE JInv' /\ Publishes
        BY <1>2, CopyJInv DEF Copy, files, Publishes
    <1>3. ASSUME NEW w \in Writers, Close(w) PROVE JInv' /\ Publishes
        <2>1. file[w] = tmp /\ (path # NoFile => path # tmp)
            BY <1>3 DEF JInv, PathOK, WriterOK, Busy, Close
        <2>2. path # NoFile => path \in DOMAIN content
            BY TypeFacts DEF JInv
        <2>3. path # NoFile => content'[path] = content[path]
            BY <1>3, <2>1, <2>2 DEF Close
        <2>4. UNCHANGED path /\ UNCHANGED saved
            BY <1>3 DEF Close
        <2>5. QED BY <1>3, <2>3, <2>4, CloseJInv DEF Publishes
    <1>4. ASSUME NEW w \in Writers, Replace(w) PROVE JInv' /\ Publishes
        BY <1>4, ReplaceJInv DEF Publishes
    <1>5. ASSUME NEW w \in Writers, Crash(w) PROVE JInv' /\ Publishes
        BY <1>5, CrashJInv DEF Publishes
    <1>6. ASSUME UNCHANGED vars PROVE JInv' /\ Publishes
        <2> USE <1>6 DEF vars, files, writers
        <2>1. TypeInv'
            BY StepTypes DEF JInv
        <2>2. PathOK' /\ TmpOK'
            BY DEF JInv, PathOK, TmpOK, FirstOK, LastOK, OldestSaved
        <2>3. ASSUME NEW w \in Writers PROVE WriterOK(w)'
            BY DEF JInv, WriterOK, Busy, LastOK, OldestSaved, Lines
        <2>4. Publishes
            BY DEF Publishes
        <2>5. QED BY <2>1, <2>2, <2>3, <2>4 DEF JInv
    <1>7. QED BY <1>1, <1>2, <1>3, <1>4, <1>5, <1>6 DEF Next

LEMMA StoreInductive ==
    ASSUME OneWriter
    PROVE  Spec => [](JInv) /\ [][JInv /\ Publishes]_vars
    <1>1. JInv /\ [Next]_vars => JInv' /\ Publishes
        BY StepJInv
    <1>2. QED BY InitJInv, <1>1, PTL DEF Spec

LEMMA LoadedIsWhole ==
    /\ path # NoFile => Loaded(path) = Whole(content[path])
    /\ path = NoFile => Loaded(path) = {}
    /\ path' # NoFile => Loaded(path)' = Whole(content'[path'])
    /\ path' = NoFile => Loaded(path)' = {}
    <1>1. Whole(<< >>) = {}
        BY DEF Whole
    <1>2. Loaded(path) = Whole(Lines(path)) /\ Loaded(path)' = Whole(Lines(path)')
        BY DEF Loaded, Whole
    <1>3. /\ Lines(path) = IF path = NoFile THEN << >> ELSE content[path]
          /\ Lines(path)' = IF path' = NoFile THEN << >> ELSE content'[path']
        BY DEF Lines
    <1>4. QED BY <1>1, <1>2, <1>3

(* With one writer, killed at any point of save and any number of times,   *)
(* load_all returns every record whose save returned but for the oldest.   *)
THEOREM OthersSurvive ==
    ASSUME OneWriter
    PROVE  Spec => []OnlyOldestIsLost
    <1>1. JInv => OnlyOldestIsLost
        BY LoadedIsWhole DEF JInv, PathOK, OnlyOldestIsLost
    <1>2. QED BY StoreInductive, <1>1, PTL

(* With one writer the file under the history's name is never written to:  *)
(* load_all reads one state of it, whichever save is under way.            *)
THEOREM PublishedFilesAreFinal ==
    ASSUME OneWriter
    PROVE  Spec => PublishedIsFinal
    <1>1. Publishes => (path # NoFile => content'[path] = content[path])
        BY DEF Publishes
    <1>2. QED BY StoreInductive, <1>1, PTL DEF PublishedIsFinal

(* With one writer a replaced file holds every line that the file before   *)
(* it held, but for the oldest saved record: also those of killed saves    *)
(* that a later save published.                                            *)
THEOREM ReplacePreserves ==
    ASSUME OneWriter
    PROVE  Spec => PreservesRecords
    <1>1. Publishes => Loaded(path) \ OldestSaved \subseteq Loaded(path)'
        BY LoadedIsWhole DEF Publishes
    <1>2. QED BY StoreInductive, <1>1, PTL DEF PreservesRecords
=============================================================================
