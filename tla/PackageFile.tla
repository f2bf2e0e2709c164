----------------------------- MODULE PackageFile -----------------------------
(* The package file (src/tefpackage/tefpkg.c): header, a table of reserved    *)
(* entries, data.  A package is filled in memory or in the file itself and    *)
(* saved; anybody may open the file at any moment, also one a crash or an     *)
(* error left behind.  The data of an entry are as many blocks as its         *)
(* compressed size.  A SipHash is what it is computed over, so that different *)
(* things never have the same one.  Time stamps are left out: the number of   *)
(* entries changes with them.  A write is one fwrite.  stdio may only buffer   *)
(* it: then a crash takes it, which is a crash that came earlier, or the       *)
(* flush fails that the next fseek, fflush or fclose makes, and nobody looks   *)
(* at what those return.                                                       *)
EXTENDS Naturals, SequencesExt

CONSTANTS
  Contents,     \* what may be added
  SizeOf,       \* its compressed size
  Reserved,     \* reserved_entries
  Fingerprints  \* those packages are signed with; NoFingerprint signs nothing

NoFingerprint == 0
ASSUME PackageAssumption == /\ SizeOf \in [Contents -> Nat \ {0}] /\ Reserved \in Nat \ {0}
                            /\ NoFingerprint \notin Fingerprints /\ "none" \notin Contents

VARIABLES
  access,    \* access_mode of the package being made, or "closed"
  header,    \* pkg->header
  entries,   \* pkg->entries, as far as they are used
  data,      \* pkg->data of a package in memory
  onDisk,    \* the file
  writes,    \* the fwrite calls the running operation still makes
  adding,    \* the entry that is stored when they are made, or NoEntry
  flush      \* "ok", "fails" (what is buffered will be lost), "failed" (it is lost) for this file

packageVars == <<access, header, entries, data, onDisk, writes, adding, flush>>

NoEntry   == [content |-> "none", offset |-> 0]     \* a zero entry of the table
Hole      == <<"none", 0>>                            \* a block nobody wrote: zeros
NoSeal    == [count |-> 0, dataSize |-> 0, entries |-> <<>>]
NoHeader  == [count |-> 0, dataSize |-> 0, seal |-> NoSeal, signature |-> [by |-> NoFingerprint, over |-> NoSeal]]
EmptyFile == [header |-> <<>>, table |-> <<>>, data |-> <<>>]

Blocks(c)  == [k \in 1..SizeOf[c] |-> <<c, k>>]
TotalSize(es) == LET total[n \in 0..Len(es)] == IF n = 0 THEN 0 ELSE total[n-1] + SizeOf[es[n].content]
                 IN total[Len(es)]
Table(es)  == [i \in 1..Reserved |-> IF i \in DOMAIN es THEN es[i] ELSE NoEntry]

PackageInit == /\ access = "closed" /\ header = NoHeader /\ entries = <<>> /\ data = <<>>
               /\ onDisk = EmptyFile /\ writes = <<>> /\ adding = NoEntry /\ flush = "ok"

-----------------------------------------------------------------------------
(* What is written where. *)
HeaderWrite(h)    == <<[part |-> "header", at |-> 1, what |-> h]>>
TableWrites(es)   == [i \in 1..Reserved |-> [part |-> "table", at |-> i, what |-> Table(es)[i]]]
DataWrites(ds, o) == [k \in DOMAIN ds |-> [part |-> "data", at |-> o + k, what |-> ds[k]]]
PutAt(s, i, x)    == [k \in 1..(IF i <= Len(s) THEN Len(s) ELSE i) |->
                       IF k = i THEN x ELSE IF k <= Len(s) THEN s[k] ELSE Hole]
Written(f, w) == [f EXCEPT ![w.part] = PutAt(@, w.at, w.what)]

Free == access # "closed" /\ writes = <<>>

\* create_reserved_from_file: the file is emptied, then header and empty entries are written.
CreateInFile == /\ access = "closed"
                /\ access' = "readwrite" /\ header' = NoHeader /\ entries' = <<>> /\ data' = <<>>
                /\ onDisk' = EmptyFile /\ writes' = HeaderWrite(NoHeader) \o TableWrites(<<>>)
                /\ flush' = "ok"
                /\ UNCHANGED adding
CreateInMemory == /\ access = "closed"
                  /\ access' = "memory" /\ header' = NoHeader /\ entries' = <<>> /\ data' = <<>>
                  /\ UNCHANGED <<onDisk, writes, adding, flush>>

Stored(e) == entries' = Append(entries, e)

\* add_entry_from_memory, add_file_to_memory_pkg
AddInMemory(c) == /\ Free /\ access = "memory" /\ header.count < Reserved
                  /\ Stored([content |-> c, offset |-> header.dataSize])
                  /\ data' = data \o Blocks(c)
                  /\ header' = [header EXCEPT !.count = @ + 1, !.dataSize = @ + SizeOf[c]]
                  /\ UNCHANGED <<access, onDisk, writes, adding, flush>>

\* add_file_to_file_pkg: the data go behind those of the entries there are.
NextOffset_SkipsLast == TotalSize(IF entries = <<>> THEN <<>> ELSE Front(entries))     \* mutant: the loop is one short
NextOffset == TotalSize(entries)
CanAdd == Free /\ access = "readwrite" /\ header.count < Reserved
AddInFile(c) == /\ CanAdd /\ flush # "fails"
                /\ adding' = [content |-> c, offset |-> NextOffset]
                /\ writes' = DataWrites(Blocks(c), NextOffset)
                /\ UNCHANGED <<access, header, entries, data, onDisk, flush>>
\* Its fseek is looked at: it returns the error of what an operation before it had buffered.
AddMeetsError == /\ CanAdd /\ flush = "fails" /\ flush' = "failed"
                 /\ UNCHANGED <<access, header, entries, data, onDisk, writes, adding>>

\* sign_package: checksum and content_hash; the signature of an earlier save stays without a fingerprint.
Signed(h, fp) ==
  LET seal == [count |-> h.count, dataSize |-> h.dataSize, entries |-> Table(entries)]
  IN [h EXCEPT !.seal = seal, !.signature = IF fp = NoFingerprint THEN @ ELSE [by |-> fp, over |-> seal]]

\* save_file, save_memory_file
SavedHeader(fp) == Signed([header EXCEPT !.dataSize = TotalSize(entries)], fp)
SaveInFile(fp) == /\ Free /\ access = "readwrite"
                  /\ header' = SavedHeader(fp)
                  /\ writes' = HeaderWrite(SavedHeader(fp)) \o TableWrites(entries)
                  /\ flush' = IF flush = "ok" THEN "ok" ELSE "failed"     \* its fseek is not looked at
                  /\ UNCHANGED <<access, entries, data, onDisk, adding>>
SaveFromMemory(fp) == /\ Free /\ access = "memory"
                      /\ header' = SavedHeader(fp)
                      /\ onDisk' = EmptyFile
                      /\ writes' = HeaderWrite(SavedHeader(fp)) \o TableWrites(entries) \o DataWrites(data, 0)
                      /\ flush' = "ok"
                      /\ UNCHANGED <<access, entries, data, adding>>

\* save_file of a package in memory, or fopen fails in save_memory_file: the header is signed, no file written.
SealInMemory(fp) == /\ Free /\ access = "memory"
                    /\ header' = SavedHeader(fp)
                    /\ UNCHANGED <<access, entries, data, onDisk, writes, adding, flush>>

\* What the caller does when the n-th of the writes it still makes has returned.
Goes(n) == /\ writes' = SubSeq(writes, n + 1, Len(writes))
           /\ IF Len(writes) = n /\ adding # NoEntry
              THEN Stored(adding) /\ header' = [header EXCEPT !.count = @ + 1] /\ adding' = NoEntry
              ELSE UNCHANGED <<entries, header, adding>>
           /\ UNCHANGED <<access, data>>

\* One fwrite that reaches the file; the last one of an add stores the entry.
Fwrite == /\ writes # <<>> /\ Goes(1)
          /\ onDisk' = Written(onDisk, Head(writes)) /\ UNCHANGED flush

(* The rest of a row of writes is buffered and the flush fails, with nobody   *)
(* looking: in a save at the fseek behind the header or at fflush or fclose, in *)
(* an add or a new file at whatever comes next.  The operation succeeds.       *)
Resealing  == access = "readwrite" /\ header.seal # NoSeal /\ adding = NoEntry
Unlooked   == {Len(writes)} \union {n \in {1} : Resealing /\ Head(writes).part = "header"}
FlushFails == /\ writes # <<>> /\ \E n \in Unlooked : Goes(n)
              /\ flush' = IF Resealing \/ access = "memory" THEN "failed" ELSE "fails"
              /\ UNCHANGED onDisk

\* The disk is full, and fwrite says so: the operation returns, a new package is not made, an entry not stored.
Creating == access = "readwrite" /\ header.seal = NoSeal /\ adding = NoEntry
FwriteFails == /\ writes # <<>>
               /\ writes' = <<>> /\ adding' = NoEntry
               /\ access' = IF Creating THEN "closed" ELSE access
               /\ UNCHANGED <<header, entries, data, onDisk, flush>>

\* tefpkg_close, and a crash in the middle of anything.
Close == Free /\ access' = "closed" /\ UNCHANGED <<header, entries, data, onDisk, writes, adding, flush>>
PackageCrash == /\ access # "closed" /\ access' = "closed" /\ writes' = <<>> /\ adding' = NoEntry
                /\ UNCHANGED <<header, entries, data, onDisk, flush>>

PackageNext == \/ CreateInFile \/ CreateInMemory \/ AddMeetsError \/ Fwrite \/ FlushFails \/ FwriteFails \/ Close \/ PackageCrash
               \/ \E c \in Contents : AddInMemory(c) \/ AddInFile(c)
               \/ \E fp \in Fingerprints \union {NoFingerprint} : SaveInFile(fp) \/ SaveFromMemory(fp) \/ SealInMemory(fp)

PackageSpec == PackageInit /\ [][PackageNext]_packageVars

-----------------------------------------------------------------------------
(* What a reader finds. *)
\* open_readonly
Opens(f) == f.header # <<>> /\ Len(f.table) = Reserved
\* verify_pkg: header and entries, not the data.
VerifyPkg(f) == f.header[1].seal = [count |-> f.header[1].count, dataSize |-> f.header[1].dataSize, entries |-> f.table]
\* read_compressed_data: nothing when the file is too short.
ReadData(d, e) == IF e.offset + SizeOf[e.content] > Len(d) THEN <<>>
                  ELSE SubSeq(d, e.offset + 1, e.offset + SizeOf[e.content])

\* Type invariant.
PackageTypeOK == /\ access \in {"closed", "memory", "readwrite"}
                 /\ Len(entries) = header.count /\ header.count <= Reserved
                 /\ Len(onDisk.table) <= Reserved
                 /\ adding # NoEntry => access = "readwrite" /\ writes # <<>>
                 /\ flush \in {"ok", "fails", "failed"}

\* Of a file that opens and passes verify_pkg, each entry reads as what was added under its index,
\* or as an error.
VerifiedReads ==
  Opens(onDisk) /\ VerifyPkg(onDisk) =>
    \A i \in 1..onDisk.header[1].count : LET e == onDisk.table[i] IN ReadData(onDisk.data, e) \in {<<>>, Blocks(e.content)}

\* That is so whatever was interrupted, failed with an error or saved again, but for a flush that
\* failed unnoticed since the file was emptied; and a package that is being made reads back every
\* entry it holds, in memory always, in the file but for such a flush.
ReadsWhatWasAdded ==
  /\ flush = "ok" => VerifiedReads
  /\ access = "memory" \/ (access = "readwrite" /\ flush = "ok") =>
       \A e \in ToSet(entries) : ReadData(IF access = "memory" THEN data ELSE onDisk.data, e) = Blocks(e.content)
=============================================================================
