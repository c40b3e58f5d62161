---------------------------- MODULE UploadsProofs ----------------------------
(***************************************************************************)
(* Uploads for any number of clients and files. A file has one owner at a  *)
(* time: the upload that writes it, and then the row that names it.        *)
(***************************************************************************)
EXTENDS Uploads, TLAPS

Uploaded ==
    [id : Nat, name : FileNames \X Suffixes, size : Sizes, saved : BOOLEAN]

Types ==
    /\ upload \in [UploadSlots -> Uploaded \cup {NoFile}]
    /\ begun \in Nat

\* An upload has its file, and the bytes are there once it is saved.
HasItsFile(r) ==
    ~NoUpload(r) =>
        /\ upload[r] \in Uploaded
        /\ upload[r].name \in DOMAIN disk
        /\ upload[r].saved =>
            disk[upload[r].name] =
                [of |-> upload[r].id, size |-> upload[r].size]

\* Nobody else writes that file, and no row names it yet.
FilesHaveOneOwner ==
    /\ \A r, s \in UploadSlots :
        r # s /\ ~NoUpload(r) /\ ~NoUpload(s) => upload[r].name # upload[s].name
    /\ \A r \in UploadSlots, e \in entries : ~NoUpload(r) => e.file # upload[r].name

IInv ==
    /\ Types
    /\ \A r \in UploadSlots : HasItsFile(r)
    /\ FilesHaveOneOwner
    /\ EvidenceIsThere

LEMMA InitEstablishes == UploadsInit => IInv
  BY DEF UploadsInit, IInv, Types, HasItsFile, FilesHaveOneOwner, EvidenceIsThere, NoUpload

LEMMA CreatePreserves ==
    ASSUME IInv, NEW r \in UploadSlots, NEW filename \in FileNames, NEW size \in Sizes,
           Create(r, filename, size)
    PROVE  IInv'
<1>1. PICK name \in FileNames \X Suffixes :
        /\ name \notin DOMAIN disk
        /\ disk' = [m \in DOMAIN disk \cup {name} |->
                        IF m = name THEN [of |-> begun', size |-> "empty"]
                        ELSE disk[m]]
        /\ upload' = [upload EXCEPT ![r] =
                [id |-> begun', name |-> name, size |-> size, saved |-> FALSE]]
  BY DEF Create, UnusedNames
<1>2. begun' \in Nat /\ UNCHANGED entries
  BY DEF Create, IInv, Types
<1>3. PICK new \in Uploaded :
        new = [id |-> begun', name |-> name, size |-> size, saved |-> FALSE]
  BY <1>2 DEF Uploaded
<1>4. /\ upload' \in [UploadSlots -> Uploaded \cup {NoFile}]
      /\ upload'[r] = new
      /\ \A s \in UploadSlots \ {r} : upload'[s] = upload[s]
  BY <1>1, <1>3 DEF IInv, Types
<1>5. /\ DOMAIN disk' = DOMAIN disk \cup {name}
      /\ \A m \in DOMAIN disk : disk'[m] = disk[m]
  BY <1>1
<1>6. new.name = name /\ ~new.saved
  BY <1>3
<1>7. \A s \in UploadSlots : HasItsFile(s)'
  BY <1>4, <1>5, <1>6 DEF HasItsFile, NoUpload, IInv
<1>8. FilesHaveOneOwner'
  <2>1. \A s \in UploadSlots : ~NoUpload(s) => upload[s].name \in DOMAIN disk
    BY DEF IInv, HasItsFile
  <2>2. \A e \in entries : e.file \in DOMAIN disk
    BY DEF IInv, EvidenceIsThere
  <2> QED BY <1>1, <1>2, <1>4, <1>6, <2>1, <2>2
          DEF FilesHaveOneOwner, NoUpload, IInv
<1>9. EvidenceIsThere'
  BY <1>2, <1>5 DEF EvidenceIsThere, IInv
<1> QED BY <1>2, <1>4, <1>7, <1>8, <1>9 DEF IInv, Types

LEMMA CopyPreserves ==
    ASSUME IInv, NEW r \in UploadSlots, Copy(r)
    PROVE  IInv'
<1>1. /\ upload[r] \in Uploaded /\ ~NoUpload(r)
      /\ upload[r].name \in DOMAIN disk
      /\ UNCHANGED <<entries, begun>>
  BY DEF Copy, IInv, HasItsFile
<1>2. PICK new \in Uploaded :
        /\ new = [upload[r] EXCEPT !.saved = TRUE]
        /\ new.id = upload[r].id /\ new.name = upload[r].name
        /\ new.size = upload[r].size
  <2> DEFINE copied == [upload[r] EXCEPT !.saved = TRUE]
  <2>1. /\ copied \in Uploaded
        /\ copied.id = upload[r].id /\ copied.name = upload[r].name
        /\ copied.size = upload[r].size
    BY <1>1 DEF Uploaded
  <2> HIDE DEF copied
  <2>2. copied = [upload[r] EXCEPT !.saved = TRUE]
    BY DEF copied
  <2> QED BY <2>1, <2>2
<1>3. /\ upload' \in [UploadSlots -> Uploaded \cup {NoFile}]
      /\ upload'[r] = new
      /\ \A s \in UploadSlots \ {r} : upload'[s] = upload[s]
  BY <1>1, <1>2 DEF Copy, IInv, Types
<1>4. /\ DOMAIN disk' = DOMAIN disk
      /\ disk'[new.name] = [of |-> new.id, size |-> new.size]
      /\ \A m \in DOMAIN disk : m # new.name => disk'[m] = disk[m]
  BY <1>1, <1>2 DEF Copy
<1>5. \A s \in UploadSlots : HasItsFile(s)'
  <2>1. HasItsFile(r)'
    BY <1>1, <1>2, <1>3, <1>4 DEF HasItsFile
  <2>2. ASSUME NEW s \in UploadSlots, s # r PROVE HasItsFile(s)'
    <3>1. NoUpload(s)' <=> NoUpload(s)
      BY <1>3, <2>2 DEF NoUpload
    <3>2. ~NoUpload(s) => upload[s].name # new.name
      BY <1>1, <1>2, <2>2 DEF FilesHaveOneOwner, IInv
    <3> QED BY <1>3, <1>4, <2>2, <3>1, <3>2 DEF HasItsFile, IInv
  <2> QED BY <2>1, <2>2
<1>6. FilesHaveOneOwner'
  <2>1. \A s \in UploadSlots : ~NoUpload(s)' =>
            ~NoUpload(s) /\ upload'[s].name = upload[s].name
    BY <1>1, <1>2, <1>3 DEF NoUpload
  <2> QED BY <1>1, <2>1 DEF FilesHaveOneOwner, IInv
<1>7. EvidenceIsThere'
  <2>1. \A e \in entries : e.file # new.name
    BY <1>1, <1>2 DEF FilesHaveOneOwner, IInv
  <2> QED BY <1>1, <1>4, <2>1 DEF EvidenceIsThere, IInv
<1> QED BY <1>1, <1>3, <1>5, <1>6, <1>7 DEF IInv, Types

LEMMA RecordPreserves ==
    ASSUME IInv, NEW r \in UploadSlots, Record(r)
    PROVE  IInv'
<1>1. /\ upload[r] \in Uploaded /\ ~NoUpload(r)
      /\ upload[r].name \in DOMAIN disk
      /\ disk[upload[r].name] = [of |-> upload[r].id, size |-> "full"]
  BY DEF Record, IInv, HasItsFile, Uploaded, Sizes
<1>2. /\ entries' = entries \cup {[id |-> upload[r].id, file |-> upload[r].name]}
      /\ UNCHANGED <<disk, begun>>
  BY DEF Record
<1>3. /\ upload' \in [UploadSlots -> Uploaded \cup {NoFile}]
      /\ NoUpload(r)'
      /\ \A s \in UploadSlots \ {r} : upload'[s] = upload[s]
  BY DEF Record, EndUpload, NoUpload, IInv, Types
<1>4. \A s \in UploadSlots : HasItsFile(s)'
  BY <1>2, <1>3 DEF HasItsFile, NoUpload, IInv
<1>5. FilesHaveOneOwner'
  BY <1>1, <1>2, <1>3 DEF FilesHaveOneOwner, NoUpload, IInv
<1>6. EvidenceIsThere'
  <2>1. PICK entry : entry = [id |-> upload[r].id, file |-> upload[r].name]
    OBVIOUS
  <2>2. \A e \in entries' : e \in entries \/ e = entry
    BY <1>2, <2>1
  <2>3. entry.id = upload[r].id /\ entry.file = upload[r].name
    BY <2>1
  <2> QED BY <1>1, <1>2, <2>2, <2>3 DEF EvidenceIsThere, IInv
<1> QED BY <1>2, <1>3, <1>4, <1>5, <1>6 DEF IInv, Types

\* Uploads that end without a row.
LEMMA EndingPreserves ==
    ASSUME IInv, UNCHANGED <<disk, entries, begun>>,
           upload' \in [UploadSlots -> Uploaded \cup {NoFile}],
           \A s \in UploadSlots : upload'[s] = upload[s] \/ upload'[s] = NoFile
    PROVE  IInv'
  BY DEF IInv, Types, HasItsFile, FilesHaveOneOwner, EvidenceIsThere, NoUpload

LEMMA StepPreserves == IInv /\ [UploadsNext]_uploadVars => IInv'
<1> SUFFICES ASSUME IInv, [UploadsNext]_uploadVars PROVE IInv'
  OBVIOUS
<1>1. ASSUME NEW r \in UploadSlots, RefuseEmpty(r) \/ FailUpload(r) PROVE IInv'
  BY <1>1, EndingPreserves DEF RefuseEmpty, FailUpload, EndUpload, IInv, Types
<1>2. CASE Restart
  BY <1>2, EndingPreserves DEF Restart
<1>3. CASE UNCHANGED uploadVars
  BY <1>3, EndingPreserves DEF uploadVars, IInv, Types
<1> QED
  BY <1>1, <1>2, <1>3, CreatePreserves, CopyPreserves, RecordPreserves DEF UploadsNext

LEMMA Invariance == UploadsSpec => []IInv
  BY InitEstablishes, StepPreserves, PTL DEF UploadsSpec

\* Every attachment a gate counts names a file that holds what was uploaded,
\* however uploads overlap, fail or are cut off.
THEOREM EvidenceIsNeverLost == UploadsSpec => []EvidenceIsThere
  BY Invariance, PTL DEF IInv
=============================================================================
