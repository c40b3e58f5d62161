------------------------------- MODULE Uploads -------------------------------
(***************************************************************************)
(* attachments.Service.Upload: the bytes go to a file first, then a row    *)
(* that names the file is created. Either can fail, and the process may    *)
(* stop in between; nothing is cleaned up. The evidence gate of the work   *)
(* item modules counts the rows.                                           *)
(***************************************************************************)
EXTENDS Naturals, FiniteSets

CONSTANTS
    UploadSlots,  \* uploads that can be in flight
    FileNames,    \* names clients give their files
    Suffixes,     \* what the storage adds to make a name unique
    NoFile,       \* no upload
    MaxUploads    \* bound on uploads ever begun

ASSUME UploadsAssumption == MaxUploads \in Nat

VARIABLES
    disk,     \* stored name |-> what is in the file
    entries,  \* rows of the attachments table
    upload,   \* the upload in each slot
    begun     \* uploads begun so far

uploadVars == <<disk, entries, upload, begun>>

Sizes == {"empty", "full"}

NoUpload(r) == upload[r] = NoFile

UploadsInit ==
    /\ disk = <<>>
    /\ entries = {}
    /\ upload = [r \in UploadSlots |-> NoFile]
    /\ begun = 0

\* Mutant: the name the client gave is used as it is.
GivenName(filename) == {<<filename, CHOOSE x \in Suffixes : TRUE>>}

\* Time and random bytes make the name one that was never used.
UnusedNames(filename) == ({filename} \X Suffixes) \ DOMAIN disk

\* os.Create: the file is there, and empty.
Create(r, filename, size) ==
    /\ NoUpload(r)
    /\ begun < MaxUploads
    /\ begun' = begun + 1
    /\ \E name \in UnusedNames(filename) :
        /\ disk' = [n \in DOMAIN disk \cup {name} |->
                        IF n = name THEN [of |-> begun', size |-> "empty"]
                        ELSE disk[n]]
        /\ upload' = [upload EXCEPT ![r] =
                [id |-> begun', name |-> name, size |-> size, saved |-> FALSE]]
    /\ UNCHANGED entries

\* io.Copy to the end of the request body.
Copy(r) ==
    /\ ~NoUpload(r) /\ ~upload[r].saved
    /\ disk' = [disk EXCEPT ![upload[r].name] =
            [of |-> upload[r].id, size |-> upload[r].size]]
    /\ upload' = [upload EXCEPT ![r].saved = TRUE]
    /\ UNCHANGED <<entries, begun>>

EndUpload(r) == upload' = [upload EXCEPT ![r] = NoFile]

Record(r) ==
    /\ ~NoUpload(r) /\ upload[r].saved
    /\ upload[r].size # "empty"
    /\ entries' = entries \cup {[id |-> upload[r].id, file |-> upload[r].name]}
    /\ EndUpload(r)
    /\ UNCHANGED <<disk, begun>>

\* ErrEmptyFile; the file stays.
RefuseEmpty(r) ==
    /\ ~NoUpload(r) /\ upload[r].saved
    /\ upload[r].size = "empty"
    /\ EndUpload(r)
    /\ UNCHANGED <<disk, entries, begun>>

\* Copying or the INSERT fails, or the client hangs up; the file stays.
FailUpload(r) ==
    /\ ~NoUpload(r)
    /\ EndUpload(r)
    /\ UNCHANGED <<disk, entries, begun>>

\* The process starts again.
Restart ==
    /\ upload' = [r \in UploadSlots |-> NoFile]
    /\ UNCHANGED <<disk, entries, begun>>

UploadsNext ==
    \/ \E r \in UploadSlots :
        \/ \E filename \in FileNames, size \in Sizes : Create(r, filename, size)
        \/ Copy(r) \/ Record(r) \/ RefuseEmpty(r) \/ FailUpload(r)
    \/ Restart

UploadsSpec == UploadsInit /\ [][UploadsNext]_uploadVars

-----------------------------------------------------------------------------
(* Properties.                                                             *)

\* Every row names a file that holds, completely, the bytes of that very upload,
\* and not none: no later upload, failure or restart touches a file once a row
\* names it, so the evidence that a gate has counted can be looked at.
EvidenceIsThere ==
    \A e \in entries :
        /\ e.file \in DOMAIN disk
        /\ disk[e.file] = [of |-> e.id, size |-> "full"]
=============================================================================
