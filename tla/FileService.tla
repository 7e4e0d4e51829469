---------------------------- MODULE FileService ----------------------------
(***************************************************************************)
(* The file service (file_server.hpp) over a directory whose disk may fill *)
(* up: PutSingleFile and PutMultiFile write one file after another, each   *)
(* by writeFile of utils.hpp, and answer with the ids; PutSingleFile is a  *)
(* put of one file.  GetSingleFile and GetMultiFile are the operator       *)
(* CanRead.                                                                *)
(*                                                                         *)
(* The names uuid() makes are taken to be distinct: they are numbered in   *)
(* the order in which they are made.  What a file holds is told by whose   *)
(* data it is, and whether all of it is there.                             *)
(***************************************************************************)
EXTENDS Integers, Sequences, FiniteSets

CONSTANTS
  Call,      \* calls of PutSingleFile and PutMultiFile
  Size,      \* how many files a call uploads
  MaxFaults  \* bound: failures and crashes

ASSUME FileAssumption ==
  /\ Size \in [Call -> Nat \ {0}]
  /\ MaxFaults \in Nat

VARIABLES
  files,      \* the directory: file id -> content
  put,        \* what each call does next; "ok" and "failed" are its answers
  fileId,     \* local fid of a call
  fileInfo,   \* ids in the response so far
  truncated,  \* ghost: files whose last bytes close() could not write
  faults

fileVars == <<files, put, fileId, fileInfo, truncated>>

Content == [call : Call, nth : Nat \ {0}, whole : BOOLEAN]
Body(c, n) == [call |-> c, nth |-> n, whole |-> TRUE]
PartOf(c, n) == [call |-> c, nth |-> n, whole |-> FALSE]

FileInit ==
  /\ files = <<>>
  /\ put = [c \in Call |-> "new"]
  /\ fileId = [c \in Call |-> 0]
  /\ fileInfo = [c \in Call |-> <<>>]
  /\ truncated = {}
  /\ faults = 0

-----------------------------------------------------------------------------
Fault ==
  /\ faults < MaxFaults
  /\ faults' = faults + 1

Becomes(c, state) == put' = [put EXCEPT ![c] = state]
Nth(c) == Len(fileInfo[c]) + 1

(* A new name, and the file under it: created empty, or not at all.  The   *)
(* answer of a call that failed names no file, but those it wrote stay.    *)
OpenFile(c) ==
  /\ put[c] \in {"new", "open"}
  /\ \/ /\ files' = Append(files, PartOf(c, Nth(c)))
        /\ fileId' = [fileId EXCEPT ![c] = Len(files) + 1]
        /\ Becomes(c, "write")
        /\ UNCHANGED faults
     \/ /\ Fault
        /\ Becomes(c, "failed")
        /\ UNCHANGED <<files, fileId>>
  /\ UNCHANGED <<fileInfo, truncated>>

(* Mutant of WriteFile: good() is not looked at. *)
WriteFileUnchecked(c) ==
  /\ put[c] = "write"
  /\ Becomes(c, "close")
  /\ \/ files' = [files EXCEPT ![fileId[c]] = Body(c, Nth(c))] /\ UNCHANGED faults
     \/ Fault /\ UNCHANGED files
  /\ UNCHANGED <<fileId, fileInfo, truncated>>

(* ofs.write and ofs.good(): the data is in the file, up to the end of it  *)
(* that the stream still buffers. *)
WriteFile(c) ==
  /\ put[c] = "write"
  /\ \/ /\ Becomes(c, "close")
        /\ files' = [files EXCEPT ![fileId[c]] = Body(c, Nth(c))]
        /\ UNCHANGED faults
     \/ /\ Fault
        /\ Becomes(c, "failed")
        /\ UNCHANGED files
  /\ UNCHANGED <<fileId, fileInfo, truncated>>

(* ofs.close() writes what is buffered; whether it could is not looked at. *)
(* The file is in the answer, and the next one follows.                    *)
CloseFile(c) ==
  /\ put[c] = "close"
  /\ \/ UNCHANGED <<files, truncated, faults>>
     \/ /\ Fault
        /\ files' = [files EXCEPT ![fileId[c]] = PartOf(c, Nth(c))]
        /\ truncated' = truncated \cup {fileId[c]}
  /\ fileInfo' = [fileInfo EXCEPT ![c] = Append(@, fileId[c])]
  /\ Becomes(c, IF Nth(c) = Size[c] THEN "ok" ELSE "open")
  /\ UNCHANGED fileId

IsRunning(c) == put[c] \in {"open", "write", "close"}

(* The service dies, and its callers get errors; what a file still         *)
(* buffered is lost.                                                       *)
FileServiceDies ==
  /\ Fault
  /\ put' = [c \in Call |-> IF IsRunning(c) THEN "failed" ELSE put[c]]
  /\ files' = [f \in DOMAIN files |->
                 IF \E c \in Call : put[c] = "close" /\ fileId[c] = f
                 THEN [files[f] EXCEPT !.whole = FALSE] ELSE files[f]]
  /\ UNCHANGED <<fileId, fileInfo, truncated>>

(* readFile of the files named: it reads a file whatever is in it. *)
CanRead(ids) == ids \subseteq DOMAIN files

FileNext ==
  \/ \E c \in Call : OpenFile(c) \/ WriteFile(c) \/ CloseFile(c)
  \/ FileServiceDies

-----------------------------------------------------------------------------
FileTypeOK ==
  /\ files \in Seq(Content)
  /\ put \in [Call -> {"new", "open", "write", "close", "ok", "failed"}]
  /\ fileId \in [Call -> 0..Len(files)]
  /\ fileInfo \in [Call -> Seq(1..Len(files))]
  /\ truncated \subseteq 1..Len(files)
  /\ faults \in 0..MaxFaults

IsWritten(f, c, n) == f \in DOMAIN files /\ files[f] = Body(c, n)

(* The ids a successful put answers name its files, in order, with all     *)
(* that was uploaded, whatever other puts, failures and crashes came in    *)
(* between - but for what close() failed to write.  (PutSingleFile,        *)
(* PutMultiFile, writeFile)                                                *)
AnsweredFilesAreWhole ==
  \A c \in Call : put[c] = "ok" =>
    /\ Len(fileInfo[c]) = Size[c]
    /\ \A n \in 1..Size[c] :
         fileInfo[c][n] \notin truncated => IsWritten(fileInfo[c][n], c, n)
=============================================================================
