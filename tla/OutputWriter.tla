---------------------------- MODULE OutputWriter ----------------------------
(* The writers behind FileSystem.Create and Rename, for the backends of      *)
(* storage.go: a local file, the buffering writer of the in-memory object    *)
(* store, and the multipart writer of S3. A writer is a record:              *)
(*   kind    "local", "mem" or "aws"                                         *)
(*   seen    what a reader finds at the writer's path, or Absent             *)
(*   buffer  records not handed to the backend yet                           *)
(*   parts   records of the uploaded parts                                   *)
(*   upload  a multipart upload is open on the server                        *)
(*   err     the writer's sticky error                                       *)
(* Every backend call may fail, so an operation has a set of outcomes        *)
(* [w, ok]: the writer after it and whether the caller saw no error.         *)
EXTENDS Integers, Sequences

CONSTANTS PartRecords,  \* records in a part (multipartPartBytes)
          MaxParts      \* parts of an upload (10000)

Absent == [absent |-> TRUE]

Whole(recs) == [absent |-> FALSE, recs |-> recs]

Outcome(w, ok) == [w |-> w, ok |-> ok]

Fresh(kind, seen) ==
    [kind |-> kind, seen |-> seen, buffer |-> <<>>, parts |-> <<>>,
     upload |-> FALSE, err |-> FALSE]

(* os.Create truncates at once; the object writers touch nothing yet. seen   *)
(* is what an earlier job left at the path.                                  *)
Create(kind, seen) ==
    {Outcome(Fresh(kind, IF kind = "local" THEN Whole(<<>>) ELSE seen), TRUE)}
    \cup (IF kind = "mem" THEN {} ELSE {Outcome(Fresh(kind, seen), FALSE)})

(* multipartWriter.fail and abortUpload: the error sticks; the upload stays  *)
(* open when the abort itself fails.                                         *)
FailUpload(w) ==
    {Outcome([w EXCEPT !.err = TRUE, !.buffer = <<>>, !.upload = u], FALSE) :
        u \in IF w.upload THEN BOOLEAN ELSE {FALSE}}

(* multipartWriter.flush: open the upload if there is none, upload the       *)
(* buffer as the next part; either call may fail.                            *)
FlushPart(w) ==
    LET opened == [w EXCEPT !.upload = TRUE]
    IN  IF Len(w.parts) >= MaxParts * PartRecords THEN FailUpload(w)
        ELSE {Outcome([opened EXCEPT !.parts = @ \o w.buffer, !.buffer = <<>>], TRUE)}
             \cup FailUpload(w) \cup FailUpload(opened)

(* Write of one record.                                                      *)
Write(w, rec) ==
    CASE w.kind = "local" ->
            {Outcome([w EXCEPT !.seen = Whole(Append(@.recs, rec))], TRUE), Outcome(w, FALSE)}
      [] w.kind = "mem" -> {Outcome([w EXCEPT !.buffer = Append(@, rec)], TRUE)}
      [] w.kind = "aws" ->
            IF w.err THEN {Outcome(w, FALSE)}
            ELSE {IF o.ok THEN Outcome([o.w EXCEPT !.buffer = Append(@, rec)], TRUE) ELSE o :
                    o \in IF Len(w.buffer) = PartRecords THEN FlushPart(w)
                          ELSE {Outcome(w, TRUE)}}

(* CompleteMultipartUpload: an error may hide a completed upload.            *)
Complete(w) ==
    LET done == [w EXCEPT !.seen = Whole(w.parts), !.upload = FALSE]
    IN  {Outcome(done, TRUE)} \cup FailUpload(w) \cup FailUpload(done)

(* Close.                                                                    *)
Close(w) ==
    CASE w.kind = "local" -> {Outcome(w, TRUE), Outcome(w, FALSE)}
      [] w.kind = "mem" -> {Outcome([w EXCEPT !.seen = Whole(w.buffer)], TRUE)}
      [] w.kind = "aws" ->
            IF w.err THEN {Outcome(w, FALSE)}
            ELSE IF ~w.upload
            THEN {Outcome([w EXCEPT !.seen = Whole(w.buffer)], ok) : ok \in BOOLEAN}
                 \cup {Outcome(w, FALSE)}
            ELSE UNION {IF o.ok THEN Complete(o.w) ELSE {o} :
                    o \in IF w.buffer # <<>> THEN FlushPart(w) ELSE {Outcome(w, TRUE)}}

\* a plausible slip: only the close error is reported
CloseUnchecked(w, wrote) == Close(w)

(* writeCloserChecked: the writer is closed also after a failed write.       *)
CloseChecked(w, wrote) == {Outcome(o.w, o.ok /\ wrote) : o \in Close(w)}

(* The steps of Rename: one for a local file, Copy and then Delete for an    *)
(* object.                                                                   *)
RenameSteps(kind) == IF kind = "local" THEN <<"rename">> ELSE <<"copy", "delete">>

(* Whether a call took effect and what its caller saw: the in-memory store   *)
(* does not fail, an S3 error may hide an effect.                            *)
CallOutcomes(kind) ==
    {[effect |-> TRUE, ok |-> TRUE]}
    \cup (IF kind = "mem" THEN {} ELSE {[effect |-> FALSE, ok |-> FALSE]})
    \cup (IF kind = "aws" THEN {[effect |-> TRUE, ok |-> FALSE]} ELSE {})
=============================================================================
