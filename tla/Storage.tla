------------------------------ MODULE Storage ------------------------------
(***************************************************************************)
(* thecargo.storage: the objects of one bucket, the references to them     *)
(* that services keep, and the calls that upload, download, delete and     *)
(* look for them, each tried again when it fails for a reason that may     *)
(* pass.                                                                   *)
(*                                                                         *)
(* Calls run in threads and overlap. A try that fails may have had its     *)
(* effect all the same, when only its answer was lost. A key is the        *)
(* sequence of its parts.                                                  *)
(***************************************************************************)
EXTENDS Naturals, Sequences

CONSTANTS
    Threads,
    Keys,        \* the keys that are uploaded
    BUCKET,      \* the name of the bucket, a part like those of the keys
    MaxCalls     \* bound on the calls

ASSUME StorageAssumption ==
    /\ BUCKET \in STRING
    /\ Keys \subseteq Seq(STRING) \ {<<>>}

MAX_RETRIES == 3

VARIABLES
    client,     \* _client is there
    objects,    \* the keys of the objects in the bucket
    op,         \* thread -> its call, or NoCall
    answers,    \* thread -> what its last call came to
    settled,    \* ghost: key -> what the answers say of it: "there", "gone" or "open"
    calls       \* how many calls were made

storageVars == <<client, objects, op, answers, settled, calls>>

NoCall == [what |-> "none", key |-> <<>>, attempt |-> 0]

----------------------------------------------------------------------------
(* References. *)

\* get_public_url: what an upload returns.
PublicUrl(key) == [url |-> TRUE, own |-> TRUE, path |-> <<BUCKET>> \o key]

\* is_external_url
IsExternal(ref) == ref.url /\ ~ref.own

\* Mutant: the bucket stays in front of the path of a URL.
PathAsItIs(ref) == IF IsExternal(ref) THEN <<>> ELSE ref.path

\* object_path_from_url: a URL of ours has the bucket as its first part, a path may.
ObjectPath(ref) ==
    CASE IsExternal(ref) -> <<>>
      [] ref.url /\ Len(ref.path) > 1 -> Tail(ref.path)
      [] ~ref.url /\ Len(ref.path) > 1 /\ Head(ref.path) = BUCKET -> Tail(ref.path)
      [] OTHER -> ref.path

\* What services keep of an uploaded object: its URL, or its key, with the bucket
\* or without; a key that begins with the bucket's name cannot do without.
References(key) ==
    {PublicUrl(key), [url |-> FALSE, own |-> TRUE, path |-> <<BUCKET>> \o key]}
    \union {r \in {[url |-> FALSE, own |-> TRUE, path |-> key]} : Head(key) # BUCKET}

----------------------------------------------------------------------------
(* Calls. *)

StorageInit ==
    /\ client = FALSE /\ objects = {}
    /\ op = [t \in Threads |-> NoCall] /\ answers = [t \in Threads |-> "none"]
    /\ settled = [k \in Keys |-> "gone"] /\ calls = 0

\* init_storage: an error leaves the service without storage.
InitStorage == client' \in BOOLEAN /\ UNCHANGED <<objects, op, answers, settled, calls>>

Call(t) ==
    /\ calls < MaxCalls /\ op[t] = NoCall
    /\ \E what \in {"upload", "download", "delete", "exists"}, k \in Keys :
       \E ref \in IF what = "upload" THEN {[url |-> FALSE, own |-> TRUE, path |-> k]} ELSE References(k) :
          /\ op' = [op EXCEPT ![t] =
                        [what |-> what, attempt |-> 1,
                         key |-> IF what = "upload" THEN k ELSE ObjectPath(ref), of |-> k]]
          /\ settled' = IF what \in {"upload", "delete"} THEN [settled EXCEPT ![k] = "open"] ELSE settled
    /\ calls' = calls + 1
    /\ UNCHANGED <<client, objects, answers>>

Others(t) == {u \in Threads \ {t} : op[u] # NoCall /\ op[u].of = op[t].of}

\* The call ends; when it says what is so of an object, and no other call is about
\* to change it, the object is settled.
EndCall(t, answer) ==
    LET k == op[t].of
        says == CASE op[t].what = "upload" /\ answer = "done" -> "there"
                  [] op[t].what = "delete" /\ answer = "done" -> "gone"
                  [] OTHER -> settled[k]
    IN /\ answers' = [answers EXCEPT ![t] = answer]
       /\ op' = [op EXCEPT ![t] = NoCall]
       /\ settled' = [settled EXCEPT ![k] =
             IF \E u \in Others(t) : op[u].what \in {"upload", "delete"} THEN "open" ELSE says]
       /\ UNCHANGED <<client, calls>>

Effect(t) ==
    CASE op[t].what = "upload" -> objects \union {op[t].key}
      [] op[t].what = "delete" -> objects \ {op[t].key}
      [] OTHER -> objects

\* The bucket answers: the object of a download or a look may be missing.
Succeed(t) ==
    /\ op[t] # NoCall /\ client
    /\ objects' = Effect(t)
    /\ EndCall(t, CASE op[t].what = "exists" -> IF op[t].key \in objects THEN "yes" ELSE "no"
                [] op[t].what = "download" /\ op[t].key \notin objects -> "raised"
                [] OTHER -> "done")

\* An error that no retry helps; object_exists takes every error of the bucket for
\* one, and answers no.
Refuse(t) ==
    /\ op[t] # NoCall /\ client
    /\ UNCHANGED objects
    /\ EndCall(t, IF op[t].what = "exists" THEN "no" ELSE "raised")

\* Mutant: when the tries are used up, the call just ends.
FailQuietly(t, effective) ==
    /\ op[t] # NoCall /\ client
    /\ objects' = IF effective THEN Effect(t) ELSE objects
    /\ IF op[t].attempt < MAX_RETRIES
       THEN op' = [op EXCEPT ![t].attempt = @ + 1] /\ UNCHANGED <<client, answers, settled, calls>>
       ELSE EndCall(t, "done")

\* An error that may pass, after which the call is tried again or gives up; the try
\* may have been effective.
Fail(t, effective) ==
    /\ op[t] # NoCall /\ client
    /\ objects' = IF effective THEN Effect(t) ELSE objects
    /\ IF op[t].attempt < MAX_RETRIES
       THEN op' = [op EXCEPT ![t].attempt = @ + 1] /\ UNCHANGED <<client, answers, settled, calls>>
       ELSE EndCall(t, "raised")

\* There is no client: a RuntimeError, which is not tried again.
NotInitialized(t) ==
    /\ op[t] # NoCall /\ ~client
    /\ UNCHANGED objects
    /\ EndCall(t, IF op[t].what = "exists" THEN "no" ELSE "raised")

StorageNext ==
    \/ InitStorage
    \/ \E t \in Threads :
          \/ Call(t) \/ Succeed(t) \/ Refuse(t) \/ NotInitialized(t)
          \/ \E effective \in BOOLEAN : Fail(t, effective)

StorageSpec == StorageInit /\ [][StorageNext]_storageVars

----------------------------------------------------------------------------
(* Properties. *)

\* What a call answered stays so until another call may change it: an upload that
\* returned put its object where every reference to it leads, a delete that
\* returned took it away, and no retry undoes either once the calls are over.
UploadsAreFound ==
    \A k \in Keys :
        /\ settled[k] = "there" => k \in objects
        /\ settled[k] = "gone" => k \notin objects
=============================================================================
