---------------------------- MODULE AcmeWebroot ----------------------------
(***************************************************************************)
(* The ACME HTTP-01 responder (acme.rs), which both listeners ask first:   *)
(* the redirector on port 80 (http_redirect.rs) and the proxy behind its   *)
(* framing guard.  It looks at the file system four times, and an ACME     *)
(* client may write in between; from the second await on the handler may   *)
(* be dropped as well.                                                     *)
(*                                                                         *)
(* External: the ACME client, which writes, replaces and removes a token's *)
(* file in either place.  A file is read in one piece, and can be read: an *)
(* error of the read other than its absence is answered 500 too.           *)
(***************************************************************************)
EXTENDS Integers

CONSTANTS
  Request, \* requests, none for another token
  Content, \* what the token's files may hold
  Small,   \* those of at most 4096 bytes
  Absent   \* no file

ASSUME WebrootAssumption == Small \subseteq Content /\ Absent \notin Content

Place == {"nested", "flat"}

\* What a request asks for: the token, what is no token, another path.
Kind == {"token", "ill_formed", "other"}

VARIABLES
  configured, \* server.acme_webroot is given
  kind,    \* of each request
  content, \* of each place, Absent if there is no file
  step,    \* where each request is
  path,    \* path_to_read
  body     \* of an answer with status 200, else Absent

VARIABLE seen \* observed: the contents of each place since a request came

acmeVars == <<configured, kind, content, step, path, body, seen>>

Running == {"asked", "flat", "stat", "read"}
Answered == {"passed", "400", "404", "500", "200"}

AcmeTypeOK ==
  /\ configured \in BOOLEAN
  /\ kind \in [Request -> Kind]
  /\ content \in [Place -> Content \cup {Absent}]
  /\ step \in [Request -> {"idle", "dropped"} \cup Running \cup Answered]
  /\ path \in [Request -> Place]
  /\ body \in [Request -> Content \cup {Absent}]
  /\ \A r \in Request : step[r] = "200" <=> body[r] # Absent
  /\ seen \in [Request -> [Place -> SUBSET (Content \cup {Absent})]]

AcmeInit ==
  /\ configured \in BOOLEAN
  /\ kind = [r \in Request |-> "token"]
  /\ content \in [Place -> Content \cup {Absent}]
  /\ step = [r \in Request |-> "idle"]
  /\ path = [r \in Request |-> "nested"]
  /\ body = [r \in Request |-> Absent]
  /\ seen = [r \in Request |-> [p \in Place |-> {}]]

Moves(r, from, to) == step[r] = from /\ step' = [step EXCEPT ![r] = to]

-----------------------------------------------------------------------------
(* try_serve_acme_challenge. *)

Arrive(r) ==
  /\ Moves(r, "idle", "asked")
  /\ \E k \in Kind : kind' = [kind EXCEPT ![r] = k]
  /\ seen' = [seen EXCEPT ![r] = [p \in Place |-> {content[p]}]]
  /\ UNCHANGED <<configured, content, path, body>>

\* A file is looked for.
Wanted(r) == kind[r] = "token" /\ configured

\* Another path, no token, no webroot: None, 400 or 404 before any file is looked at.
Refuse(r) ==
  /\ ~Wanted(r)
  /\ Moves(r, "asked", CASE kind[r] = "other" -> "passed"
                         [] kind[r] = "ill_formed" -> "400"
                         [] OTHER -> "404")
  /\ UNCHANGED <<configured, kind, content, path, body, seen>>

Looks(r, from) == Wanted(r) /\ step[r] = from

\* path_to_read is p if a file is there now; otherwise the next place is tried.
Pick(r, p, otherwise) ==
  /\ step' = [step EXCEPT ![r] = IF content[p] # Absent THEN "stat" ELSE otherwise]
  /\ path' = [path EXCEPT ![r] = p]
  /\ UNCHANGED <<configured, kind, content, body, seen>>

\* Mutant: the flat place is looked at first, the nested one is never tried.
TryFlatOnly(r) == Looks(r, "asked") /\ Pick(r, "flat", "flat")

\* Mutant: the responder waits for the file.
TryUntilFound(r) == Looks(r, "asked") /\ Pick(r, "nested", "asked")

\* candidate_nested.is_file().
TryNested(r) == Looks(r, "asked") /\ Pick(r, "nested", "flat")

\* candidate_flat.is_file(); 404 if that is none either.
TryFlat(r) == Looks(r, "flat") /\ Pick(r, "flat", "404")

\* Mutant: the file is not asked for its size.
StatAny(r) ==
  /\ Moves(r, "stat", IF content[path[r]] # Absent THEN "read" ELSE "404")
  /\ UNCHANGED <<configured, kind, content, path, body, seen>>

\* tokio::fs::metadata: gone or more than 4096 bytes, 404.
Stat(r) ==
  /\ Moves(r, "stat", IF content[path[r]] \in Small THEN "read" ELSE "404")
  /\ UNCHANGED <<configured, kind, content, path, body, seen>>

\* Mutant: a file gone since its size was asked for is served as an empty one.
ReadGone(r) ==
  /\ Moves(r, "read", "200")
  /\ body' = [body EXCEPT ![r] = content[path[r]]]
  /\ UNCHANGED <<configured, kind, content, path, seen>>

\* tokio::fs::read: all of what is there now; 500 if nothing is.
ReadFile(r) ==
  /\ Moves(r, "read", IF content[path[r]] = Absent THEN "500" ELSE "200")
  /\ body' = [body EXCEPT ![r] = content[path[r]]]
  /\ UNCHANGED <<configured, kind, content, path, seen>>

-----------------------------------------------------------------------------
\* The connection ends while the handler awaits the file system.
Drop(r) ==
  /\ step[r] \in {"stat", "read"}
  /\ step' = [step EXCEPT ![r] = "dropped"]
  /\ UNCHANGED <<configured, kind, content, path, body, seen>>

\* The ACME client.
Write(p, c) ==
  /\ content' = [content EXCEPT ![p] = c]
  /\ seen' = [r \in Request |->
                IF step[r] \in Running THEN [seen[r] EXCEPT ![p] = @ \cup {c}]
                ELSE seen[r]]
  /\ UNCHANGED <<configured, kind, step, path, body>>

Proceed(r) == Refuse(r) \/ TryNested(r) \/ TryFlat(r) \/ Stat(r) \/ ReadFile(r)

AcmeNext ==
  \/ \E r \in Request : Arrive(r) \/ Proceed(r) \/ Drop(r)
  \/ \E p \in Place, c \in Content \cup {Absent} : Write(p, c)

\* The runtime schedules the task, and its blocking pool the file operations.
AcmeFairness == \A r \in Request : WF_acmeVars(Proceed(r))

AcmeSpec == AcmeInit /\ [][AcmeNext]_acmeVars
AcmeFairSpec == AcmeSpec /\ AcmeFairness

-----------------------------------------------------------------------------
\* The four looks at the file system as one: the abstract specification's outcome of
\* a request, and the requests for which no file is looked for.
outcome ==
  [r \in Request |->
    [status |-> IF step[r] \in Running THEN "pending" ELSE step[r], body |-> body[r]]]

refused == {r \in Request : step[r] # "idle" /\ ~Wanted(r)}

Lookup == INSTANCE ChallengeLookup WITH
            content <- content, seen <- seen, outcome <- outcome, refused <- refused

\* The responder implements that one look: whatever is written between its steps,
\* its answer is one that the contents the two places had since the request came
\* explain.
ImplementsLookup == Lookup!LookupSpec

\* A token whose file lies in the nested place, unchanged, while it is asked for is
\* served as it is, whatever happens to the flat place meanwhile: validation does not
\* fail on leftovers.
StableTokenIsServed ==
  \A r \in Request, c \in Small :
    /\ Wanted(r) /\ step[r] \in Answered /\ seen[r]["nested"] = {c}
    => step[r] = "200" /\ body[r] = c

\* What acme.rs:12-13 and 77-78 say of the answers: none is longer than 4096 bytes.
\* Violated: the size is that of the file metadata finds, the body all of the file
\* that read finds, and the ACME client may have replaced the one by the other.
TokensAreCapped ==
  \A r \in Request : step[r] = "200" => body[r] \in Small

\* Every request is answered, unless its connection ends: nothing that is written
\* keeps the responder looking.
RequestsAreAnswered ==
  \A r \in Request : step[r] = "asked" ~> step[r] \in Answered \cup {"dropped"}
=============================================================================
