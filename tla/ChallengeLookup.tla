--------------------------- MODULE ChallengeLookup ---------------------------
(***************************************************************************)
(* What the ACME responder promises: an answer that the files of a token   *)
(* explain.  A token's file is looked for in two places, which an ACME     *)
(* client outside the program writes at any time; the answer to a request  *)
(* is given in one step, from what was in them since the request came.     *)
(***************************************************************************)
EXTENDS Integers

CONSTANTS
  Request, \* requests for the token
  Content, \* what its files may hold
  Small,   \* those of at most 4096 bytes
  Absent   \* no file

\* <root>/.well-known/acme-challenge/<token>, and <root>/<token>.
Place == {"nested", "flat"}

VARIABLES
  content, \* of each place, Absent if there is no file
  seen,    \* the contents of each place since a request came
  outcome, \* of each request
  refused  \* requests that ask for no token, or of a proxy without a webroot

lookupVars == <<content, seen, outcome, refused>>

Outcome ==
  [status : {"idle", "pending", "passed", "dropped", "400", "404", "500", "200"},
   body : Content \cup {Absent}]

Plain(status) == [status |-> status, body |-> Absent]
Found(c) == [status |-> "200", body |-> c]

LookupInit ==
  /\ content \in [Place -> Content \cup {Absent}]
  /\ seen = [r \in Request |-> [p \in Place |-> {}]]
  /\ outcome = [r \in Request |-> Plain("idle")]
  /\ refused = {}

Begin(r) ==
  /\ outcome[r].status = "idle"
  /\ outcome' = [outcome EXCEPT ![r] = Plain("pending")]
  /\ seen' = [seen EXCEPT ![r] = [p \in Place |-> {content[p]}]]
  /\ refused' \in {refused, refused \cup {r}}
  /\ UNCHANGED content

\* The ACME client writes, replaces or removes a file.
Write(p, c) ==
  /\ content' = [content EXCEPT ![p] = c]
  /\ seen' = [r \in Request |->
                IF outcome[r].status = "pending"
                  THEN [seen[r] EXCEPT ![p] = @ \cup {c}]
                  ELSE seen[r]]
  /\ UNCHANGED <<outcome, refused>>

\* A place that may have been chosen: the flat one only if the nested one was empty.
Chosen(r, p) == p = "nested" \/ Absent \in seen[r]["nested"]

\* A file is served only if at some moment its place had one of at most 4096 bytes,
\* which need not be the one served.
Served(r) ==
  {Found(c) : c \in UNION {seen[r][p] \ {Absent} :
                             p \in {q \in Place : Chosen(r, q)
                                                    /\ seen[r][q] \cap Small # {}}}}

\* No file: both places were empty at some moment, or the chosen one was emptied or
\* had too large a file.
Missing(r) ==
  \/ \A p \in Place : Absent \in seen[r][p]
  \/ \E p \in Place : Chosen(r, p) /\ seen[r][p] \cap (Content \ Small) # {}
  \/ \E p \in Place : Chosen(r, p) /\ Absent \in seen[r][p] /\ seen[r][p] # {Absent}

\* Removed before it was read.
Vanished(r) ==
  \E p \in Place : Chosen(r, p) /\ Absent \in seen[r][p] /\ seen[r][p] \cap Small # {}

\* Not a challenge's path, not a token, no webroot: whatever the files hold.
Refusals == {Plain("passed"), Plain("400"), Plain("404")}

Answers(r) ==
  Served(r)
    \cup {o \in {Plain("404")} : Missing(r)}
    \cup {o \in {Plain("500")} : Vanished(r)}

Respond(r) ==
  /\ outcome[r].status = "pending"
  /\ \E o \in IF r \in refused THEN Refusals ELSE Answers(r) :
       outcome' = [outcome EXCEPT ![r] = o]
  /\ UNCHANGED <<content, seen, refused>>

\* The handler's future is dropped.
Abandon(r) ==
  /\ outcome[r].status = "pending"
  /\ outcome' = [outcome EXCEPT ![r] = Plain("dropped")]
  /\ UNCHANGED <<content, seen, refused>>

LookupNext ==
  \/ \E r \in Request : Begin(r) \/ Respond(r) \/ Abandon(r)
  \/ \E p \in Place, c \in Content \cup {Absent} : Write(p, c)

LookupSpec == LookupInit /\ [][LookupNext]_lookupVars
=============================================================================
