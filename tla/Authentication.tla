--------------------------- MODULE Authentication ---------------------------
(***************************************************************************)
(* The authentication service over the profiles of the user service: a     *)
(* request loads the account, checks its enrollment, and lets a provider   *)
(* compare what was sent with the templates, while the profiles change.    *)
(*                                                                         *)
(* The row loaded first answers every later SELECT of the request's        *)
(* session.  A challenge, and the pair of embeddings the voice and face    *)
(* services compare for a caller, involve no account at all.               *)
(***************************************************************************)
EXTENDS Profiles

CONSTANTS Requests, Challenges

\* What is no embedding is not one of them.
ASSUME AuthenticationAssumption ==
    {"bad", "unreadable", "unconvertible"} \cap (Prints \cup {Unset}) = {}

\* What each kind of request brings.
Inputs == [voice |-> {"voice"}, face |-> {"face"}, multimodal |-> {"voice", "face"},
           challenge |-> {"challenge", "response"},
           voice_pair |-> {"enrolled", "live"}, face_pair |-> {"enrolled", "live"}]

\* "bad": absent, a primitive or empty.  "unreadable": nobody is found in it.
\* "unconvertible": what numpy makes no numbers of, as bytes or an object; of a
\* picture, which only a provider of the caller's looks at, this is unreadable too.
Sent(i) ==
    {"bad"} \cup
    CASE i \in {"challenge", "response"} -> Challenges
      [] i = "face" -> Prints \cup {"unreadable"}
      [] OTHER -> Prints \cup {"unreadable", "unconvertible"}

Brought(kind) == {f \in [Inputs[kind] -> UNION {Sent(i) : i \in Inputs[kind]}] :
                    \A i \in Inputs[kind] : f[i] \in Sent(i)}

\* The providers each kind may come with.  "own" is the repository's, which has no
\* live_payload parameter; "contract" and "candid" implement the protocol they are
\* used under, and "candid" refuses what it cannot judge with the error class of
\* the authentication service, "contract" with any other.
Providers == [voice |-> {"own"}, face |-> {"none", "own", "contract", "candid"},
              multimodal |-> {"none", "own", "contract", "candid"},
              challenge |-> {"none", "contract", "candid"},
              voice_pair |-> {"none", "nameless", "own"}, face_pair |-> {"none", "nameless", "own"}]

OfAccount == {"voice", "face", "multimodal"}

\* An account is named by a user identifier or by a blank.
Questions ==
    UNION {[kind : {k}, user : (IF k \in OfAccount THEN Uids ELSE {}) \cup {Nothing},
            input : Brought(k), provider : Providers[k]] : k \in DOMAIN Inputs}

VARIABLES
    req,     \* what each request brings
    at,      \* the step it is at, or its answer
    held,    \* the row its session loaded
    heard,   \* whether the voice matched
    seen,    \* history: the rows its account had during the request
    faulted  \* history: whether a call it made failed

authVars == <<req, at, held, heard, seen, faulted>>

vars == <<profileVars, authVars>>

Steps == {"user", "enrollment", "voice", "face", "challenge", "pair"}

Answers == {"granted", "denied", "invalid", "unavailable"}

TypeOK ==
    /\ ProfilesTypeOK
    /\ req \in [Requests -> Questions \cup {Nothing}]
    /\ at \in [Requests -> {"idle"} \cup Steps \cup Answers]
    /\ held \in [Requests -> Row \cup {Nothing}]
    /\ heard \in [Requests -> BOOLEAN]
    /\ seen \in [Requests -> SUBSET (Row \cup {Nothing})]
    /\ faulted \in [Requests -> BOOLEAN]
    /\ \A r \in Requests : at[r] \in {"enrollment", "voice", "face"} => held[r] # Nothing

Init ==
    /\ ProfilesInit
    /\ req = [r \in Requests |-> Nothing]
    /\ at = [r \in Requests |-> "idle"]
    /\ held = [r \in Requests |-> Nothing]
    /\ heard = [r \in Requests |-> FALSE]
    /\ seen = [r \in Requests |-> {}]
    /\ faulted = [r \in Requests |-> FALSE]

Goto(r, place) == at' = [at EXCEPT ![r] = place]

\* What a SELECT of the request's account finds: a blank identifier is nobody's.
Found(q) == IF q.user = Nothing THEN Nothing ELSE users[q.user]

-----------------------------------------------------------------------------
(* The steps of a request                                                  *)

\* Only a multimodal request has its identifier checked before the load.
First(q) ==
    CASE q.kind = "multimodal" /\ q.user = Nothing -> "invalid"
      [] q.kind = "challenge" -> "challenge"
      [] q.kind \in {"voice_pair", "face_pair"} -> "pair"
      [] OTHER -> "user"

Call(r) ==
    /\ at[r] = "idle"
    /\ \E q \in Questions :
         /\ req' = [req EXCEPT ![r] = q]
         /\ seen' = [seen EXCEPT ![r] = {Found(q)}]
         /\ Goto(r, First(q))
    /\ UNCHANGED <<profileVars, held, heard, faulted>>

\* Faulty variant: an account that is not there is not inactive.
Inactive(row) == row # Nothing /\ ~row.active

Unusable(row) == row = Nothing \/ ~row.active

LoadUser(r) ==
    /\ at[r] = "user"
    /\ LET row == Found(req[r]) IN
         IF Unusable(row)
         THEN Goto(r, "invalid") /\ UNCHANGED held
         ELSE Goto(r, "enrollment") /\ held' = [held EXCEPT ![r] = row]
    /\ UNCHANGED <<profileVars, req, heard, seen, faulted>>

\* Faulty variant: the templates are read afresh.
Reread(r) == Found(req[r])

\* The second load, out of the session's identity map.
Profile(r) == held[r]

\* has_complete_biometrics asks whether the columns are NULL.
Complete(row) == \A c \in Templates : row.col[c] # Nothing

CheckEnrollment(r) ==
    /\ at[r] = "enrollment"
    /\ held' = [held EXCEPT ![r] = Profile(r)]
    /\ Goto(r, IF ~Complete(Profile(r)) THEN "invalid"
               ELSE IF req[r].kind = "face" THEN "face" ELSE "voice")
    /\ UNCHANGED <<profileVars, req, heard, seen, faulted>>

\* Only two embeddings of the provider's size are compared, which neither an input
\* nobody is found in gives nor the empty list of a signup is.
Comparable(template, live) == {template, live} \subseteq Prints

Compared(template, live) == IF template = live THEN "granted" ELSE "denied"

\* Faulty variant: every exception of the provider is taken for an outage.
VoiceOutage(template, live) ==
    IF Comparable(template, live) THEN Compared(template, live) ELSE "unavailable"

\* The voice provider converts before it validates: numbers that make no sense are a
\* VoiceValidationError, but an input numpy refuses is a failure of the provider.
VoiceVerdict(template, live) ==
    IF "unconvertible" \in {template, live} THEN "unavailable"
    ELSE IF Comparable(template, live) THEN Compared(template, live) ELSE "invalid"

\* The face provider says all of it with a ValueError, taken for an outage.
FaceVerdict(template, live) ==
    IF Comparable(template, live) THEN Compared(template, live) ELSE "unavailable"

\* A provider's own AuthenticationValidationError passes through to the caller.
Passed(provider, verdict) ==
    IF provider = "candid" /\ verdict = "unavailable" THEN "invalid" ELSE verdict

\* _authenticate_voice
Voice(r) ==
    LET live == req[r].input["voice"]
        verdict == VoiceVerdict(held[r].col["voice"], live) IN
    /\ at[r] = "voice"
    /\ Goto(r, IF live = "bad" THEN "invalid"
               ELSE IF req[r].kind = "multimodal" /\ verdict \in {"granted", "denied"} THEN "face"
               ELSE verdict)
    /\ heard' = [heard EXCEPT ![r] = verdict = "granted"]
    /\ UNCHANGED <<profileVars, req, held, seen, faulted>>

\* _authenticate_face, and for a multimodal request the answer of both.
Face(r) ==
    LET live == req[r].input["face"]
        verdict == Passed(req[r].provider, FaceVerdict(held[r].col["face"], live)) IN
    /\ at[r] = "face"
    /\ Goto(r, IF live = "bad" THEN "invalid"
               ELSE IF req[r].provider \in {"none", "own"} THEN "unavailable"
               ELSE IF verdict = "granted" /\ req[r].kind = "multimodal" /\ ~heard[r] THEN "denied"
               ELSE verdict)
    /\ UNCHANGED <<profileVars, req, held, heard, seen, faulted>>

\* The response is the provider's to judge, or to refuse.
Challenge(r) ==
    /\ at[r] = "challenge"
    /\ IF \E i \in Inputs["challenge"] : req[r].input[i] = "bad" THEN Goto(r, "invalid")
       ELSE IF req[r].provider = "none" THEN Goto(r, "unavailable")
       ELSE \E a \in {"granted", "denied", "unavailable"} :
              /\ a = "unavailable" => req[r].provider = "candid"
              /\ Goto(r, Passed(req[r].provider, a))
    /\ UNCHANGED <<profileVars, req, held, heard, seen, faulted>>

\* The engines of voice_service and face_service check both embeddings, then
\* that there is a provider and that it has a name.
BadEmbeddings(q) == "bad" \in {q.input["enrolled"], q.input["live"]}

BadProvider(q) == q.provider \in {"none", "nameless"}

VoicePair(r) ==
    LET q == req[r] IN
    /\ at[r] = "pair" /\ q.kind = "voice_pair"
    /\ Goto(r, IF BadEmbeddings(q) \/ BadProvider(q) THEN "invalid"
               ELSE VoiceVerdict(q.input["enrolled"], q.input["live"]))
    /\ UNCHANGED <<profileVars, req, held, heard, seen, faulted>>

FacePair(r) ==
    LET q == req[r] IN
    /\ at[r] = "pair" /\ q.kind = "face_pair"
    /\ Goto(r, IF BadEmbeddings(q) \/ BadProvider(q) THEN "invalid"
               ELSE FaceVerdict(q.input["enrolled"], q.input["live"]))
    /\ UNCHANGED <<profileVars, req, held, heard, seen, faulted>>

\* The database, a provider, the gate or the model fails.
Break(r) ==
    /\ at[r] \in Steps
    /\ Goto(r, "unavailable")
    /\ faulted' = [faulted EXCEPT ![r] = TRUE]
    /\ UNCHANGED <<profileVars, req, held, heard, seen>>

\* The profiles change under the requests.
ProfilesStep ==
    /\ ProfilesNext
    /\ seen' = [r \in Requests |->
         IF at[r] \in Steps /\ req[r].user # Nothing
         THEN seen[r] \cup {users'[req[r].user]} ELSE seen[r]]
    /\ UNCHANGED <<req, at, held, heard, faulted>>

Next ==
    \/ ProfilesStep
    \/ \E r \in Requests :
        \/ Call(r) \/ LoadUser(r) \/ CheckEnrollment(r) \/ Voice(r) \/ Face(r) \/ Challenge(r)
        \/ VoicePair(r) \/ FacePair(r) \/ Break(r)

Spec == Init /\ [][Next]_vars

-----------------------------------------------------------------------------
(* Correctness                                                             *)

\* What was sent is of the person whose row this is.
Matches(q, row) == \A c \in Inputs[q.kind] : q.input[c] = row.col[c]

\* Whoever is granted or denied is judged on one version of the account that it
\* had during the request, active at that moment and with the very templates the
\* input was compared with: never on parts of two versions, however the profile
\* changes between the two loads and the two providers.
JudgedOnOneProfile ==
    \A r \in Requests :
        at[r] \in {"granted", "denied"} /\ req[r].kind \in OfAccount =>
            \E row \in seen[r] \ {Nothing} :
                /\ row.active
                /\ \A c \in Inputs[req[r].kind] : row.col[c] \in Prints
                /\ at[r] = "granted" <=> Matches(req[r], row)

Refusable(q) == \E i \in DOMAIN q.input : q.input[i] \in {"bad", "unreadable"}

Unconvertible(q) == \E i \in DOMAIN q.input : q.input[i] = "unconvertible"

\* A caller is told the request was wrong only if its input was, its account was
\* at some moment missing, inactive or without a voice to compare with, or the
\* provider it passed breaks the contract or said so itself; it is told to come
\* back later only if something failed, no usable provider was passed, the face
\* provider could make nothing of the picture or the template, or numpy nothing of
\* what was to be heard.
ErrorsJustified ==
    \A r \in Requests :
        /\ at[r] = "invalid" =>
             \/ Refusable(req[r])
             \/ req[r].provider \in {"none", "nameless"} /\ req[r].kind \notin OfAccount
             \/ \E row \in seen[r] :
                  row = Nothing \/ ~row.active \/ row.col["voice"] = Unset
             \/ req[r].provider = "candid" /\
                  (\/ req[r].kind = "challenge"
                   \/ \E row \in seen[r] \ {Nothing} : row.col["face"] = Unset)
        /\ at[r] = "unavailable" =>
             \/ faulted[r]
             \/ Unconvertible(req[r])
             \/ /\ req[r].kind \in {"face", "multimodal", "challenge"}
                /\ req[r].provider \in {"none", "own"}
             \/ /\ req[r].kind \in {"face", "multimodal", "face_pair"}
                /\ req[r].provider # "candid"
                /\ \/ Refusable(req[r])
                   \/ \E row \in seen[r] \ {Nothing} : row.col["face"] = Unset

-----------------------------------------------------------------------------
(* What the source says of itself; a run compares it with the code.        *)

\* has_complete_biometrics is "True only if both speaker and face embeddings
\* exist": what passes the enrollment check has a template to compare with.
CompleteMeansEnrolled ==
    \A r \in Requests : at[r] \in {"voice", "face"} =>
        \A c \in Templates : held[r].col[c] \in Prints
=============================================================================
