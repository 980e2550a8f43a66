------------------------------- MODULE PaidCalls -------------------------------
(***************************************************************************)
(* The routes that call OpenAI and wait: narrations and speech             *)
(* (app/voice/router.py and tts_client.py, with its audio cache) and the   *)
(* upload of a bet slip's image (evaluate_from_image in                    *)
(* app/routers/leading_light.py, with its sliding window of uploads).      *)
(* Requests overlap: all of them run on one event loop, which turns to     *)
(* another request only while one waits for the upload or for the API.     *)
(* Every call is recorded by CostTracker.tla; the evaluation of the text   *)
(* read in an image is the one of LeadingLight.tla.                        *)
(***************************************************************************)
EXTENDS LeadingLight, CostTracker

CONSTANTS
  Slots,      \* requests under way at the same time
  Clients,    \* addresses images are uploaded from
  Narrations, \* case name as a client may spell it -> the text of the case
  Uploads,    \* [image: is the content type one, large: over 5 MB]
  ImageTexts, \* the texts read in images
  CacheTtl, UploadWindow, UploadLimit,
  MaxCalls,   \* bound: calls recorded or under way
  MaxGrants,  \* bound: uploads charged to a client
  MaxTime

PaidCodes ==
  {"AUDIO", "SERVICE_DISABLED", "SERVICE_MISCONFIGURED", "VOICE_ACCESS_DENIED", "NOT_FOUND",
   "TTS_API_ERROR", "INTERNAL_ERROR", "FEATURE_DISABLED", "RATE_LIMITED", "INVALID_FILE_TYPE",
   "FILE_TOO_LARGE", "IMAGE_PARSE_NOT_CONFIGURED", "VISION_API_REQUEST_ERROR",
   "VISION_API_ERROR", "VISION_PARSE_ERROR", "PARSE_ERROR", "NOT_A_BET_SLIP"}

ASSUME PaidAssumption ==
  /\ CacheTtl \in Nat /\ UploadWindow \in Nat \ {0} /\ UploadLimit \in Nat
  /\ {"tts", "vision"} = Endpoints
  /\ IsFiniteSet(Slots) /\ IsFiniteSet(Clients)
  /\ None \notin DOMAIN Narrations \cup PaidCodes

VARIABLES
  now,
  requests, \* slot -> Idle or the request under way
  audio,    \* _audio_cache: [case, text] -> time of its generation
  uploads,  \* _image_upload_requests: client -> the uploads whose times are
            \* listed, as positions in granted
  issued,   \* history: endpoint -> calls sent
  granted   \* history: client -> times of all uploads charged

paidVars == <<now, requests, audio, uploads, issued, granted, costVars>>

Idle == [pc |-> "idle"]

PaidInit ==
  /\ LightInit /\ CostInit
  /\ now = 0 /\ requests = [s \in Slots |-> Idle] /\ audio = <<>>
  /\ uploads = [c \in Clients |-> {}]
  /\ issued = [e \in Endpoints |-> 0] /\ granted = [c \in Clients |-> <<>>]

Recorded == counters["tts"].total + counters["vision"].total
Busy == Cardinality({s \in Slots : requests[s] # Idle})

Ready(s) == requests[s] = Idle /\ Recorded + Busy < MaxCalls

\* The slot's request is answered.
Finish(s) == requests' = [requests EXCEPT ![s] = Idle]
Refuse(route, status, code) ==
  answer' = [to |-> [route |-> route, plan |-> None], reply |-> Refused(status, code)]
  /\ UNCHANGED flags

-----------------------------------------------------------------------------
(* The audio cache.                                                        *)

\* Mutant: the age is compared the wrong way round.
MutFresh(key) == now - audio[key] > CacheTtl

Fresh(key) == now - audio[key] <= CacheTtl
Cached(key) == key \in DOMAIN audio /\ Fresh(key)

\* A lookup drops the entry it finds expired.
GetCachedAudio(key) ==
  audio' = IF key \in DOMAIN audio /\ ~Fresh(key)
           THEN [k \in DOMAIN audio \ {key} |-> audio[k]] ELSE audio

SetCachedAudio(key) == audio' = [k \in DOMAIN audio \cup {key} |-> IF k = key THEN now ELSE audio[k]]

-----------------------------------------------------------------------------
(* Speech.                                                                 *)

VoiceAllowed(plan) == flags.override \/ ParsePlan(plan) = "best"

Call(endpoint, ok, cached, what) ==
  [endpoint |-> endpoint, success |-> ok, cached |-> cached, at |-> now, what |-> what]

Send(s, endpoint, request) ==
  /\ issued' = [issued EXCEPT ![endpoint] = @ + 1]
  /\ requests' = [requests EXCEPT ![s] = request]

\* generate_speech up to the call of the API.
GenerateSpeech(s, key, route) ==
  IF ~flags.voice
  THEN Refuse(route, 503, "SERVICE_DISABLED") /\ UNCHANGED <<issued, requests>>
  ELSE IF ~flags.key
  THEN Refuse(route, 503, "SERVICE_MISCONFIGURED") /\ UNCHANGED <<issued, requests>>
  ELSE /\ Send(s, "tts", [pc |-> "speaking", route |-> route, key |-> key])
       /\ UNCHANGED lightVars

KeyOf(case) == [case |-> case, text |-> Narrations[case]]

\* What is not for a narration.
NoNarration == [case |-> None, text |-> None]

GetDemoNarration(s, case, plan) ==
  /\ Ready(s)
  /\ IF ~VoiceAllowed(plan) \/ case \notin DOMAIN Narrations
     THEN /\ IF ~VoiceAllowed(plan) THEN Refuse("narration", 403, "VOICE_ACCESS_DENIED")
             ELSE Refuse("narration", 404, "NOT_FOUND")
          /\ UNCHANGED <<requests, audio, issued, costVars>>
     ELSE LET key == KeyOf(case)
          IN  /\ GetCachedAudio(key)
              /\ IF Cached(key)
                 THEN /\ RecordApiCall(Call("tts", TRUE, TRUE, key))
                      /\ Refuse("narration", 200, "AUDIO")
                      /\ UNCHANGED <<requests, issued>>
                 ELSE GenerateSpeech(s, key, "narration") /\ UNCHANGED costVars
  /\ UNCHANGED <<now, uploads, granted>>

\* POST /voice/tts never looks in the cache.
TextToSpeech(s, plan) ==
  /\ Ready(s)
  /\ IF ~VoiceAllowed(plan)
     THEN Refuse("tts", 403, "VOICE_ACCESS_DENIED") /\ UNCHANGED <<issued, requests>>
     ELSE GenerateSpeech(s, NoNarration, "tts")
  /\ UNCHANGED <<now, audio, uploads, granted, costVars>>

\* The call is recorded however it ends; an exception goes by without a code.
Spoken(s, outcome) ==
  LET r == requests[s]
      ok == outcome = "ok"
  IN  /\ r.pc = "speaking"
      /\ RecordApiCall(Call("tts", ok, FALSE, r.key))
      /\ IF ok /\ r.route = "narration" THEN SetCachedAudio(r.key) ELSE UNCHANGED audio
      /\ CASE ok -> Refuse(r.route, 200, "AUDIO")
           [] outcome = "http_error" -> Refuse(r.route, 502, "TTS_API_ERROR")
           [] outcome = "exception" -> Refuse(r.route, 500, "INTERNAL_ERROR")
      /\ Finish(s)
      /\ UNCHANGED <<now, uploads, issued, granted>>

-----------------------------------------------------------------------------
(* Images.                                                                 *)

\* Mutant: an upload on the edge of the window is forgotten a tick too early.
MutInWindow(c) == {n \in uploads[c] : now - granted[c][n] < UploadWindow - 1}

InWindow(c) == {n \in uploads[c] : now - granted[c][n] < UploadWindow}

\* The upload is charged before anything of it is looked at.
EvaluateFromImage(s, c, upload, plan) ==
  /\ Ready(s) /\ Len(granted[c]) < MaxGrants
  /\ IF ~flags.enabled
     THEN Refuse("image", 503, "FEATURE_DISABLED") /\ UNCHANGED <<requests, uploads, granted>>
     ELSE IF Cardinality(InWindow(c)) >= UploadLimit
     THEN /\ uploads' = [uploads EXCEPT ![c] = InWindow(c)]
          /\ Refuse("image", 429, "RATE_LIMITED")
          /\ UNCHANGED <<requests, granted>>
     ELSE /\ uploads' = [uploads EXCEPT ![c] = InWindow(c) \cup {Len(granted[c]) + 1}]
          /\ granted' = [granted EXCEPT ![c] = Append(@, now)]
          /\ IF ~upload.image
             THEN Refuse("image", 400, "INVALID_FILE_TYPE") /\ UNCHANGED requests
             ELSE /\ requests' = [requests EXCEPT ![s] =
                       [pc |-> "reading", large |-> upload.large, plan |-> plan]]
                  /\ UNCHANGED lightVars
  /\ UNCHANGED <<now, audio, issued, costVars>>

\* _parse_bet_slip_image up to the call of the API.
SendVision(s, plan) == Send(s, "vision", [pc |-> "seeing", plan |-> plan])

ImageRead(s) ==
  LET r == requests[s]
  IN  /\ r.pc = "reading"
      /\ IF r.large
         THEN Refuse("image", 413, "FILE_TOO_LARGE") /\ Finish(s) /\ UNCHANGED issued
         ELSE IF ~flags.key
         THEN /\ Refuse("image", 503, "IMAGE_PARSE_NOT_CONFIGURED")
              /\ Finish(s) /\ UNCHANGED issued
         ELSE SendVision(s, r.plan) /\ UNCHANGED lightVars
      /\ UNCHANGED <<now, audio, uploads, granted, costVars>>

\* Mutant: an exception of the call is not recorded.
MutSeen(s, outcome) ==
  LET r == requests[s]
  IN  /\ r.pc = "seeing"
      /\ IF outcome = "exception" THEN UNCHANGED costVars
         ELSE RecordApiCall(Call("vision", outcome # "http_error", FALSE, NoNarration))
      /\ Refuse("image", 500, "VISION_API_ERROR")
      /\ Finish(s)
      /\ UNCHANGED <<now, audio, uploads, issued, granted>>

\* The API answered: a text, no bet slip, JSON of another shape, no JSON at all,
\* or an error.
Seen(s, outcome) ==
  LET r == requests[s]
  IN  /\ r.pc = "seeing"
      /\ RecordApiCall(Call("vision", outcome \notin {"http_error", "exception"}, FALSE, NoNarration))
      /\ CASE outcome = "exception" -> Refuse("image", 500, "VISION_API_REQUEST_ERROR")
           [] outcome = "http_error" -> Refuse("image", 500, "VISION_API_ERROR")
           [] outcome = "no_json" -> Refuse("image", 400, "PARSE_ERROR")
           [] outcome = "other_json" -> Refuse("image", 500, "VISION_PARSE_ERROR")
           [] outcome = "no_slip" -> Refuse("image", 400, "NOT_A_BET_SLIP")
           [] OTHER -> \E t \in ImageTexts :
                Reply([route |-> "image", text |-> t, plan |-> r.plan], EvaluateText(t, r.plan))
      /\ Finish(s)
      /\ UNCHANGED <<now, audio, uploads, issued, granted>>

-----------------------------------------------------------------------------
(* The system.                                                             *)

\* Bound: the routes that neither wait nor keep anything are asked only while
\* nothing else has happened, and the others only where those were not.
Untouched == now = 0 /\ Busy = 0 /\ Recorded = 0 /\ \A c \in Clients : granted[c] = <<>>
Apart == answer # None => answer.to.route \in {"narration", "tts", "image"}

Tick == Apart /\ now < MaxTime /\ now' = now + 1
        /\ UNCHANGED <<requests, audio, uploads, issued, granted, costVars, lightVars>>

PaidNext ==
  \/ Untouched /\ LightNext /\ UNCHANGED paidVars
  \/ Apart /\ \E s \in Slots, plan \in {"good", "best"} :
       \/ \E case \in DOMAIN Narrations \cup {"unknown"} : GetDemoNarration(s, case, plan)
       \/ TextToSpeech(s, plan)
       \/ \E c \in Clients, upload \in Uploads : EvaluateFromImage(s, c, upload, plan)
  \/ \E s \in Slots :
       \/ \E outcome \in {"ok", "http_error", "exception"} : Spoken(s, outcome)
       \/ ImageRead(s)
       \/ \E outcome \in {"text", "no_slip", "other_json", "no_json", "http_error", "exception"} :
            Seen(s, outcome)
  \/ Tick

PaidSpec == PaidInit /\ [][PaidNext]_<<paidVars, lightVars>>

-----------------------------------------------------------------------------
(* Properties.                                                             *)

InFlight(e) ==
  Cardinality({s \in Slots : requests[s].pc = IF e = "tts" THEN "speaking" ELSE "seeing"})

\* Nothing is paid for that the tracker does not know: the calls sent to an API
\* are the ones counted, without those the cache served, and those under way,
\* through every error path; and the summary the metrics route gives, taken from
\* the capped list, is the counters' until the cap is reached, never more.
LedgerComplete ==
  \A e \in Endpoints :
    /\ issued[e] + counters[e].cached = counters[e].total + InFlight(e)
    /\ Recorded <= MaxRecords => GetSummary(e, 0) = counters[e]
    /\ \A f \in {"total", "success", "failed", "cached"} : GetSummary(e, 0)[f] <= counters[e][f]
    /\ Recorded > MaxRecords => Len(records) = MaxRecords
    /\ \A i \in Of(e) : records[i].at <= GetRecentCalls(1, e)[1].at

\* The calls paid for a narration in a time to live.
PaidFor(key, from) ==
  {i \in DOMAIN records :
     /\ records[i].what = key /\ records[i].success /\ ~records[i].cached
     /\ records[i].at \in from..from + CacheTtl}

\* The lookup and the filling of the cache are an await apart, so requests for
\* one narration may pay more than once: but in a time to live never more than
\* all of them at once, for each spelling of the case.
PaidOnce ==
  \A case \in DOMAIN Narrations, t \in 0..now :
    Cardinality(PaidFor(KeyOf(case), t)) <= Cardinality(Slots)

\* The uploads of all clients.
Charged == UNION {{c} \X DOMAIN granted[c] : c \in Clients}

\* No window of time holds more uploads of a client than the limit, though the
\* list that decides it is trimmed only when the client comes back; and every
\* call of the vision API was charged to somebody.
UploadsBounded ==
  /\ \A c \in Clients, t \in 0..now :
       Cardinality({n \in DOMAIN granted[c] : granted[c][n] \in t..t + UploadWindow - 1})
         <= UploadLimit
  /\ issued["vision"] + Cardinality({s \in Slots : requests[s].pc = "reading"})
       <= Cardinality(Charged)
=============================================================================
