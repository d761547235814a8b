--------------------------- MODULE CelestrakClient ---------------------------
(***************************************************************************)
(* _fetch_and_cache of ingest/celestrak_client.py: look for a landing that *)
(* is still fresh, otherwise ask CelesTrak under the compliance shield and *)
(* land what comes back.  It composes VolumeLedger (the budget check and   *)
(* the recording of bytes) and LandingZone (_write_with_metadata), and     *)
(* adds the cache decision, the conditional request and the answers.       *)
(*                                                                         *)
(* A landing's mtime is kept as the set of landings with an earlier one    *)
(* and as an age in hours, which stops counting once no window is that     *)
(* long.                                                                   *)
(***************************************************************************)
EXTENDS Naturals

CONSTANTS
  Procs, Budget, MaxSize, MaxDay, MaxDownload, MaxLapses,  \* as in VolumeLedger
  Targets, Contents, Names, None,                          \* as in LandingZone
  Ttl,     \* each target's cache window, in hours
  Serves   \* the targets each command fetches

ASSUME ClientAssumption ==
  /\ Budget \in Nat \ {0}
  /\ {MaxSize, MaxDay, MaxDownload, MaxLapses} \subseteq Nat
  /\ None \notin Names \union Targets \union Contents
  /\ Ttl \in [Targets -> Nat \ {0}]
  /\ \E t \in Targets : \A u \in Targets : Ttl[u] <= Ttl[t]
  /\ Serves \in [Procs -> SUBSET Targets]
  /\ Contents \subseteq Nat
  /\ 0 \in Contents

VARIABLES
  day, ledger, phase, stamp, used, pending, downloaded, booked, lapses,
  payload, sidecar, target, content, tag, stage, held,
  upstream,  \* the payload CelesTrak serves for each target
  older,     \* for each landing, those of its target with an earlier mtime
  age,       \* hours since each landing's mtime
  step,      \* where each process is in _fetch_and_cache
  want,      \* the stem each process fetches
  cached,    \* `cached`: the stale landing it found
  etag,      \* `etag`: what it replays as If-None-Match
  answer     \* the response: its content and its ETag header

Ledger == INSTANCE VolumeLedger
Zone == INSTANCE LandingZone

ledgerVars == <<day, ledger, phase, stamp, used, pending, downloaded, booked, lapses>>
zoneVars == <<payload, sidecar, target, content, tag, stage, held>>
clientVars == <<upstream, older, age, step, want, cached, etag, answer>>
vars == <<ledgerVars, zoneVars, clientVars>>

Steps == {"idle", "looked", "asking", "answered", "landing", "touching"}

NoAnswer == [content |-> None, tag |-> None]

Longest == CHOOSE h \in {Ttl[t] : t \in Targets} : \A t \in Targets : Ttl[t] <= h

TypeOK ==
  /\ Ledger!TypeOK
  /\ Zone!ZoneTypeOK
  /\ upstream \in [Targets -> Contents]
  /\ older \in [Names -> SUBSET Names]
  /\ age \in [Names -> 0..Longest]
  /\ step \in [Procs -> Steps]
  /\ want \in [Procs -> Targets \union {None}]
  /\ cached \in [Procs -> Names \union {None}]
  /\ etag \in [Procs -> Contents \union {None}]
  /\ answer \in [Procs -> [content : Contents \union {None}, tag : Contents \union {None}]]

\* The landings that the name pattern of t matches.
LandingsOf(t) == {n \in Zone!Landed : target[n] = t}

\* Slip: min instead of max.
LatestByMin(t) ==
  IF LandingsOf(t) = {} THEN None
  ELSE CHOOSE n \in LandingsOf(t) : \A m \in LandingsOf(t) \ {n} : n \in older[m]

\* _find_latest_landing_file: the landing of t with the greatest mtime.
Latest(t) ==
  IF LandingsOf(t) = {} THEN None
  ELSE CHOOSE n \in LandingsOf(t) : LandingsOf(t) \ {n} \subseteq older[n]

\* _is_cache_fresh on that landing.
HasFresh(t) == Latest(t) # None /\ age[Latest(t)] < Ttl[t]

\* Slip: the newest file is taken for the oldest.
RenewBackwards(t, n) ==
  /\ older' = [m \in Names |-> IF m = n THEN {}
                               ELSE IF m \in LandingsOf(t) THEN older[m] \union {n}
                               ELSE older[m]]
  /\ age' = [age EXCEPT ![n] = 0]

\* Writing or touching n now makes it the newest file of t.
Renew(t, n) ==
  /\ older' = [m \in Names |-> IF m = n THEN LandingsOf(t) \ {n} ELSE older[m] \ {n}]
  /\ age' = [age EXCEPT ![n] = 0]

\* The call is over and its locals are gone.
Return(p) ==
  /\ step' = [step EXCEPT ![p] = "idle"]
  /\ want' = [want EXCEPT ![p] = None]
  /\ cached' = [cached EXCEPT ![p] = None]
  /\ etag' = [etag EXCEPT ![p] = None]
  /\ answer' = [answer EXCEPT ![p] = NoAnswer]

Init ==
  /\ Ledger!Init
  /\ Zone!ZoneInit
  /\ upstream = [t \in Targets |-> 0]
  /\ older = [n \in Names |-> {}]
  /\ age = [n \in Names |-> 0]
  /\ step = [p \in Procs |-> "idle"]
  /\ want = [p \in Procs |-> None]
  /\ cached = [p \in Procs |-> None]
  /\ etag = [p \in Procs |-> None]
  /\ answer = [p \in Procs |-> NoAnswer]

-----------------------------------------------------------------------------
\* A fresh landing is returned as it is, with no request and nothing changed:
\* that is a stuttering step.  Without one, its newest landing's ETag is read.
Miss(p, t) ==
  /\ step[p] = "idle"
  /\ t \in Serves[p]
  /\ ~HasFresh(t)
  /\ step' = [step EXCEPT ![p] = "looked"]
  /\ want' = [want EXCEPT ![p] = t]
  /\ cached' = [cached EXCEPT ![p] = Latest(t)]
  /\ etag' = [etag EXCEPT ![p] = IF Latest(t) = None THEN None ELSE Zone!TagOf(Latest(t))]
  /\ UNCHANGED <<ledgerVars, zoneVars, upstream, older, age, answer>>

\* CelesTrakVolumeBudgetExceeded, before any request.
Halt(p) ==
  /\ step[p] = "looked"
  /\ Ledger!BudgetSpent
  /\ Return(p)
  /\ UNCHANGED <<ledgerVars, zoneVars, upstream, older, age>>

Ask(p) ==
  /\ step[p] = "looked"
  /\ Ledger!Check(p)
  /\ step' = [step EXCEPT ![p] = "asking"]
  /\ UNCHANGED <<zoneVars, upstream, older, age, want, cached, etag, answer>>

\* 200 with a payload; CelesTrak may or may not send an ETag.
AnswerData(p, n) ==
  /\ step[p] = "asking"
  /\ n > 0
  /\ Ledger!Receive(p, n)
  /\ \E e \in {upstream[want[p]], None} :
       answer' = [answer EXCEPT ![p] = [content |-> upstream[want[p]], tag |-> e]]
  /\ step' = [step EXCEPT ![p] = "answered"]
  /\ UNCHANGED <<zoneVars, upstream, older, age, want, cached, etag>>

\* Slip: a body that holds no data is not recorded.
AnswerNoDataUncounted(p, n) ==
  /\ step[p] = "asking"
  /\ phase[p] = "cleared"
  /\ downloaded + n <= MaxDownload
  /\ downloaded' = downloaded + n
  /\ Ledger!Leave(p)
  /\ step' = [step EXCEPT ![p] = "answered"]
  /\ UNCHANGED <<day, ledger, booked, lapses, zoneVars, upstream, older, age, want, cached, etag, answer>>

\* 200 with an empty body or with "No GP data found".
AnswerNoData(p, n) ==
  /\ step[p] = "asking"
  /\ Ledger!Receive(p, n)
  /\ step' = [step EXCEPT ![p] = "answered"]
  /\ UNCHANGED <<zoneVars, upstream, older, age, want, cached, etag, answer>>

\* 304: CelesTrak still serves what the replayed ETag names.
AnswerUnchanged(p) ==
  /\ step[p] = "asking"
  /\ etag[p] # None
  /\ etag[p] = upstream[want[p]]
  /\ Ledger!NotModified(p)
  /\ step' = [step EXCEPT ![p] = "touching"]
  /\ UNCHANGED <<zoneVars, upstream, older, age, want, cached, etag, answer>>

\* CelesTrakFatalError, a timeout or a broken connection.
AnswerFails(p, n) ==
  /\ step[p] = "asking"
  /\ Ledger!LoseAnswer(p, n)
  /\ Return(p)
  /\ UNCHANGED <<zoneVars, upstream, older, age>>

\* _record_downloaded_bytes, in the steps VolumeLedger gives it.
Record(p) ==
  /\ step[p] = "answered"
  /\ Ledger!ReadBack(p) \/ Ledger!Truncate(p) \/ Ledger!Write(p)
  /\ UNCHANGED <<zoneVars, clientVars>>

\* ValueError: the recorded response holds no data.
RejectNoData(p) ==
  /\ step[p] = "answered"
  /\ phase[p] = "idle"
  /\ answer[p].content = None
  /\ Return(p)
  /\ UNCHANGED <<ledgerVars, zoneVars, upstream, older, age>>

\* The recorded response holds data: land it.
Land(p, n) ==
  /\ step[p] = "answered"
  /\ phase[p] = "idle"
  /\ answer[p].content # None
  /\ Zone!OpenPayload(p, n, want[p], answer[p].content, answer[p].tag)
  /\ Renew(want[p], n)
  /\ step' = [step EXCEPT ![p] = "landing"]
  /\ UNCHANGED <<ledgerVars, upstream, want, cached, etag, answer>>

FinishPayload(p) ==
  /\ step[p] = "landing"
  /\ Zone!ClosePayload(p)
  /\ Renew(want[p], held[p])
  /\ UNCHANGED <<ledgerVars, upstream, step, want, cached, etag, answer>>

StartSidecar(p) ==
  /\ step[p] = "landing"
  /\ Zone!OpenSidecar(p)
  /\ UNCHANGED <<ledgerVars, clientVars>>

FinishSidecar(p) ==
  /\ step[p] = "landing"
  /\ Zone!CloseSidecar(p)
  /\ Return(p)
  /\ UNCHANGED <<ledgerVars, upstream, older, age>>

\* cached.touch() after a 304 opens a new window for the same bytes.
Touch(p) ==
  /\ step[p] = "touching"
  /\ Renew(want[p], cached[p])
  /\ Return(p)
  /\ UNCHANGED <<ledgerVars, zoneVars, upstream>>

\* The command is killed; its files and the ledger stay as they are.
Kill(p) ==
  /\ step[p] # "idle"
  /\ IF phase[p] # "idle" THEN Ledger!Crash(p) ELSE UNCHANGED ledgerVars
  /\ IF stage[p] # "idle" THEN Zone!Abandon(p) ELSE UNCHANGED zoneVars
  /\ Return(p)
  /\ UNCHANGED <<upstream, older, age>>

\* An hour passes.
Tick ==
  /\ age' = [n \in Names |-> IF n \in Zone!Landed /\ age[n] < Longest THEN age[n] + 1 ELSE age[n]]
  /\ UNCHANGED <<ledgerVars, zoneVars, upstream, older, step, want, cached, etag, answer>>

\* CelesTrak publishes the next payload of t.
Publish(t) ==
  /\ upstream[t] + 1 \in Contents
  /\ upstream' = [upstream EXCEPT ![t] = @ + 1]
  /\ UNCHANGED <<ledgerVars, zoneVars, older, age, step, want, cached, etag, answer>>

NewDay == Ledger!Midnight /\ UNCHANGED <<zoneVars, clientVars>>

ClientStep(p) ==
  \/ Halt(p) \/ Ask(p) \/ AnswerUnchanged(p) \/ Record(p) \/ RejectNoData(p)
  \/ FinishPayload(p) \/ StartSidecar(p) \/ FinishSidecar(p) \/ Touch(p) \/ Kill(p)
  \/ \E t \in Targets : Miss(p, t)
  \/ \E n \in 0..MaxSize : AnswerData(p, n) \/ AnswerNoData(p, n) \/ AnswerFails(p, n)
  \/ \E n \in Names : Land(p, n)

Next ==
  \/ Tick \/ NewDay
  \/ \E t \in Targets : Publish(t)
  \/ \E p \in Procs : ClientStep(p)

Spec == Init /\ [][Next]_vars

-----------------------------------------------------------------------------
\* Below the cache decision the ledger and the landing zone behave as they do alone: no
\* answer, 304, touch or kill of a whole fetch takes either through a step of its own
\* that their modules do not have (celestrak_client.py:245-319, 411-442).
KeepsTheParts == Ledger!Spec /\ Zone!ZoneSpec

\* A conditional request names exactly the bytes it would revalidate: the stale
\* landing is whole, of the same target, and holds the content its ETag stands
\* for, so a 304 never extends the life of a fragment (celestrak_client.py:416-426).
RevalidatesWholePayload ==
  \A p \in Procs : etag[p] # None =>
    /\ cached[p] \in Zone!Landed
    /\ payload[cached[p]] = "complete"
    /\ content[cached[p]] = etag[p]
    /\ target[cached[p]] = want[p]

\* While each target has one command fetching it, nothing is asked or about to be
\* asked for a target while any landing of it is inside its window, kills, retries
\* and 304s included (celestrak_client.py:411-428; DAG docstring, line 14).
NoRequestWhileFresh ==
  \A p \in Procs : step[p] \in {"looked", "asking", "answered", "touching"} =>
    \A n \in Zone!Landed : target[n] = want[p] => age[n] >= Ttl[want[p]]

\* While each target has one command fetching it, the landing that the next look
\* will find is the newest content ever landed of its target: a 304 that touches an
\* old landing never hides a later one (celestrak_client.py:110-129, 422-426).
LatestIsNewest ==
  \A t \in Targets : \A n \in Zone!Landed :
    target[n] = t => content[n] <= content[Latest(t)]
=============================================================================
