----------------------------- MODULE LandingZone -----------------------------
(***************************************************************************)
(* The bronze landing zone: _write_with_metadata of                        *)
(* ingest/celestrak_client.py, which lands one payload under a fresh name  *)
(* and then writes the .meta.json sidecar that makes it attributable.      *)
(* Neither file is written atomically: each exists from the moment it is   *)
(* opened, and a kill leaves whatever had been written.                    *)
(***************************************************************************)

CONSTANTS
  Procs,     \* the running commands
  Targets,   \* the stems landed: a group, a NORAD ID, the SATCAT
  Contents,  \* the payloads the upstream serves; a payload's ETag is its content
  Names,     \* the landing names (timestamp and uuid4), never used twice
  None       \* no name, no target, no content, no ETag

ASSUME LandingAssumption == None \notin Names \union Targets \union Contents

VARIABLES
  payload,  \* the landed file of each name
  sidecar,  \* its .meta.json
  target,   \* the stem in the name
  content,  \* what the payload holds, or will hold once complete
  tag,      \* the "etag" entry of the sidecar
  stage,    \* where each process is in _write_with_metadata
  held      \* the name each process is writing

zoneVars == <<payload, sidecar, target, content, tag, stage, held>>

FileStates == {"absent", "partial", "complete"}

Stages == {"idle", "payload", "sidecar", "seal"}

ZoneTypeOK ==
  /\ payload \in [Names -> FileStates]
  /\ sidecar \in [Names -> FileStates]
  /\ target \in [Names -> Targets \union {None}]
  /\ content \in [Names -> Contents \union {None}]
  /\ tag \in [Names -> Contents \union {None}]
  /\ stage \in [Procs -> Stages]
  /\ held \in [Procs -> Names \union {None}]

Landed == {n \in Names : payload[n] # "absent"}

\* The landings whose sidecar parses.
Sealed == {n \in Names : sidecar[n] = "complete"}

\* Slip: the ETag is taken from a sidecar that does not parse yet.
TagOfUnsealed(n) == tag[n]

\* _read_sidecar(path).get("etag"): a missing or malformed sidecar has no tag.
TagOf(n) == IF n \in Sealed THEN tag[n] ELSE None

ZoneInit ==
  /\ payload = [n \in Names |-> "absent"]
  /\ sidecar = [n \in Names |-> "absent"]
  /\ target = [n \in Names |-> None]
  /\ content = [n \in Names |-> None]
  /\ tag = [n \in Names |-> None]
  /\ stage = [p \in Procs |-> "idle"]
  /\ held = [p \in Procs |-> None]

\* path.write_bytes opens a file nobody has used before ...
OpenPayload(p, n, t, c, e) ==
  /\ stage[p] = "idle"
  /\ n \notin Landed
  /\ payload' = [payload EXCEPT ![n] = "partial"]
  /\ target' = [target EXCEPT ![n] = t]
  /\ content' = [content EXCEPT ![n] = c]
  /\ tag' = [tag EXCEPT ![n] = e]
  /\ stage' = [stage EXCEPT ![p] = "payload"]
  /\ held' = [held EXCEPT ![p] = n]
  /\ UNCHANGED sidecar

\* ... and has written all of it when it returns.
ClosePayload(p) ==
  /\ stage[p] = "payload"
  /\ payload' = [payload EXCEPT ![held[p]] = "complete"]
  /\ stage' = [stage EXCEPT ![p] = "sidecar"]
  /\ UNCHANGED <<sidecar, target, content, tag, held>>

\* Slip: the sidecar may come first.
OpenSidecarEarly(p) ==
  /\ stage[p] \in {"payload", "sidecar"}
  /\ sidecar' = [sidecar EXCEPT ![held[p]] = "partial"]
  /\ stage' = [stage EXCEPT ![p] = "seal"]
  /\ UNCHANGED <<payload, target, content, tag, held>>

\* Only then is the sidecar opened ...
OpenSidecar(p) ==
  /\ stage[p] = "sidecar"
  /\ sidecar' = [sidecar EXCEPT ![held[p]] = "partial"]
  /\ stage' = [stage EXCEPT ![p] = "seal"]
  /\ UNCHANGED <<payload, target, content, tag, held>>

\* ... and written, and the path returned.
CloseSidecar(p) ==
  /\ stage[p] = "seal"
  /\ sidecar' = [sidecar EXCEPT ![held[p]] = "complete"]
  /\ stage' = [stage EXCEPT ![p] = "idle"]
  /\ held' = [held EXCEPT ![p] = None]
  /\ UNCHANGED <<payload, target, content, tag>>

\* The process is killed, or a write raises: the files stay as they are.
Abandon(p) ==
  /\ stage[p] # "idle"
  /\ stage' = [stage EXCEPT ![p] = "idle"]
  /\ held' = [held EXCEPT ![p] = None]
  /\ UNCHANGED <<payload, sidecar, target, content, tag>>

ZoneStep(p) ==
  \/ ClosePayload(p) \/ OpenSidecar(p) \/ CloseSidecar(p) \/ Abandon(p)
  \/ \E n \in Names, t \in Targets, c \in Contents, e \in Contents \union {None} :
       /\ e \in {c, None}
       /\ OpenPayload(p, n, t, c, e)

ZoneNext == \E p \in Procs : ZoneStep(p)

ZoneSpec == ZoneInit /\ [][ZoneNext]_zoneVars

-----------------------------------------------------------------------------
\* A sidecar exists only beside a payload that was written to its end, so a kill
\* between the two writes can leave an orphan but never a sealed fragment: what
\* can be attributed can be trusted (celestrak_client.py:303-317).
SealedIsComplete ==
  \A n \in Names : sidecar[n] # "absent" => payload[n] = "complete"

\* Repeated ingestions of the same stem never overwrite each other: from the moment
\* a name exists, what it stands for is fixed, and its files only get more complete,
\* whoever is writing and whoever is killed (celestrak_client.py:276-284).
NeverOverwritten ==
  [][\A n \in Landed :
       /\ <<target[n], content[n], tag[n]>>' = <<target[n], content[n], tag[n]>>
       /\ payload[n] = "complete" => payload'[n] = "complete"
       /\ payload'[n] # "absent"
       /\ n \in Sealed => sidecar'[n] = "complete"]_zoneVars
=============================================================================
