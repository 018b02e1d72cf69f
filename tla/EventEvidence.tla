---------------------------- MODULE EventEvidence ----------------------------
(***************************************************************************)
(* What klue reads out of the warning events of a pod: to which pod they   *)
(* belong, whether they are recent and what they are about                 *)
(* (src/internal/evidence/event_index.go, event_time.go,                   *)
(* event_patterns.go). All events here carry the name of the one pod under *)
(* consideration and are warnings; others are never looked at.             *)
(*                                                                         *)
(* An event has the UID of the pod it is about, a reason, the phrases its  *)
(* message contains (says), the container and the image its message names  *)
(* and the time it was last seen, which may be missing. Names are equal if *)
(* they differ in upper and lower case only.                               *)
(***************************************************************************)
EXTENDS Integers

CONSTANTS
  EventWindow,      \* --event-window
  NoContainer,      \* the message names no container
  NoImage           \* the message, or the status, names no image

ASSUME EventWindowAssumption == EventWindow \in Int

\* A zero time stamp sorts before all others.
Unstamped == -1

\* The events of the pod with this UID, or else those of its name.
For(events, uid) ==
  LET own == {e \in events : e.uid = uid}
  IN  IF own # {} THEN own ELSE events

\* Mutant of WithinEventWindow: a window that is open at its old end.
EverRelevant(e, now) == TRUE

WithinEventWindow(e, now) ==
  \/ EventWindow <= 0
  \/ e.time = Unstamped
  \/ now - e.time <= EventWindow

\* Mutant of WarningEvents: only the newest event is looked at.
LatestOnly(events, uid, now) ==
  {e \in For(events, uid) : /\ WithinEventWindow(e, now)
                            /\ \A f \in For(events, uid) : f.time <= e.time}

WarningEvents(events, uid, now) == {e \in For(events, uid) : WithinEventWindow(e, now)}

isImagePullEvent(e) ==
  \/ e.reason = "FailedToRetrieveImagePullSecret"
  \/ e.says \cap {"pull image", "imagepullbackoff", "errimagepull"} # {}

isProbeEvent(e) == e.reason = "Unhealthy" /\ e.says \cap {"probe", "health"} # {}

isMountEvent(e) ==
  \/ e.reason \in {"FailedMount", "FailedAttachVolume", "FailedMapVolume"}
  \/ e.says \cap {"mountvolume", "failed to mount"} # {}

\* ParseWarningEventSignal: the first test that applies decides.
Category(e) ==
  CASE isImagePullEvent(e) -> "image-pull"
    [] ~isImagePullEvent(e) /\ isProbeEvent(e) -> "probe"
    [] ~isImagePullEvent(e) /\ e.reason = "FailedScheduling" -> "scheduling"
    [] ~isImagePullEvent(e) /\ ~isProbeEvent(e) /\ e.reason # "FailedScheduling"
         /\ isMountEvent(e) -> "mount"
    [] OTHER -> IF e.reason = "ProvisioningFailed" THEN "provisioning" ELSE "generic"

\* The container an event names; only these two categories take one over.
Names(e) == IF Category(e) \in {"image-pull", "probe"} THEN e.container ELSE NoContainer

NamesNoOther(e, container) == Names(e) \in {NoContainer, container}

\* Mutant of ImagesAgree: a message has to name the image.
ImageNamed(e, image) == e.image = image

\* The names are compared as they are written: another spelling of the same
\* image is another image.
ImagesAgree(e, image) == NoImage \in {e.image, image} \/ e.image = image

MatchImagePullEvent(e, container, image) ==
  Category(e) = "image-pull" /\ NamesNoOther(e, container) /\ ImagesAgree(e, image)

MatchProbeEvent(e, container) == Category(e) = "probe" /\ NamesNoOther(e, container)

MatchWaitingContainerEvent(e, container, reason) ==
  /\ NamesNoOther(e, container)
  /\ CASE reason \in {"ImagePullBackOff", "ErrImagePull"} -> Category(e) = "image-pull"
       [] reason \in {"CreateContainerConfigError", "CreateContainerError",
                      "RunContainerError"} ->
            Category(e) \in {"mount", "generic", "provisioning"}
       [] OTHER -> Category(e) = "generic"

\* LatestWarningEvent tests the events from the newest to the oldest, so it has
\* a result if any of those with one of the reasons passes the test of the rule.
WithReason(events, reasons) == {e \in events : e.reason \in reasons}

=============================================================================
