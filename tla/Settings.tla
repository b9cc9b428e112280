-------------------------------- MODULE Settings --------------------------------
(***************************************************************************)
(* POST /settings on one device (internal/server/settings.go) and what it    *)
(* does on each platform (internal/sim/settings.go, internal/emu/settings.go *)
(* ): the parts of a request are applied in turn, by requests that may run   *)
(* at once, each stopping at its first failure.  A location is also a step   *)
(* of a recording under way.                                                 *)
(***************************************************************************)
EXTENDS Naturals, Sequences

CONSTANTS
  Setter,
  Declared,   \* the runtime permissions the app's manifest declares
  NameLists   \* the lists of permissions a request may name

VARIABLES
  platform,   \* of the device
  request,    \* what each handler was asked: its parts in order
  left,       \* the parts it has yet to apply
  covers,     \* the permissions of the part under way not gone over yet
  applied,    \* the parts it would answer as applied
  answer,     \* "none", "asked" while it runs, "ok", "refused", or "failed"
  device,     \* what holds on the device: the last value of each setting, and whose
  did,        \* the settings each handler changed, and for which of its parts
  places      \* the locations recorded

setVars == <<platform, request, left, covers, applied, answer, device, did, places>>

(* The names of permissions a test may ask for: one both platforms have, of  *)
(* two Android permissions; one of Android's; one of neither.                *)
Names == {"photos", "camera", "hotspot"}
Covers == [n \in Names |-> CASE n = "photos" -> {"READ_MEDIA_IMAGES", "READ_EXTERNAL_STORAGE"}
                             [] n = "camera" -> {"CAMERA"}
                             [] OTHER -> {}]
Known(p) == IF p = "android" THEN {"photos", "camera"} ELSE {"photos"}

ASSUME NameListsAssumption == NameLists \subseteq Seq(Names)

(* A part: the appearance, the location, or a permission, and its value;     *)
(* a value no device takes is "odd".                                         *)
Part(what, value) == [what |-> what, value |-> value]
PermissionSteps(names, verb) == [i \in DOMAIN names |-> Part(names[i], verb)]

(* What may be asked: any subset of appearance, location, permissions to     *)
(* grant and permissions to revoke, in this order (applySettings); a name    *)
(* may be in both lists, and more than once in each.                         *)
SettingsRequests ==
  {a \o l \o PermissionSteps(g, "grant") \o PermissionSteps(r, "revoke") :
     a \in {<<>>, <<Part("appearance", "dark")>>, <<Part("appearance", "odd")>>},
     l \in {<<>>, <<Part("location", "home")>>}, g \in NameLists, r \in NameLists}

(* validate: what could not be applied as a whole is refused.  The names of  *)
(* the permissions are not looked at.                                        *)
Valid(parts) == parts # <<>> /\ \A i \in DOMAIN parts : parts[i].value # "odd"

SetInit ==
  /\ platform \in {"ios", "android"}
  /\ request = [h \in Setter |-> <<>>] /\ left = request
  /\ covers = [h \in Setter |-> {}]
  /\ applied = [h \in Setter |-> <<>>]
  /\ answer = [h \in Setter |-> "none"]
  /\ device = {} /\ did = [h \in Setter |-> {}] /\ places = <<>>

-----------------------------------------------------------------------------
NextPart(h) == Head(left[h])
IsPermission(part) == part.what \in Names

(* A setting changed for the part under way, the next after those applied.   *)
Now(h, setting) == [at |-> Len(applied[h]) + 1, what |-> setting.what, value |-> setting.value]
Did(h, setting) == Now(h, setting) \in did[h]

(* What the device is told: an iOS service is a permission of its own.       *)
Change(h, setting) ==
  /\ device' = {s \in device : s.what # setting.what}
                 \cup {[what |-> setting.what, value |-> setting.value, by |-> h]}
  /\ did' = [did EXCEPT ![h] = @ \cup {Now(h, setting)}]

PartDone(h) ==
  /\ left' = [left EXCEPT ![h] = Tail(@)]
  /\ applied' = [applied EXCEPT ![h] = Append(@, NextPart(h))]

AskSettings(h, parts) ==
  /\ answer[h] = "none"
  /\ request' = [request EXCEPT ![h] = parts]
  /\ IF Valid(parts) THEN /\ left' = [left EXCEPT ![h] = parts]
                          /\ answer' = [answer EXCEPT ![h] = "asked"]
     ELSE answer' = [answer EXCEPT ![h] = "refused"] /\ UNCHANGED left
  /\ UNCHANGED <<platform, covers, applied, device, did, places>>

(* A tool of the platform fails; the recorder does not.                      *)
ToolFails(h) ==
  /\ answer[h] = "asked" /\ left[h] # <<>>
  /\ ~(NextPart(h).what = "location" /\ Did(h, NextPart(h)))
  /\ answer' = [answer EXCEPT ![h] = "failed"]
  /\ UNCHANGED <<platform, request, left, covers, applied, device, did, places>>

SetAppearance(h) ==
  /\ answer[h] = "asked" /\ left[h] # <<>> /\ NextPart(h).what = "appearance"
  /\ Change(h, NextPart(h)) /\ PartDone(h)
  /\ UNCHANGED <<platform, request, covers, answer, places>>

(* setLocation: the device first, then the recorder, by itself.              *)
SetLocation(h) ==
  /\ answer[h] = "asked" /\ left[h] # <<>> /\ NextPart(h).what = "location"
  /\ ~Did(h, NextPart(h))
  /\ Change(h, NextPart(h))
  /\ UNCHANGED <<platform, request, left, covers, applied, answer, places>>

OnLocation(h) ==
  /\ answer[h] = "asked" /\ left[h] # <<>> /\ NextPart(h).what = "location"
  /\ Did(h, NextPart(h))
  /\ places' = Append(places, NextPart(h).value) /\ PartDone(h)
  /\ UNCHANGED <<platform, request, covers, answer, device, did>>

SimPermission(h) ==
  /\ platform = "ios" /\ answer[h] = "asked" /\ left[h] # <<>>
  /\ NextPart(h).what \in Known("ios")
  /\ Change(h, NextPart(h)) /\ PartDone(h)
  /\ UNCHANGED <<platform, request, covers, answer, places>>

(* A name the platform does not have.                                        *)
Unknown(h) ==
  /\ answer[h] = "asked" /\ left[h] # <<>> /\ IsPermission(NextPart(h))
  /\ NextPart(h).what \notin Known(platform)
  /\ answer' = [answer EXCEPT ![h] = "failed"]
  /\ UNCHANGED <<platform, request, left, covers, applied, device, did, places>>

(* declaredPermissions: pm grant exits 0 for a permission the app does not   *)
(* declare, so those it does are read first.                                 *)
Asks(h) == answer[h] = "asked" /\ left[h] # <<>> /\ platform = "android"
           /\ NextPart(h).what \in Known("android")
Of(h) == Covers[NextPart(h).what] \cap Declared
Begun(h) == covers[h] # {}

(* Mutant: that the app declares none of them goes unnoticed.                *)
ReadDeclaredNone(h) ==
  /\ Asks(h) /\ ~Begun(h)
  /\ IF Of(h) = {} THEN PartDone(h) /\ UNCHANGED <<covers, answer>>
     ELSE covers' = [covers EXCEPT ![h] = Of(h)] /\ UNCHANGED <<left, applied, answer>>
  /\ UNCHANGED <<platform, request, device, did, places>>

ReadDeclared(h) ==
  /\ Asks(h) /\ ~Begun(h)
  /\ IF Of(h) = {}
     THEN answer' = [answer EXCEPT ![h] = "failed"] /\ UNCHANGED covers
     ELSE covers' = [covers EXCEPT ![h] = Of(h)] /\ UNCHANGED answer
  /\ UNCHANGED <<platform, request, left, applied, device, did, places>>

(* applyDeclared: one pm grant or revoke for each, in an order nothing here  *)
(* depends on.                                                               *)
ApplyDeclared(h, p) ==
  /\ Asks(h) /\ p \in covers[h]
  /\ Change(h, Part(p, NextPart(h).value))
  /\ covers' = [covers EXCEPT ![h] = @ \ {p}]
  /\ IF covers[h] = {p} THEN PartDone(h) ELSE UNCHANGED <<left, applied>>
  /\ UNCHANGED <<platform, request, answer, places>>

AnswersOk(h) ==
  /\ answer[h] = "asked" /\ left[h] = <<>>
  /\ answer' = [answer EXCEPT ![h] = "ok"]
  /\ UNCHANGED <<platform, request, left, covers, applied, device, did, places>>

SetNext ==
  \E h \in Setter :
    \/ \E parts \in SettingsRequests : AskSettings(h, parts)
    \/ ToolFails(h) \/ SetAppearance(h) \/ SetLocation(h) \/ OnLocation(h)
    \/ SimPermission(h) \/ Unknown(h) \/ ReadDeclared(h) \/ AnswersOk(h)
    \/ \E p \in Declared : ApplyDeclared(h, p)

SetSpec == SetInit /\ [][SetNext]_setVars

-----------------------------------------------------------------------------
(* What a part asks of the device, on its platform.                          *)
Asked(part) ==
  IF platform = "android" /\ IsPermission(part)
  THEN {Part(p, part.value) : p \in Covers[part.what] \cap Declared}
  ELSE {part}

(* What handler h did for its i-th part.                                     *)
DoneFor(h, i) == {Part(s.what, s.value) : s \in {t \in did[h] : t.at = i}}

(* Whatever the answer, each part it tells of as applied was, in full, and   *)
(* by itself: a permission the app declares nothing of is not ("success      *)
(* would be reported for a grant that never happened", emu/settings.go).     *)
(* What it changed and does not tell of is of the part it failed at.  An ok  *)
(* tells of every part asked for.  They are applied in the order given: what *)
(* a part told of asked for holds, unless a later part of the request, such  *)
(* as a revoke of what was granted, or another request has changed it since. *)
AppliedIsDone ==
  \A h \in Setter :
    /\ \A i \in DOMAIN applied[h] :
         Asked(applied[h][i]) # {} /\ Asked(applied[h][i]) = DoneFor(h, i)
    /\ \A s \in did[h] : s.at \in 1 .. Len(applied[h]) + 1
    /\ answer[h] = "ok" => applied[h] = request[h]
    /\ \A i \in DOMAIN applied[h] : \A u \in Asked(applied[h][i]) :
         \/ \E s \in device : s.what = u.what /\ (s.value = u.value \/ s.by # h)
         \/ \E t \in did[h] : t.what = u.what /\ t.at > i
=============================================================================
