----------------------------- MODULE MainProofs -----------------------------
(* What the wizard has confirmed is loaded, and the old config.yaml is kept,  *)
(* for any providers, backends, homes and environments, any number of         *)
(* processes and of file operations that fail; no token is lost or counted    *)
(* twice, for any keys and any number of goroutines that queue them.          *)
EXTENDS Main, FiniteSetTheorems, WellFoundedInduction, TLAPS

Sections ==
  {"model", "terminal", "configure", "platform", "tools", "agent", "save", "local", "which"}

Plans == Seq(Sections \X (Platforms \cup {Unset}))

SetupTyped ==
  /\ config \in Configs /\ raw \in Configs
  /\ plan \in Plans

(* What the section of a prompt is about. *)
PickedTyped ==
  /\ prompt \in {"new key", "keep key", "replace key"} => picked \in Providers \ (Keyless \cup {"custom"})
  /\ prompt = "url" => picked \in Providers \ {"custom"}
  /\ prompt = "name model" => picked \in Providers \cup {"custom"}
  /\ prompt \in {"custom url", "custom key"} => picked = "custom"
  /\ prompt = "backend" => picked \in Backends

(* The URL and the model are asked for only when the key is in .env, or need  *)
(* not be there.                                                              *)
KeyIsThere ==
  prompt \in {"url", "name model"} /\ picked \notin Keyless \cup {"custom"}
    => picked \in env \cup excused

(* What is confirmed holds for the file, and for what is staged: a later      *)
(* section saves all of it.  Of what began empty every key may be missing.    *)
ProviderStands ==
  said # Unset =>
    /\ ProviderHolds(config, env \cup excused, {said} \cup asked, unread)
    /\ ProviderHolds(raw, env \cup excused, {said} \cup asked, IF blind THEN Kept ELSE unread)

BackendStands ==
  saidBackend # Unset =>
    /\ BackendHolds(config, {saidBackend} \cup askedBackend, unread)
    /\ BackendHolds(raw, {saidBackend} \cup askedBackend, IF blind THEN Kept ELSE unread)

SetupInv ==
  SetupTyped /\ PickedTyped /\ KeyIsThere /\ ProviderStands /\ BackendStands

-----------------------------------------------------------------------------
(* What Proceed takes from a plan. *)
LEMMA PlanStep ==
  ASSUME NEW p \in Plans, p # << >>
  PROVE  Head(p)[1] \in Sections /\ Tail(p) \in Plans
  BY DEF Plans

(* The plans that Dispatch and Which make. *)
LEMMA SectionPlans ==
  ASSUME NEW s \in {"model", "terminal", "gateway", "tools", "agent", "local", "which", "save"}
  PROVE  Do(s) \in Plans
  <1>1. CASE s = "gateway"
    BY <1>1 DEF Do, Plans, Sections, Platforms
  <1>2. CASE s # "gateway"
    BY <1>2 DEF Do, Plans, Sections, Unset
  <1> QED
    BY <1>1, <1>2

(* Plans are put one after the other. *)
LEMMA PlansJoin ==
  ASSUME NEW p \in Plans, NEW q \in Plans
  PROVE  p \o q \in Plans
  BY DEF Plans

(* A guided setup asks for these two. *)
LEMMA PlatformPlans ==
  ASSUME NEW p \in Platforms
  PROVE  Platform(p) \in Plans
  BY DEF Platform, Plans, Sections

(* A provider holds with more keys, more that was staged and more missing. *)
LEMMA ProviderKept ==
  ASSUME NEW c, NEW d, NEW e, NEW f, NEW p, NEW q, NEW m, NEW n,
         ProviderHolds(c, e, p, m), d.provider = c.provider, d.model = c.model,
         e \subseteq f, p \subseteq q, m \subseteq n
  PROVE  ProviderHolds(d, f, q, n)
  BY DEF ProviderHolds, Profile, Live

(* The same for the backend. *)
LEMMA BackendKept ==
  ASSUME NEW c, NEW d, NEW p, NEW q, NEW m, NEW n,
         BackendHolds(c, p, m), d.backend = c.backend, d.host = c.host,
         p \subseteq q, m \subseteq n
  PROVE  BackendHolds(d, q, n)
  BY DEF BackendHolds, RunsOn

(* Of what is missing, only that counts which is unset. *)
LEMMA MissingIsUnset ==
  ASSUME NEW c \in Configs, NEW e, NEW p, NEW m
  PROVE  /\ ProviderHolds(c, e, p, m) => ProviderHolds(c, e, p, {k \in m : c[k] = Unset})
         /\ BackendHolds(c, p, m) => BackendHolds(c, p, {k \in m : c[k] = Unset})
  BY DEF ProviderHolds, BackendHolds, Configs

(* A provider whose key is there, or that needs none, may be confirmed. *)
LEMMA ProviderMayHold ==
  ASSUME NEW c, NEW e, NEW p, NEW q, NEW m, c.provider = p, c.model = "model", p \in q,
         p \notin Keyless \cup {"custom"} => p \in e
  PROVE  ProviderHolds(c, e, q, m)
  BY DEF ProviderHolds, Misread, Profile, Live, FirstEnv, Unset

(* What a reset writes, and a guided setup stages. *)
LEMMA StagedTyped ==
  ASSUME NEW c \in Configs
  PROVE  /\ Defaults \in Configs /\ NoConfig \in Configs
         /\ [c EXCEPT !.backend = "local"] \in Configs
  BY SetupAssumption DEF Configs, Defaults, NoConfig

(* Which prompts follow the choice of a provider. *)
LEMMA AfterPick ==
  ASSUME NEW p \in Providers \cup {"custom"}, AfterProvider(p)
  PROVE  /\ prompt' \in {"custom url", "url", "keep key", "new key"}
         /\ prompt' = "custom url" => p = "custom"
         /\ prompt' # "custom url" => p \in Providers \ {"custom"}
         /\ prompt' = "url" => p \in Keyless
         /\ prompt' \in {"keep key", "new key"} => p \notin Keyless
  BY SetupAssumption DEF AfterProvider, FirstEnv, Goto

(* The key that is kept or stored is that of the provider. *)
LEMMA KeyOfProvider ==
  ASSUME NEW p \in Providers \ (Keyless \cup {"custom"})
  PROVE  FirstEnv(p) = p
  BY DEF FirstEnv

(* An action that touches nothing that is kept leaves everything standing. *)
LEMMA NothingKept ==
  ASSUME ProviderStands, BackendStands, UNCHANGED <<files, staged, told>>
  PROVE  ProviderStands' /\ BackendStands'
  BY DEF ProviderStands, BackendStands, files, staged, told, ProviderHolds, BackendHolds,
         Profile, Live, RunsOn

(* So does one that touches .env, and takes no key away that is not excused. *)
LEMMA KeysKept ==
  ASSUME ProviderStands, BackendStands,
         UNCHANGED <<config, staged, said, asked, saidBackend, askedBackend, unread>>,
         env \cup excused \subseteq env' \cup excused'
  PROVE  ProviderStands' /\ BackendStands'
  <1> USE DEF staged
  <1>1. ProviderStands'
    BY ProviderKept DEF ProviderStands
  <1>2. BackendStands'
    BY BackendKept DEF BackendStands
  <1> QED
    BY <1>1, <1>2

(* SetSecret leaves the new key in .env, and excuses what it overwrites. *)
LEMMA SecretSet ==
  ASSUME NEW k, NEW next, SetSecret(k, next)
  PROVE  /\ env \cup excused \subseteq env' \cup excused'
         /\ prompt' \in {next, "next"}
         /\ prompt' # "next" => k \in env'
  BY DEF SetSecret, Hitch

(* Save writes what is staged; what was missing and still is goes unread. *)
LEMMA SaveKeepsProvider ==
  ASSUME NEW next, Saved(next), raw' \in Configs, blind' = blind,
         NEW e, NEW p, ProviderHolds(raw', e, p, IF blind THEN Kept ELSE unread)
  PROVE  /\ ProviderHolds(config', e, p, unread')
         /\ ProviderHolds(raw', e, p, IF blind' THEN Kept ELSE unread')
  <1>1. ProviderHolds(raw', e, p, unread')
    BY MissingIsUnset DEF Saved
  <1> QED
    BY <1>1 DEF Saved

(* The same for the backend. *)
LEMMA SaveKeepsBackend ==
  ASSUME NEW next, Saved(next), raw' \in Configs, blind' = blind,
         NEW p, BackendHolds(raw', p, IF blind THEN Kept ELSE unread)
  PROVE  /\ BackendHolds(config', p, unread')
         /\ BackendHolds(raw', p, IF blind' THEN Kept ELSE unread')
  <1>1. BackendHolds(raw', p, unread')
    BY MissingIsUnset DEF Saved
  <1> QED
    BY <1>1 DEF Saved

(* A save that may fail keeps the provider: what holds of what is staged      *)
(* holds of the file, too, once it is written.                                *)
LEMMA ProviderSaved ==
  ASSUME ProviderStands, NEW next, NEW fallback, Saved(next) \/ NotSaved(fallback),
         raw' \in Configs, UNCHANGED <<env, excused, blind, said>>, asked \subseteq asked',
         said # Unset => ProviderHolds(raw', env \cup excused, {said} \cup asked', IF blind THEN Kept ELSE unread)
  PROVE  ProviderStands'
  <1>1. CASE Saved(next)
    BY <1>1, SaveKeepsProvider DEF ProviderStands
  <1>2. CASE NotSaved(fallback)
    BY <1>2, ProviderKept DEF ProviderStands, NotSaved
  <1> QED
    BY <1>1, <1>2

(* The same for the backend. *)
LEMMA BackendSaved ==
  ASSUME BackendStands, NEW next, NEW fallback, Saved(next) \/ NotSaved(fallback),
         raw' \in Configs, UNCHANGED <<blind, saidBackend>>, askedBackend \subseteq askedBackend',
         saidBackend # Unset => BackendHolds(raw', {saidBackend} \cup askedBackend', IF blind THEN Kept ELSE unread)
  PROVE  BackendStands'
  <1>1. CASE Saved(next)
    BY <1>1, SaveKeepsBackend DEF BackendStands
  <1>2. CASE NotSaved(fallback)
    BY <1>2, BackendKept DEF BackendStands, NotSaved
  <1> QED
    BY <1>1, <1>2

(* The homes hold what they confirmed, and nothing else is under way. *)
LEMMA InitSetupInv == SetupInit => SetupInv
  <1> SUFFICES ASSUME SetupInit PROVE SetupInv
    OBVIOUS
  <1> USE SetupAssumption, HomesHold DEF SetupInit
  <1>1. PICK h \in Homes : /\ config = h.config /\ env = h.env
                           /\ said = h.said /\ saidBackend = h.saidBackend
    OBVIOUS
  <1>2. SetupTyped
    BY <1>1 DEF SetupTyped, Plans
  <1>3. PickedTyped /\ KeyIsThere
    BY DEF PickedTyped, KeyIsThere
  <1>4. said # Unset => ProviderHolds(config, env, {said}, {})
    BY <1>1
  <1>5. ProviderStands
    BY <1>4, ProviderKept DEF ProviderStands
  <1>6. saidBackend # Unset => BackendHolds(config, {saidBackend}, {})
    BY <1>1
  <1>7. BackendStands
    BY <1>6, BackendKept DEF BackendStands
  <1> QED
    BY <1>2, <1>3, <1>5, <1>7 DEF SetupInv

(* One step for each prompt; most leave the files and what is staged alone.   *)
LEMMA SetupInvKept ==
  SetupInv /\ [SetupNext \/ Begin \/ Leave]_setupVars => SetupInv'
  <1> SUFFICES ASSUME SetupInv, [SetupNext \/ Begin \/ Leave]_setupVars PROVE SetupInv'
    OBVIOUS
  <1> USE SetupAssumption DEF SetupInv
  <1>1. CASE Begin
    <2> USE <1>1 DEF Begin, Hitch, files, told
    <2>1. SetupTyped'
      BY StagedTyped DEF SetupTyped
    <2>2. PickedTyped'
      BY DEF PickedTyped
    <2>3. KeyIsThere'
      BY DEF PickedTyped, KeyIsThere
    <2>4. ProviderStands'
      BY ProviderKept DEF ProviderStands, ProviderHolds, NoConfig, Kept, Unset
    <2>5. BackendStands'
      BY BackendKept DEF BackendStands, BackendHolds, NoConfig, Kept, Unset
    <2> QED
      BY <2>1, <2>2, <2>3, <2>4, <2>5
  <1>2. CASE Reset
    <2> USE <1>2 DEF Reset, Hitch, staged
    <2>1. SetupTyped'
      BY StagedTyped DEF SetupTyped
    <2>2. PickedTyped'
      BY DEF PickedTyped
    <2>3. KeyIsThere'
      BY DEF PickedTyped, KeyIsThere
    <2>4. ProviderStands'
      BY ProviderKept DEF ProviderStands
    <2>5. BackendStands'
      BY BackendKept DEF BackendStands
    <2> QED
      BY <2>1, <2>2, <2>3, <2>4, <2>5
  <1>3. CASE Dispatch
    <2> USE <1>3 DEF Dispatch, Goto
    <2>1. SetupTyped'
      <3>1. \A s \in {"model", "terminal", "gateway", "tools", "agent", "local", "which", "save"} : Do(s) \in Plans
        BY SectionPlans
      <3>2. Full \in Plans /\ Guided \in Plans /\ BlankSlate \in Plans
        BY <3>1, PlansJoin DEF Full, Guided, BlankSlate
      <3>3. \A s \in {"model", "terminal", "gateway", "tools", "agent"} : Section(s) \in Plans
        BY <3>1, PlansJoin DEF Section
      <3>4. << >> \in Plans
        BY DEF Plans
      <3>5. plan' \in Plans
        BY <3>2, <3>3, <3>4
      <3> QED
        BY <3>5 DEF SetupTyped, files, staged
    <2>2. PickedTyped'
      BY DEF PickedTyped
    <2>3. KeyIsThere'
      BY DEF PickedTyped, KeyIsThere
    <2>4. ProviderStands' /\ BackendStands'
      BY NothingKept
    <2> QED
      BY <2>1, <2>2, <2>3, <2>4
  <1>4. CASE Proceed
    <2> USE <1>4 DEF Proceed
    <2>1. SetupTyped'
      BY PlanStep DEF SetupTyped, files, staged
    <2>2. PickedTyped'
      BY PlanStep DEF SetupTyped, Sections, PickedTyped
    <2>3. KeyIsThere'
      BY PlanStep DEF SetupTyped, Sections, PickedTyped, KeyIsThere
    <2>4. ProviderStands' /\ BackendStands'
      BY NothingKept
    <2> QED
      BY <2>1, <2>2, <2>3, <2>4
  <1>5. CASE SaveAll
    <2> USE <1>5 DEF SaveAll
    <2>1. raw' \in Configs
      BY StagedTyped DEF SetupTyped
    <2>2. SetupTyped'
      BY <2>1 DEF SetupTyped, Save, Saved, NotSaved
    <2>3. PickedTyped'
      BY DEF PickedTyped, Save, Saved, NotSaved
    <2>4. KeyIsThere'
      BY DEF PickedTyped, KeyIsThere, Save, Saved, NotSaved
    <2>5. ProviderStands'
      <3>1. raw'.provider = raw.provider /\ raw'.model = raw.model
        BY DEF SetupTyped, Configs
      <3>2. said # Unset => ProviderHolds(raw', env \cup excused, {said} \cup asked', IF blind THEN Kept ELSE unread)
        BY <3>1, ProviderKept DEF ProviderStands
      <3> QED
        BY <2>1, <3>2, ProviderSaved DEF Save
    <2>6. BackendStands'
      <3>1. saidBackend # Unset => BackendHolds(raw', {saidBackend} \cup askedBackend', IF blind THEN Kept ELSE unread)
        BY BackendKept DEF BackendStands, BackendHolds
      <3> QED
        BY <2>1, <3>1, BackendSaved DEF Save
    <2> QED
      BY <2>1, <2>2, <2>3, <2>4, <2>5, <2>6
  <1>6. CASE PickProvider
    <2> USE <1>6 DEF PickProvider, StagedByPick
    <2>1. SetupTyped'
      BY DEF SetupTyped, files
    <2>2. PickedTyped'
      BY AfterPick DEF PickedTyped
    <2>3. KeyIsThere'
      BY AfterPick DEF KeyIsThere
    <2>4. ProviderStands' /\ BackendStands'
      BY NothingKept DEF staged
    <2> QED
      BY <2>1, <2>2, <2>3, <2>4
  <1>7. CASE LeaveUnchanged
    <2> USE <1>7 DEF LeaveUnchanged, Goto, Answer, Default
    <2>1. SetupTyped'
      BY DEF SetupTyped, files, staged
    <2>2. PickedTyped'
      BY DEF PickedTyped
    <2>3. KeyIsThere'
      BY DEF PickedTyped, KeyIsThere
    <2>4. ProviderStands' /\ BackendStands'
      BY NothingKept
    <2> QED
      BY <2>1, <2>2, <2>3, <2>4
  <1>8. CASE GiveKey
    <2> USE <1>8 DEF GiveKey, Answer
    <2>1. /\ env \cup excused \subseteq env' \cup excused'
          /\ prompt' \in {"url", "next"}
          /\ prompt' # "next" => FirstEnv(picked) \in env'
      BY SecretSet
    <2>2. SetupTyped'
      BY DEF SetupTyped, staged
    <2>3. PickedTyped'
      BY <2>1 DEF PickedTyped
    <2>4. KeyIsThere'
      BY <2>1, KeyOfProvider DEF PickedTyped, KeyIsThere
    <2>5. ProviderStands' /\ BackendStands'
      BY <2>1, KeysKept
    <2> QED
      BY <2>1, <2>2, <2>3, <2>4, <2>5
  <1>9. CASE KeepKey
    <2> USE <1>9 DEF KeepKey, Goto, Default
    <2>1. SetupTyped'
      BY DEF SetupTyped, files, staged
    <2>2. PickedTyped'
      BY DEF PickedTyped
    <2>3. KeyIsThere'
      BY KeyOfProvider DEF PickedTyped, KeyIsThere, files
    <2>4. ProviderStands' /\ BackendStands'
      BY KeysKept DEF files
    <2> QED
      BY <2>1, <2>2, <2>3, <2>4
  <1>10. CASE ReplaceKey
    <2> USE <1>10 DEF ReplaceKey, Goto, Answer
    <2>1. SetupTyped'
      BY DEF SetupTyped, files, staged
    <2>2. PickedTyped'
      BY DEF PickedTyped
    <2>3. KeyIsThere'
      BY DEF PickedTyped, KeyIsThere
    <2>4. ProviderStands' /\ BackendStands'
      BY NothingKept
    <2> QED
      BY <2>1, <2>2, <2>3, <2>4
  <1>11. CASE ClearKey
    <2> USE <1>11 DEF ClearKey, Answer, Hitch
    <2>1. SetupTyped'
      BY DEF SetupTyped, staged
    <2>2. PickedTyped'
      BY DEF PickedTyped
    <2>3. KeyIsThere'
      BY DEF PickedTyped, KeyIsThere
    <2>4. ProviderStands' /\ BackendStands'
      BY KeysKept
    <2> QED
      BY <2>1, <2>2, <2>3, <2>4
  <1>12. CASE AskURL
    <2> USE <1>12 DEF AskURL, Goto, Default
    <2>1. SetupTyped'
      BY DEF SetupTyped, files, staged
    <2>2. PickedTyped'
      BY DEF PickedTyped
    <2>3. KeyIsThere'
      BY DEF KeyIsThere, files, told
    <2>4. ProviderStands' /\ BackendStands'
      BY NothingKept
    <2> QED
      BY <2>1, <2>2, <2>3, <2>4
  <1>13. CASE NameModel
    <2> USE <1>13 DEF NameModel, Answer, Default
    <2>1. /\ raw' \in Configs /\ raw'.provider = picked /\ raw'.model = "model"
          /\ raw'.backend = raw.backend /\ raw'.host = raw.host
      BY DEF SetupTyped, PickedTyped, Configs
    <2>2. SetupTyped'
      BY <2>1 DEF SetupTyped, Saved, NotSaved
    <2>3. PickedTyped'
      BY DEF PickedTyped, Saved, NotSaved
    <2>4. KeyIsThere'
      BY DEF KeyIsThere, Saved, NotSaved
    <2>5. ProviderStands'
      <3>1. picked \in asked' \cup {said'}
        OBVIOUS
      <3>2. ProviderHolds(raw', env \cup excused, {said'} \cup asked', IF blind THEN Kept ELSE unread)
        BY <2>1, <3>1, ProviderMayHold DEF KeyIsThere
      <3>3. CASE Saved("next") /\ said' = picked /\ asked' = {}
        BY <2>1, <3>2, <3>3, SaveKeepsProvider DEF ProviderStands
      <3>4. CASE NotSaved("next") /\ said' = said /\ asked' = asked \cup {picked}
        BY <2>1, <3>2, <3>4, ProviderSaved
      <3> QED
        BY <3>3, <3>4
    <2>6. BackendStands'
      <3>1. saidBackend # Unset => BackendHolds(raw', {saidBackend} \cup askedBackend', IF blind THEN Kept ELSE unread)
        BY <2>1, BackendKept DEF BackendStands
      <3> QED
        BY <2>1, <3>1, BackendSaved
    <2> QED
      BY <2>1, <2>2, <2>3, <2>4, <2>5, <2>6
  <1>14. CASE NoModel
    <2> USE <1>14 DEF NoModel, Goto, Default
    <2>1. SetupTyped'
      BY DEF SetupTyped, files, staged
    <2>2. PickedTyped'
      BY DEF PickedTyped
    <2>3. KeyIsThere'
      BY DEF PickedTyped, KeyIsThere
    <2>4. ProviderStands' /\ BackendStands'
      BY NothingKept
    <2> QED
      BY <2>1, <2>2, <2>3, <2>4
  <1>15. CASE CustomURL
    <2> USE <1>15 DEF CustomURL, Goto, Default
    <2>1. SetupTyped'
      BY DEF SetupTyped, files, staged
    <2>2. PickedTyped'
      BY DEF PickedTyped
    <2>3. KeyIsThere'
      BY DEF PickedTyped, KeyIsThere
    <2>4. ProviderStands' /\ BackendStands'
      BY NothingKept
    <2> QED
      BY <2>1, <2>2, <2>3, <2>4
  <1>16. CASE CustomKey
    <2> USE <1>16 DEF CustomKey, Answer, Default
    <2>1. /\ raw' \in Configs /\ raw'.backend = raw.backend /\ raw'.host = raw.host
          /\ \/ raw' = raw
             \/ raw'.provider = "custom" /\ raw'.model = raw.model /\ "custom" \in asked'
          /\ asked \subseteq asked'
      BY DEF SetupTyped, PickedTyped, Configs
    <2>2. SetupTyped'
      BY <2>1 DEF SetupTyped, Save, Saved, NotSaved
    <2>3. PickedTyped'
      BY DEF PickedTyped, Save, Saved, NotSaved
    <2>4. KeyIsThere'
      BY DEF PickedTyped, KeyIsThere, Save, Saved, NotSaved, Hitch
    <2>5. Saved("name model") \/ NotSaved("next")
      BY DEF Save, NotSaved
    <2>6. ProviderStands'
      <3>1. said # Unset => ProviderHolds(raw', env \cup excused, {said} \cup asked', IF blind THEN Kept ELSE unread)
        <4>1. CASE raw' = raw
          <5>1. {said} \cup asked \subseteq {said} \cup asked'
            BY <2>1
          <5>2. said # Unset => ProviderHolds(raw, env \cup excused, {said} \cup asked, IF blind THEN Kept ELSE unread)
            BY DEF ProviderStands
          <5> QED
            BY <5>1, <5>2, <4>1 DEF ProviderHolds
        <4>2. CASE raw'.provider = "custom" /\ raw'.model = raw.model /\ "custom" \in asked'
          BY <4>2 DEF ProviderStands, ProviderHolds, Misread
        <4> QED
          BY <2>1, <4>1, <4>2
      <3> QED
        BY <2>1, <2>5, <3>1, ProviderSaved
    <2>7. BackendStands'
      <3>1. saidBackend # Unset => BackendHolds(raw', {saidBackend} \cup askedBackend', IF blind THEN Kept ELSE unread)
        BY <2>1, BackendKept DEF BackendStands
      <3> QED
        BY <2>1, <2>5, <3>1, BackendSaved
    <2> QED
      BY <2>1, <2>2, <2>3, <2>4, <2>5, <2>6, <2>7
  <1>17. CASE PickBackend
    <2> USE <1>17 DEF PickBackend, Goto, Answer, Default, DefaultBackend
    <2>1. SetupTyped'
      BY DEF SetupTyped, files, staged
    <2>2. PickedTyped'
      BY DEF PickedTyped
    <2>3. KeyIsThere'
      BY DEF PickedTyped, KeyIsThere
    <2>4. ProviderStands' /\ BackendStands'
      BY NothingKept
    <2> QED
      BY <2>1, <2>2, <2>3, <2>4
  <1>18. CASE KeepBackend
    <2> USE <1>18 DEF KeepBackend, Goto, Answer
    <2>1. SetupTyped'
      BY DEF SetupTyped, files, staged
    <2>2. PickedTyped'
      BY DEF PickedTyped
    <2>3. KeyIsThere'
      BY DEF PickedTyped, KeyIsThere
    <2>4. ProviderStands' /\ BackendStands'
      BY NothingKept
    <2> QED
      BY <2>1, <2>2, <2>3, <2>4
  <1>19. CASE SetBackend
    <2> USE <1>19 DEF SetBackend, Answer, Default
    <2>1. raw' \in Configs /\ raw'.provider = raw.provider /\ raw'.model = raw.model
      BY DEF SetupTyped, PickedTyped, Configs
    <2>2. SetupTyped'
      BY <2>1 DEF SetupTyped, Saved, NotSaved
    <2>3. PickedTyped'
      BY DEF PickedTyped, Saved, NotSaved
    <2>4. KeyIsThere'
      BY DEF PickedTyped, KeyIsThere, Saved, NotSaved
    <2>5. ProviderStands'
      <3>1. said # Unset => ProviderHolds(raw', env \cup excused, {said} \cup asked', IF blind THEN Kept ELSE unread)
        BY <2>1, ProviderKept DEF ProviderStands
      <3> QED
        BY <2>1, <3>1, ProviderSaved
    <2>6. BackendStands'
      <3>1. BackendHolds(raw', {saidBackend'} \cup askedBackend', IF blind THEN Kept ELSE unread)
        BY DEF BackendHolds
      <3>2. CASE Saved("next") /\ saidBackend' = RunsOn(raw') /\ askedBackend' = {}
        BY <2>1, <3>1, <3>2, SaveKeepsBackend DEF BackendStands
      <3>3. CASE /\ NotSaved("next") /\ saidBackend' = saidBackend
                 /\ askedBackend' = askedBackend \cup {RunsOn(raw')}
        BY <2>1, <3>1, <3>3, BackendSaved
      <3> QED
        BY <3>2, <3>3
    <2> QED
      BY <2>1, <2>2, <2>3, <2>4, <2>5, <2>6
  <1>20. CASE Which
    <2> USE <1>20 DEF Which, Goto, Answer, Default
    <2>1. SetupTyped'
      <3>1. Platform("telegram") \in Plans /\ Platform("discord") \in Plans
        BY PlatformPlans DEF Platforms
      <3>2. << >> \in Plans
        BY DEF Plans
      <3>3. Platform("telegram") \o Platform("discord") \in Plans
        BY <3>1, PlansJoin
      <3>4. PICK ps \in Plans : plan' = ps \o plan
        BY <3>1, <3>2, <3>3
      <3>5. plan' \in Plans
        BY <3>4, PlansJoin DEF SetupTyped
      <3> QED
        BY <3>5 DEF SetupTyped, files, staged
    <2>2. PickedTyped'
      BY DEF PickedTyped
    <2>3. KeyIsThere'
      BY DEF PickedTyped, KeyIsThere
    <2>4. ProviderStands' /\ BackendStands'
      BY NothingKept
    <2> QED
      BY <2>1, <2>2, <2>3, <2>4
  <1>21. CASE Configure
    <2> USE <1>21 DEF Configure, Goto, Answer, Default
    <2>1. SetupTyped'
      BY DEF SetupTyped, files, staged
    <2>2. PickedTyped'
      BY DEF PickedTyped
    <2>3. KeyIsThere'
      BY DEF PickedTyped, KeyIsThere
    <2>4. ProviderStands' /\ BackendStands'
      BY NothingKept
    <2> QED
      BY <2>1, <2>2, <2>3, <2>4
  <1>22. CASE Reconfigure
    <2> USE <1>22 DEF Reconfigure, Goto, Answer, Default
    <2>1. SetupTyped'
      BY DEF SetupTyped, files, staged
    <2>2. PickedTyped'
      BY DEF PickedTyped
    <2>3. KeyIsThere'
      BY DEF PickedTyped, KeyIsThere
    <2>4. ProviderStands' /\ BackendStands'
      BY NothingKept
    <2> QED
      BY <2>1, <2>2, <2>3, <2>4
  <1>23. CASE NoToken
    <2> USE <1>23 DEF NoToken, Goto, Default, AfterNoToken
    <2>1. SetupTyped'
      BY DEF SetupTyped, files, staged
    <2>2. PickedTyped'
      BY DEF PickedTyped
    <2>3. KeyIsThere'
      BY DEF PickedTyped, KeyIsThere
    <2>4. ProviderStands' /\ BackendStands'
      BY NothingKept
    <2> QED
      BY <2>1, <2>2, <2>3, <2>4
  <1>24. CASE GiveToken
    <2> USE <1>24 DEF GiveToken, Answer
    <2>1. env \cup excused \subseteq env' \cup excused' /\ prompt' \in {"users", "next"}
      BY SecretSet
    <2>2. SetupTyped'
      BY DEF SetupTyped, staged
    <2>3. PickedTyped'
      BY <2>1 DEF PickedTyped
    <2>4. KeyIsThere'
      BY <2>1 DEF KeyIsThere
    <2>5. ProviderStands' /\ BackendStands'
      BY <2>1, KeysKept
    <2> QED
      BY <2>1, <2>2, <2>3, <2>4, <2>5
  <1>25. CASE Users
    <2> USE <1>25 DEF Users, Goto, Default
    <2>1. SetupTyped'
      BY DEF SetupTyped, files, staged
    <2>2. PickedTyped'
      BY DEF PickedTyped
    <2>3. KeyIsThere'
      BY DEF PickedTyped, KeyIsThere
    <2>4. ProviderStands' /\ BackendStands'
      BY NothingKept
    <2> QED
      BY <2>1, <2>2, <2>3, <2>4
  <1>26. CASE OtherSecret
    <2> USE <1>26 DEF OtherSecret, Answer
    <2>1. SetupTyped'
      BY DEF SetupTyped, staged
    <2>2. PickedTyped'
      BY DEF PickedTyped
    <2>3. KeyIsThere'
      BY DEF KeyIsThere
    <2>4. ProviderStands' /\ BackendStands'
      BY KeysKept
    <2> QED
      BY <2>1, <2>2, <2>3, <2>4
  <1>27. CASE Tools
    <2> USE <1>27 DEF Tools
    <2>1. Saved("next") \/ NotSaved("next") \/ UNCHANGED <<config, unread>>
      BY DEF Save
    <2>2. prompt' = "next"
      BY DEF Save, Saved, NotSaved, Goto
    <2>3. SetupTyped'
      BY <2>1 DEF SetupTyped, Saved, NotSaved
    <2>4. PickedTyped'
      BY <2>2 DEF PickedTyped
    <2>5. KeyIsThere'
      BY <2>2 DEF KeyIsThere
    <2>6. ProviderStands'
      BY <2>1, ProviderSaved, ProviderKept DEF ProviderStands, SetupTyped
    <2>7. BackendStands'
      BY <2>1, BackendSaved, BackendKept DEF BackendStands, SetupTyped
    <2> QED
      BY <2>1, <2>2, <2>3, <2>4, <2>5, <2>6, <2>7
  <1>28. CASE Agent
    <2> USE <1>28 DEF Agent
    <2>1. Saved("next") \/ NotSaved("next") \/ UNCHANGED <<config, unread>>
      BY DEF Save
    <2>2. prompt' = "next"
      BY DEF Save, Saved, NotSaved, Goto
    <2>3. SetupTyped'
      BY <2>1 DEF SetupTyped, Saved, NotSaved
    <2>4. PickedTyped'
      BY <2>2 DEF PickedTyped
    <2>5. KeyIsThere'
      BY <2>2 DEF KeyIsThere
    <2>6. ProviderStands'
      BY <2>1, ProviderSaved, ProviderKept DEF ProviderStands, SetupTyped
    <2>7. BackendStands'
      BY <2>1, BackendSaved, BackendKept DEF BackendStands, SetupTyped
    <2> QED
      BY <2>1, <2>2, <2>3, <2>4, <2>5, <2>6, <2>7
  <1>29. CASE EndOfInput
    <2> USE <1>29 DEF EndOfInput
    <2>1. SetupTyped'
      BY DEF SetupTyped, files, staged
    <2>2. PickedTyped'
      BY DEF PickedTyped
    <2>3. KeyIsThere'
      BY DEF KeyIsThere, files, told
    <2>4. ProviderStands' /\ BackendStands'
      BY NothingKept
    <2> QED
      BY <2>1, <2>2, <2>3, <2>4
  <1>30. CASE Leave
    <2> USE <1>30 DEF Leave
    <2>1. SetupTyped'
      BY DEF SetupTyped, Plans, files
    <2>2. PickedTyped'
      BY DEF PickedTyped
    <2>3. KeyIsThere'
      BY DEF KeyIsThere
    <2>4. ProviderStands'
      BY DEF ProviderStands, ProviderHolds, Profile, Live, files
    <2>5. BackendStands'
      BY DEF BackendStands, BackendHolds, RunsOn, files
    <2> QED
      BY <2>1, <2>2, <2>3, <2>4, <2>5
  <1>31. CASE UNCHANGED setupVars
    <2> USE <1>31 DEF setupVars
    <2>1. SetupTyped'
      BY DEF SetupTyped, files, staged
    <2>2. PickedTyped'
      BY DEF PickedTyped
    <2>3. KeyIsThere'
      BY DEF KeyIsThere, files, told
    <2>4. ProviderStands' /\ BackendStands'
      BY NothingKept
    <2> QED
      BY <2>1, <2>2, <2>3, <2>4
  <1> QED
    BY <1>1, <1>2, <1>3, <1>4, <1>5, <1>6, <1>7, <1>8, <1>9, <1>10, <1>11, <1>12, <1>13, <1>14, <1>15, <1>16, <1>17, <1>18, <1>19, <1>20, <1>21, <1>22, <1>23, <1>24, <1>25, <1>26, <1>27, <1>28, <1>29, <1>30, <1>31 DEF SetupNext, Wizard, Kill

(* Main takes only steps of the wizard, or steps that leave it alone. *)
LEMMA MainSteps ==
  [MainNext]_mainVars => [SetupNext \/ Begin \/ Leave]_setupVars
  BY DEF MainNext, mainVars, Start, Chat, Deferred, UsageLoop, Exit, SetupStep

(* The invariant of the wizard holds in every state of the binary. *)
THEOREM SetupInvHolds == MainSpec => []SetupInv
  <1>1. MainInit => SetupInv
    BY InitSetupInv DEF MainInit
  <1>2. SetupInv /\ [MainNext]_mainVars => SetupInv'
    BY MainSteps, SetupInvKept
  <1> QED
    BY <1>1, <1>2, PTL DEF MainSpec

(* What the wizard has confirmed, the next process loads: the provider with   *)
(* its model and its key, and the place where commands run, or in their stead *)
(* a choice that was staged later; whatever write or read fails in between,   *)
(* and whatever sections follow, save what is excepted by ConfirmedIsLoaded   *)
(* (SetupModelProvider, SetupTerminalBackend, NewState and State.Save).       *)
THEOREM ConfirmedStays == MainSpec => []ConfirmedIsLoaded
  <1>1. SetupInv => ConfirmedIsLoaded
    BY DEF SetupInv, ProviderStands, BackendStands, ConfirmedIsLoaded
  <1> QED
    BY <1>1, SetupInvHolds, PTL

-----------------------------------------------------------------------------
(* Between processes nothing writes config.yaml; a process copies it, if it   *)
(* can, before it writes.                                                     *)
BackupInv ==
  IF prompt = "gone" THEN config = old ELSE backup \in {old, NoBackup}

(* No prompt touches the backup, or ends the process. *)
LEMMA WizardKeepsBackup ==
  ASSUME SetupTyped, Wizard
  PROVE  backup' = backup /\ old' = old /\ prompt' # "gone" /\ prompt # "gone"
  <1> USE DEF process, Goto, Answer, Default
  <1>1. CASE Reset \/ Dispatch \/ SaveAll
    BY <1>1 DEF Reset, Dispatch, SaveAll, Save, Saved, NotSaved, KeptBackup, Hitch
  <1>2. CASE Proceed
    BY <1>2, PlanStep DEF Proceed, SetupTyped, Sections
  <1>3. CASE PickProvider
    BY <1>3, AfterPick DEF PickProvider
  <1>4. CASE LeaveUnchanged \/ GiveKey \/ KeepKey \/ ReplaceKey \/ ClearKey \/ AskURL
    BY <1>4 DEF LeaveUnchanged, GiveKey, KeepKey, ReplaceKey, ClearKey, AskURL, SetSecret
  <1>5. CASE NameModel \/ NoModel \/ CustomURL \/ CustomKey
    BY <1>5 DEF NameModel, NoModel, CustomURL, CustomKey, Save, Saved, NotSaved
  <1>6. CASE PickBackend \/ KeepBackend \/ SetBackend
    BY <1>6 DEF PickBackend, KeepBackend, SetBackend, Saved, NotSaved
  <1>7. CASE Which \/ Configure \/ Reconfigure \/ NoToken \/ GiveToken \/ Users \/ OtherSecret
    BY <1>7 DEF Which, Configure, Reconfigure, NoToken, AfterNoToken, GiveToken, SetSecret, Users, OtherSecret
  <1>8. CASE Tools \/ Agent
    BY <1>8 DEF Tools, Agent, Save, Saved, NotSaved
  <1> QED
    BY <1>1, <1>2, <1>3, <1>4, <1>5, <1>6, <1>7, <1>8 DEF Wizard

(* A process begins with the copy, and leaves a file that nobody has changed. *)
LEMMA BackupInvKept ==
  SetupInv /\ BackupInv /\ [SetupNext \/ Begin \/ Leave]_setupVars => BackupInv'
  <1> SUFFICES ASSUME SetupInv, BackupInv, [SetupNext \/ Begin \/ Leave]_setupVars
               PROVE  BackupInv'
    OBVIOUS
  <1> USE DEF BackupInv, files, process
  <1>1. CASE Wizard
    BY <1>1, WizardKeepsBackup DEF SetupInv
  <1>2. CASE EndOfInput
    BY <1>2 DEF EndOfInput
  <1>3. CASE Leave
    BY <1>3 DEF Leave
  <1>4. CASE Begin
    BY <1>4 DEF Begin
  <1>5. CASE UNCHANGED setupVars
    BY <1>5 DEF setupVars
  <1> QED
    BY <1>1, <1>2, <1>3, <1>4, <1>5 DEF SetupNext, Kill

(* The config.yaml that a process found is the one in its backup, once it has *)
(* been changed, unless the copy failed (Run, State.Backup).                  *)
THEOREM OldConfigStays == MainSpec => []OldConfigIsKept
  <1>1. MainInit => BackupInv
    BY DEF MainInit, SetupInit, BackupInv
  <1>2. SetupInv /\ BackupInv /\ [MainNext]_mainVars => BackupInv'
    BY MainSteps, BackupInvKept
  <1>3. BackupInv => OldConfigIsKept
    BY DEF BackupInv, OldConfigIsKept
  <1> QED
    BY <1>1, <1>2, <1>3, SetupInvHolds, PTL DEF MainSpec

-----------------------------------------------------------------------------
(* A set of numbers with 0 and the successor of each of its members has all. *)
LEMMA Induction ==
  ASSUME NEW S, 0 \in S, \A n \in Nat : n \in S => n + 1 \in S
  PROVE  Nat \subseteq S
<1> SUFFICES ASSUME Nat \ S # {} PROVE FALSE
  OBVIOUS
<1>1. PICK m \in Nat \ S : \A k \in Nat \ S : ~(<<k, m>> \in OpToRel(<, Nat))
  BY NatLessThanWellFounded, WFMin
<1>2. \A k \in Nat \ S : ~(k < m)
  BY <1>1 DEF OpToRel
<1>3. m # 0 /\ m - 1 \in Nat /\ m - 1 < m /\ (m - 1) + 1 = m
  OBVIOUS
<1>4. m - 1 \in S
  BY <1>2, <1>3
<1> QED BY <1>3, <1>4

(* The tokens of a count: as many pairs for each x as its count says.  The    *)
(* sum of the counts is how many there are.                                   *)
Tokens(g, s) == UNION {{x} \X (1 .. g[x]) : x \in s}

(* Finitely many goroutines hold finitely many tokens. *)
LEMMA TokensFinite ==
  ASSUME NEW S, IsFiniteSet(S), NEW g \in [S -> Nat], NEW s \in SUBSET S
  PROVE  IsFiniteSet(Tokens(g, s))
<1> DEFINE T == {{x} \X (1 .. g[x]) : x \in s}
<1>1. [x \in s |-> {x} \X (1 .. g[x])] \in Surjection(s, T)
  BY DEF Surjection
<1>2. IsFiniteSet(s)
  BY FS_Subset
<1>3. IsFiniteSet(T)
  <2> HIDE DEF T
  <2> QED BY <1>1, <1>2, FS_Surjection
<1>4. \A t \in T : IsFiniteSet(t)
  <2> SUFFICES ASSUME NEW x \in s PROVE IsFiniteSet({x} \X (1 .. g[x]))
    OBVIOUS
  <2>1. IsFiniteSet({x})
    BY FS_Singleton
  <2>2. 1 \in Int /\ g[x] \in Int
    OBVIOUS
  <2>3. IsFiniteSet(1 .. g[x])
    BY <2>2, FS_Interval
  <2> QED BY <2>1, <2>3, FS_Product
<1> HIDE DEF T
<1>5. IsFiniteSet(UNION T)
  BY <1>3, <1>4, FS_UNION
<1> QED BY <1>5 DEF Tokens, T

(* The tokens of one goroutine can be counted apart from the others'. *)
LEMMA TokensSplit ==
  ASSUME NEW S, IsFiniteSet(S), NEW g \in [S -> Nat], NEW s \in SUBSET S, NEW x \in s
  PROVE  /\ Cardinality(Tokens(g, s \ {x})) \in Nat
         /\ Cardinality(Tokens(g, s)) = g[x] + Cardinality(Tokens(g, s \ {x}))
<1> DEFINE own == {x} \X (1 .. g[x])
<1> DEFINE rest == Tokens(g, s \ {x})
<1>1. Tokens(g, s) = rest \cup own /\ rest \cap own = {}
  BY DEF Tokens
<1>2. IsFiniteSet(own) /\ Cardinality(own) = g[x]
  <2> DEFINE n == g[x]
  <2>1. n \in Nat
    OBVIOUS
  <2> HIDE DEF n
  <2>2. IsFiniteSet({x}) /\ Cardinality({x}) = 1
    BY FS_Singleton
  <2>3. IsFiniteSet(1 .. n) /\ Cardinality(1 .. n) = n
    BY <2>1, FS_Interval
  <2> DEFINE one == {x}
             many == 1 .. n
  <2> HIDE DEF one, many
  <2>4. /\ IsFiniteSet(one \X many)
        /\ Cardinality(one \X many) = Cardinality(one) * Cardinality(many)
    BY <2>2, <2>3, FS_Product DEF one, many
  <2>5. Cardinality(one) * Cardinality(many) = n
    BY <2>1, <2>2, <2>3 DEF one, many
  <2>6. own = one \X many
    BY DEF one, many, n
  <2> QED BY <2>4, <2>5, <2>6 DEF n
<1>3. IsFiniteSet(rest) /\ Cardinality(rest) \in Nat
  BY TokensFinite, FS_CardinalityType
<1>4. g[x] \in Nat
  OBVIOUS
<1> HIDE DEF own, rest
<1>5. Cardinality({}) = 0
  BY FS_EmptySet
<1>6. Cardinality(rest \cup own)
        = Cardinality(rest) + Cardinality(own) - Cardinality(rest \cap own)
  BY <1>2, <1>3, FS_Union
<1>7. Cardinality(rest \cap own) = 0 /\ Cardinality(own) = g[x]
  <2>1. Cardinality(rest \cap own) = Cardinality({})
    BY <1>1
  <2> QED BY <2>1, <1>2, <1>5
<1>8. Cardinality(rest \cup own) = g[x] + Cardinality(rest)
  BY <1>3, <1>4, <1>6, <1>7
<1> QED BY <1>1, <1>3, <1>8 DEF rest

(* The recursion that SumFunction unfolds to, with h in place of itself. *)
SumSteps(g, h) ==
  [s \in SUBSET DOMAIN g |->
     IF s = {} THEN 0
     ELSE LET x == CHOOSE x \in s : TRUE IN g[x] + h[s \ {x}]]

(* If the recursion has a solution at all, SumFunction takes one. *)
LEMMA SumIsFold ==
  ASSUME NEW g, NEW h, h = SumSteps(g, h)
  PROVE  \E f : SumFunction(g) = f[DOMAIN g] /\ f = SumSteps(g, f)
<1> DEFINE iter ==
      CHOOSE f : f = [s \in SUBSET DOMAIN g |->
                        IF s = {} THEN 0
                        ELSE LET x == CHOOSE x \in s : TRUE IN g[x] + f[s \ {x}]]
<1>1. iter = SumSteps(g, iter)
  BY Zenon DEF SumSteps
<1>2. SumFunction(g) = iter[DOMAIN g]
  BY Zenon DEF SumFunction, SumFunctionOnSet, FoldFunctionOnSet, MapThenFoldSet
<1> QED BY <1>1, <1>2

(* Counting the tokens is a solution. *)
LEMMA TokensAreASolution ==
  ASSUME NEW S, IsFiniteSet(S), NEW g \in [S -> Nat]
  PROVE  [s \in SUBSET S |-> Cardinality(Tokens(g, s))]
           = SumSteps(g, [s \in SUBSET S |-> Cardinality(Tokens(g, s))])
<1> DEFINE h == [s \in SUBSET S |-> Cardinality(Tokens(g, s))]
<1>1. Tokens(g, {}) = {} /\ Cardinality({}) = 0
  BY FS_EmptySet DEF Tokens
<1>2. ASSUME NEW s \in SUBSET S, s # {}
      PROVE  h[s] = g[CHOOSE x \in s : TRUE] + h[s \ {CHOOSE x \in s : TRUE}]
  <2> DEFINE x == CHOOSE x \in s : TRUE
  <2>1. x \in s
    BY <1>2
  <2> HIDE DEF x
  <2>2. s \ {x} \in SUBSET S
    OBVIOUS
  <2>3. Cardinality(Tokens(g, s)) = g[x] + Cardinality(Tokens(g, s \ {x}))
    BY <2>1, TokensSplit
  <2>4. h[s] = g[x] + h[s \ {x}]
    BY <2>2, <2>3
  <2> HIDE DEF h
  <2> QED BY <2>4 DEF x
<1>3. h[{}] = 0 /\ DOMAIN g = S /\ h = [s \in SUBSET S |-> h[s]]
  BY <1>1
<1> HIDE DEF h
<1>4. h = SumSteps(g, h)
  BY <1>2, <1>3 DEF SumSteps
<1> QED BY <1>4 DEF h

(* It is the only one: the sum of the counts is the number of tokens. *)
LEMMA SumIsTokens ==
  ASSUME NEW S, IsFiniteSet(S), NEW g \in [S -> Nat]
  PROVE  SumFunction(g) = Cardinality(Tokens(g, S))
<1>1. PICK f : SumFunction(g) = f[DOMAIN g] /\ f = SumSteps(g, f)
  BY TokensAreASolution, SumIsFold
<1>2. /\ f[{}] = 0
      /\ \A s \in SUBSET S : s # {} =>
           f[s] = g[CHOOSE x \in s : TRUE] + f[s \ {CHOOSE x \in s : TRUE}]
  BY <1>1 DEF SumSteps
<1> DEFINE Agree == {n \in Nat : \A s \in SUBSET S :
                       Cardinality(s) = n => f[s] = Cardinality(Tokens(g, s))}
<1>3. 0 \in Agree
  <2>1. \A s \in SUBSET S : Cardinality(s) = 0 => s = {}
    BY FS_Subset, FS_EmptySet
  <2>2. Tokens(g, {}) = {} /\ Cardinality({}) = 0
    BY FS_EmptySet DEF Tokens
  <2> QED BY <1>2, <2>1, <2>2
<1>4. ASSUME NEW n \in Nat, n \in Agree
      PROVE  n + 1 \in Agree
  <2> SUFFICES ASSUME NEW s \in SUBSET S, Cardinality(s) = n + 1
               PROVE  f[s] = Cardinality(Tokens(g, s))
    OBVIOUS
  <2> DEFINE x == CHOOSE x \in s : TRUE
  <2>1. IsFiniteSet(s) /\ s # {}
    BY FS_Subset, FS_EmptySet
  <2>2. x \in s
    BY <2>1
  <2>3. f[s] = g[x] + f[s \ {x}]
    BY <1>2, <2>1
  <2> HIDE DEF x
  <2>4. Cardinality(s \ {x}) = n
    <3>1. Cardinality(s \ {x}) = Cardinality(s) - 1
      BY <2>1, <2>2, FS_RemoveElement
    <3> QED BY <3>1, (n + 1) - 1 = n
  <2>5. f[s \ {x}] = Cardinality(Tokens(g, s \ {x}))
    BY <1>4, <2>4
  <2> QED BY <2>2, <2>3, <2>5, TokensSplit
<1> HIDE DEF Agree
<1>5. Nat \subseteq Agree
  BY <1>3, <1>4, Induction
<1>6. Cardinality(S) \in Agree
  BY <1>5, FS_CardinalityType
<1>7. f[S] = Cardinality(Tokens(g, S))
  BY <1>6 DEF Agree
<1> QED BY <1>1, <1>7

(* When one count changes, the sum changes by as much. *)
LEMMA SumChange ==
  ASSUME NEW S, IsFiniteSet(S), NEW g \in [S -> Nat], NEW h \in [S -> Nat], NEW x \in S,
         \A y \in S \ {x} : h[y] = g[y]
  PROVE  /\ SumFunction(g) \in Nat
         /\ SumFunction(h) = SumFunction(g) - g[x] + h[x]
<1> DEFINE rest == Cardinality(Tokens(g, S \ {x}))
<1>1. Tokens(h, S \ {x}) = Tokens(g, S \ {x})
  BY DEF Tokens
<1>2. rest \in Nat /\ Cardinality(Tokens(g, S)) = g[x] + rest
  BY TokensSplit
<1>3. Cardinality(Tokens(h, S)) = h[x] + rest
  BY <1>1, TokensSplit
<1>4. g[x] \in Nat /\ h[x] \in Nat
  OBVIOUS
<1> HIDE DEF rest
<1>5. SumFunction(g) = g[x] + rest /\ SumFunction(h) = h[x] + rest
  BY <1>2, <1>3, SumIsTokens
<1> QED BY <1>2, <1>4, <1>5

(* The sum of no tokens. *)
LEMMA SumOfZeros ==
  ASSUME NEW S, IsFiniteSet(S)
  PROVE  SumFunction([x \in S |-> 0]) = 0
<1>1. Tokens([x \in S |-> 0], S) = {}
  BY DEF Tokens
<1>2. [x \in S |-> 0] \in [S -> Nat]
  OBVIOUS
<1> QED BY <1>1, <1>2, SumIsTokens, FS_EmptySet

-----------------------------------------------------------------------------
Places == {"idle", "queued", "writing", "stopped"}

UsageTyped ==
  /\ pend \in [Keys -> Nat] /\ db \in [Keys -> Nat]
  /\ queued \in [Keys -> Nat] /\ lost \in [Keys -> Nat]
  /\ batch \in [Flushers -> [Keys -> Nat]]
  /\ at \in [Flushers -> Places]

(* Only a Flush holds tokens: a goroutine that is about to take the map has   *)
(* none that the new ones would overwrite.                                    *)
EmptyHands == \A f \in Flushers : at[f] # "writing" => batch[f] = Zero

UsageInv == UsageTyped /\ EmptyHands /\ Conservation

(* What the goroutines hold of a key. *)
Held(b, k) == SumFunction([f \in Flushers |-> b[f][k]])

(* When one goroutine's batch changes, what all hold changes by as much. *)
LEMMA HandsChange ==
  ASSUME NEW b \in [Flushers -> [Keys -> Nat]], NEW c \in [Flushers -> [Keys -> Nat]],
         NEW f \in Flushers, \A h \in Flushers \ {f} : c[h] = b[h], NEW k \in Keys
  PROVE  /\ Held(b, k) \in Nat /\ b[f][k] \in Nat /\ c[f][k] \in Nat
         /\ Held(c, k) = Held(b, k) - b[f][k] + c[f][k]
  <1> DEFINE g == [h \in Flushers |-> b[h][k]]
  <1> DEFINE n == [h \in Flushers |-> c[h][k]]
  <1>1. IsFiniteSet(Flushers)
    BY UsageAssumption, FS_AddElement DEF Flushers
  <1>2. /\ g \in [Flushers -> Nat] /\ n \in [Flushers -> Nat]
        /\ \A h \in Flushers \ {f} : n[h] = g[h]
        /\ g[f] = b[f][k] /\ n[f] = c[f][k]
    OBVIOUS
  <1>3. Held(b, k) = SumFunction(g) /\ Held(c, k) = SumFunction(n)
    BY DEF Held
  <1>4. b[f][k] \in Nat /\ c[f][k] \in Nat
    OBVIOUS
  <1> HIDE DEF g, n
  <1>5. SumFunction(g) \in Nat /\ SumFunction(n) = SumFunction(g) - g[f] + n[f]
    BY <1>1, <1>2, SumChange
  <1> QED
    BY <1>2, <1>3, <1>4, <1>5

(* Tokens move between two places, or a token is queued: all are counted if,  *)
(* of each key, as many are queued as the places gain.                        *)
LEMMA Balance ==
  ASSUME UsageInv, UsageTyped', NEW f \in Flushers,
         \A h \in Flushers \ {f} : batch'[h] = batch[h],
         \A k \in Keys : queued'[k] + pend[k] + batch[f][k] + db[k] + lost[k]
                           = queued[k] + pend'[k] + batch'[f][k] + db'[k] + lost'[k]
  PROVE  Conservation'
  <1> SUFFICES ASSUME NEW k \in Keys
               PROVE  queued'[k] = pend'[k] + Held(batch', k) + db'[k] + lost'[k]
    BY DEF Conservation, InFlight, Held
  <1>1. batch \in [Flushers -> [Keys -> Nat]] /\ batch' \in [Flushers -> [Keys -> Nat]]
    BY DEF UsageInv, UsageTyped
  <1>2. /\ Held(batch, k) \in Nat /\ batch[f][k] \in Nat /\ batch'[f][k] \in Nat
        /\ Held(batch', k) = Held(batch, k) - batch[f][k] + batch'[f][k]
    BY <1>1, HandsChange
  <1>3. queued[k] = pend[k] + Held(batch, k) + db[k] + lost[k]
    BY DEF UsageInv, Conservation, InFlight, Held
  <1>4. /\ queued[k] \in Nat /\ pend[k] \in Nat /\ db[k] \in Nat /\ lost[k] \in Nat
        /\ queued'[k] \in Nat /\ pend'[k] \in Nat /\ db'[k] \in Nat /\ lost'[k] \in Nat
    BY DEF UsageInv, UsageTyped
  <1> DEFINE was == pend[k] + db[k] + lost[k]
  <1> DEFINE is == pend'[k] + db'[k] + lost'[k]
  <1>5. queued'[k] + was + batch[f][k] = queued[k] + is + batch'[f][k]
    <2>1. queued'[k] + pend[k] + batch[f][k] + db[k] + lost[k]
            = queued[k] + pend'[k] + batch'[f][k] + db'[k] + lost'[k]
      OBVIOUS
    <2> QED
      BY <1>2, <1>4, <2>1
  <1>6. was \in Nat /\ is \in Nat /\ queued[k] = was + Held(batch, k)
    BY <1>2, <1>3, <1>4
  <1> HIDE DEF was, is
  <1>7. queued'[k] = is + Held(batch', k)
    BY <1>2, <1>4, <1>5, <1>6
  <1>8. Held(batch', k) \in Int
    BY <1>2
  <1> QED
    BY <1>4, <1>7, <1>8 DEF is

(* Flush takes what is pending into empty hands. *)
LEMMA TakeKeeps ==
  ASSUME UsageInv, NEW f \in Flushers, at[f] # "writing", Take(f),
         UNCHANGED <<db, queued, lost>>
  PROVE  UsageInv'
  <1> USE DEF UsageInv, UsageTyped, EmptyHands
  <1>1. UsageTyped' /\ EmptyHands'
    BY DEF Take, GoTo, LeftPending, Zero, Places
  <1>2. /\ batch[f] = Zero /\ batch'[f] = pend /\ pend' = Zero
        /\ \A h \in Flushers \ {f} : batch'[h] = batch[h]
    BY DEF Take, LeftPending
  <1>3. ASSUME NEW k \in Keys
        PROVE  queued'[k] + pend[k] + batch[f][k] + db[k] + lost[k]
                 = queued[k] + pend'[k] + batch'[f][k] + db'[k] + lost'[k]
    <2>1. batch[f][k] = 0 /\ pend'[k] = 0 /\ batch'[f][k] = pend[k]
      BY <1>2 DEF Zero
    <2>2. queued[k] \in Nat /\ pend[k] \in Nat /\ db[k] \in Nat /\ lost[k] \in Nat
      OBVIOUS
    <2> QED
      BY <2>1, <2>2
  <1>4. Conservation'
    BY <1>1, <1>2, <1>3, Balance
  <1> QED
    BY <1>1, <1>4

(* A Flush writes a key, gives up, or returns. *)
LEMMA FlushKeeps ==
  ASSUME UsageInv, NEW f \in Flushers, Flush(f)
  PROVE  UsageInv'
  <1> USE DEF UsageInv, UsageTyped, EmptyHands
  <1>1. CASE \E k \in Keys : Write(f, k)
    <2> PICK k \in Keys : Write(f, k)
      BY <1>1
    <2>1. /\ batch' = [batch EXCEPT ![f] = [batch[f] EXCEPT ![k] = 0]]
          /\ db' = [db EXCEPT ![k] = db[k] + batch[f][k]]
          /\ UNCHANGED <<at, pend, queued, lost>>
      BY DEF Write
    <2>2. at[f] = "writing" /\ batch[f] \in [Keys -> Nat] /\ batch[f][k] \in Nat
      BY DEF Write
    <2>3. UsageTyped' /\ EmptyHands'
      BY <2>1, <2>2
    <2>4. ASSUME NEW j \in Keys
          PROVE  queued'[j] + pend[j] + batch[f][j] + db[j] + lost[j]
                   = queued[j] + pend'[j] + batch'[f][j] + db'[j] + lost'[j]
      <3>1. /\ batch'[f][j] = IF j = k THEN 0 ELSE batch[f][j]
            /\ db'[j] = IF j = k THEN db[k] + batch[f][k] ELSE db[j]
        BY <2>1, <2>2
      <3>2. /\ queued[j] \in Nat /\ pend[j] \in Nat /\ db[j] \in Nat /\ lost[j] \in Nat
            /\ batch[f][j] \in Nat
        BY <2>2
      <3>3. queued'[j] = queued[j] /\ pend'[j] = pend[j] /\ lost'[j] = lost[j]
        BY <2>1
      <3> QED
        BY <3>1, <3>2, <3>3
    <2>5. \A h \in Flushers \ {f} : batch'[h] = batch[h]
      BY <2>1
    <2>6. Conservation'
      BY <2>3, <2>4, <2>5, Balance
    <2> QED
      BY <2>3, <2>6
  <1>2. CASE WriteFails(f)
    <2>1. /\ batch' = [batch EXCEPT ![f] = Zero] /\ lost' = Plus(lost, batch[f])
          /\ at' = [at EXCEPT ![f] = AfterFlush(f)]
          /\ UNCHANGED <<pend, db, queued>>
      BY <1>2 DEF WriteFails, GoTo
    <2>2. AfterFlush(f) \in Places /\ Zero \in [Keys -> Nat] /\ batch[f] \in [Keys -> Nat]
      BY DEF AfterFlush, Zero, Places
    <2>3. UsageTyped' /\ EmptyHands'
      BY <2>1, <2>2 DEF Plus
    <2>4. ASSUME NEW j \in Keys
          PROVE  queued'[j] + pend[j] + batch[f][j] + db[j] + lost[j]
                   = queued[j] + pend'[j] + batch'[f][j] + db'[j] + lost'[j]
      <3>1. batch'[f][j] = 0 /\ lost'[j] = lost[j] + batch[f][j]
        BY <2>1 DEF Plus, Zero
      <3>2. /\ queued[j] \in Nat /\ pend[j] \in Nat /\ db[j] \in Nat /\ lost[j] \in Nat
            /\ batch[f][j] \in Nat
        BY <2>2
      <3>3. queued'[j] = queued[j] /\ pend'[j] = pend[j] /\ db'[j] = db[j]
        BY <2>1
      <3> QED
        BY <3>1, <3>2, <3>3
    <2>5. \A h \in Flushers \ {f} : batch'[h] = batch[h]
      BY <2>1
    <2>6. Conservation'
      BY <2>3, <2>4, <2>5, Balance
    <2> QED
      BY <2>3, <2>6
  <1>3. CASE Return(f)
    <2>1. UNCHANGED <<pend, batch, db, queued, lost>>
      BY <1>3 DEF Return
    <2>2. UsageTyped' /\ EmptyHands'
      BY <1>3 DEF Return, GoTo, AfterFlush, Places
    <2>3. Conservation'
      BY <2>1 DEF Conservation, InFlight
    <2> QED
      BY <2>2, <2>3
  <1> QED
    BY <1>1, <1>2, <1>3 DEF Flush

(* A delta is merged into what is pending. *)
LEMMA QueueKeeps ==
  ASSUME UsageInv, NEW c \in Callers, NEW k \in Keys, Queue(c, k)
  PROVE  UsageInv'
  <1> USE DEF UsageInv, UsageTyped, EmptyHands
  <1>1. /\ pend' = [pend EXCEPT ![k] = pend[k] + 1]
        /\ queued' = [queued EXCEPT ![k] = queued[k] + 1]
        /\ at' = [at EXCEPT ![c] = "queued"]
        /\ UNCHANGED <<batch, db, lost>> /\ at[c] = "idle"
    BY DEF Queue, Merged, GoTo
  <1>2. c \in Flushers
    BY DEF Flushers
  <1>3. pend[k] \in Nat /\ queued[k] \in Nat
    OBVIOUS
  <1>4. UsageTyped' /\ EmptyHands'
    BY <1>1, <1>2, <1>3 DEF Places
  <1>5. ASSUME NEW j \in Keys
        PROVE  queued'[j] + pend[j] + batch[c][j] + db[j] + lost[j]
                 = queued[j] + pend'[j] + batch'[c][j] + db'[j] + lost'[j]
    <2>1. /\ pend'[j] = IF j = k THEN pend[j] + 1 ELSE pend[j]
          /\ queued'[j] = IF j = k THEN queued[j] + 1 ELSE queued[j]
      BY <1>1
    <2>2. batch[c] \in [Keys -> Nat]
      BY <1>2
    <2>3. /\ queued[j] \in Nat /\ pend[j] \in Nat /\ db[j] \in Nat /\ lost[j] \in Nat
          /\ batch[c][j] \in Nat
      BY <2>2
    <2>4. batch'[c][j] = batch[c][j] /\ db'[j] = db[j] /\ lost'[j] = lost[j]
      BY <1>1
    <2> QED
      BY <2>1, <2>3, <2>4
  <1>6. \A h \in Flushers \ {c} : batch'[h] = batch[h]
    BY <1>1
  <1>7. Conservation'
    BY <1>2, <1>4, <1>5, <1>6, Balance
  <1> QED
    BY <1>4, <1>7

(* No token moves while the goroutines only change place. *)
LEMMA UsageRests ==
  ASSUME UsageInv, UNCHANGED <<pend, batch, db, queued, lost>>,
         at' \in [Flushers -> Places],
         \A f \in Flushers : at'[f] = "writing" \/ batch[f] = Zero
  PROVE  UsageInv'
  BY DEF UsageInv, UsageTyped, EmptyHands, Conservation, InFlight

LEMMA UsageInvKept == UsageInv /\ [MainNext]_mainVars => UsageInv'
  <1> SUFFICES ASSUME UsageInv, [MainNext]_mainVars
               PROVE  UsageInv'
    OBVIOUS
  <1>1. /\ at \in [Flushers -> Places] /\ Loop \in Flushers
        /\ \A c \in Callers : c \in Flushers
        /\ \A f \in Flushers : at[f] # "writing" => batch[f] = Zero
    BY DEF UsageInv, UsageTyped, EmptyHands, Flushers
  <1>2. CASE Start
    <2>1. /\ UNCHANGED <<pend, batch, db, queued, lost>>
          /\ at' = [f \in Flushers |-> "idle"] /\ \A f \in Flushers : batch[f] = Zero
      BY <1>2 DEF Start
    <2>2. at' \in [Flushers -> Places]
      BY <2>1 DEF Places
    <2> QED
      BY <2>1, <2>2, UsageRests
  <1>3. CASE Chat
    <2> PICK c \in Callers : CallerStep(c)
      BY <1>3 DEF Chat
    <2>1. CASE \E k \in Keys : Queue(c, k)
      BY <2>1, QueueKeeps
    <2>2. CASE Notify(c)
      <3>1. /\ UNCHANGED <<pend, batch, db, queued, lost>>
            /\ at[c] = "queued" /\ at' = [at EXCEPT ![c] = "idle"]
        BY <2>2 DEF Notify, GoTo
      <3> QED
        BY <1>1, <3>1, UsageRests DEF Places
    <2>3. CASE StartFlush(c)
      <3>1. /\ at[c] # "writing" /\ Take(c) /\ UNCHANGED <<db, queued, lost>>
        BY <2>3 DEF StartFlush
      <3> QED
        BY <1>1, <3>1, TakeKeeps
    <2>4. CASE Flush(c)
      BY <1>1, <2>4, FlushKeeps
    <2> QED
      BY <2>1, <2>2, <2>3, <2>4 DEF CallerStep
  <1>4. CASE UsageLoop
    <2>1. CASE OnNotify \/ OnIdle \/ OnQuit
      <3>1. /\ at[Loop] # "writing" /\ Take(Loop) /\ UNCHANGED <<db, queued, lost>>
        BY <2>1 DEF OnNotify, OnIdle, OnQuit, FinalFlush
      <3> QED
        BY <1>1, <3>1, TakeKeeps
    <2>2. CASE Flush(Loop)
      BY <1>1, <2>2, FlushKeeps
    <2> QED
      BY <1>4, <2>1, <2>2 DEF UsageLoop, LoopStep
  <1>5. CASE Deferred \/ Exit \/ SetupStep \/ UNCHANGED mainVars
    <2>1. UNCHANGED <<pend, batch, db, queued, lost, at>>
      BY <1>5 DEF Deferred, Close, Exit, SetupStep, mainVars, vars
    <2> QED
      BY <1>1, <2>1, UsageRests
  <1> QED
    BY <1>2, <1>3, <1>4, <1>5 DEF MainNext

LEMMA InitUsageInv == MainInit => UsageInv
  <1> SUFFICES ASSUME MainInit
               PROVE  UsageInv
    OBVIOUS
  <1>1. UsageTyped /\ EmptyHands
    BY DEF MainInit, Init, UsageTyped, EmptyHands, Zero, Places
  <1>2. ASSUME NEW k \in Keys
        PROVE  queued[k] = pend[k] + InFlight(k) + db[k] + lost[k]
    <2>1. [f \in Flushers |-> batch[f][k]] = [f \in Flushers |-> 0]
      BY DEF MainInit, Init, Zero
    <2>2. IsFiniteSet(Flushers)
      BY UsageAssumption, FS_AddElement DEF Flushers
    <2>3. InFlight(k) = 0
      BY <2>1, <2>2, SumOfZeros DEF InFlight
    <2>4. queued[k] = 0 /\ pend[k] = 0 /\ db[k] = 0 /\ lost[k] = 0
      BY DEF MainInit, Init, Zero
    <2> QED
      BY <2>3, <2>4
  <1> QED
    BY <1>1, <1>2 DEF UsageInv, Conservation

(* However Queue, direct flushes, the loop and Close interleave, and whichever *)
(* writes fail, every token queued is pending, in one Flush, in the table, or  *)
(* given up by a Flush whose write failed, and counted once (UsageWriter).     *)
THEOREM TokensAreConserved == MainSpec => []Conservation
  <1>1. UsageInv => Conservation
    BY DEF UsageInv
  <1> QED
    BY <1>1, InitUsageInv, UsageInvKept, PTL DEF MainSpec
=============================================================================
