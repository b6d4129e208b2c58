---------------------------- MODULE StartUpProofs ----------------------------
(***************************************************************************)
(* The app is entered when what its first screens read is there, and its   *)
(* texts are in the chosen language, for any languages and any numbers of  *)
(* taps, requests and starts.                                              *)
(***************************************************************************)
EXTENDS StartUp, TLAPS

Shape ==
  /\ stage \in {"closed", "logo", "leaving", "stuck", "offer", "force", "ask", "app"}
  /\ leaving \in Nat /\ asked \in Nat
  /\ settings \in Settings \cup {None}
  /\ home \in {"none", "placed", "blank"}

\* Nothing is left of an earlier start.
Fresh ==
  stage = "closed" =>
    /\ settings = None /\ asked = 0 /\ leaving = 0 /\ ~userLocation /\ ~firstFailed
    /\ ~settingsAsked /\ ~firstAsked

\* Settings do not change once they are there, and the way to the home screen
\* goes on from them.
Configured ==
  /\ settings # None => ~settingsAsked
  /\ asked > 0 \/ leaving > 0 \/ stage \in {"leaving", "offer", "force", "ask", "app"}
       => settings # None
  /\ asked > 0 \/ stage = "ask" => settings.multiVendor

\* HomeController comes with the answer of onInit at the latest, and asks for the
\* data of no place only when there is none, or when the vendor is the only one.
Located ==
  /\ userLocation /\ ~overtaken => ~firstAsked
  /\ ~firstAsked /\ stage # "closed" => home # "none"
  /\ firstFailed => ~firstAsked
  /\ home = "blank" => firstFailed \/ (settings # None /\ ~settings.multiVendor)

\* What EnteredReady needs is there from when the home screen is decided on.
Entering ==
  (leaving > 0 \/ stage \in {"leaving", "app"}) /\ ~overtaken =>
     home # "none" /\ (settings.multiVendor => userLocation)

\* A single timer leads to the home screen.
OneTimer ==
  ~hasty => /\ asked \in {0, 1} /\ (asked > 0 => stage \in {"ask", "stuck"})
            /\ leaving = (IF stage = "leaving" THEN 1 ELSE 0)

Ready == Shape /\ Fresh /\ Configured /\ Located /\ Entering /\ OneTimer

LEMMA ReadyInit == Init => Ready
  BY DEF Init, Ready, Shape, Fresh, Configured, Located, Entering, OneTimer

\* The decision to enter, shared by the timer and by the offer of a new version.
LEMMA ReadyConfig ==
  ASSUME Ready, stage \in {"logo", "offer"}, settings # None, SetMultiVendorConfig,
         UNCHANGED <<config, userLocation, firstAsked, asked, history>>
  PROVE  Ready'
  <1> USE DEF Ready, Shape, Fresh, Configured, Located, Entering, OneTimer,
              config, history, Settings
  <1>1. CASE settings.multiVendor /\ userLocation
    BY <1>1 DEF SetMultiVendorConfig, NavigateToApp
  <1>2. CASE settings.multiVendor /\ ~userLocation
    BY <1>2 DEF SetMultiVendorConfig
  <1>3. CASE ~settings.multiVendor
    BY <1>3 DEF SetMultiVendorConfig, NavigateToApp, PutHome
  <1> QED BY <1>1, <1>2, <1>3

LEMMA ReadyStep == Ready /\ [Next]_vars => Ready'
  <1> SUFFICES ASSUME Ready, [Next]_vars PROVE Ready'
    OBVIOUS
  <1> USE DEF Ready, Shape, Fresh, Configured, Located, Entering, OneTimer,
              place, config, location, history
  <1>1. CASE UNCHANGED vars
    BY <1>1 DEF vars
  <1>2. CASE Start
    BY <1>2 DEF Start
  <1>3. CASE Close
    BY <1>3 DEF Close
  <1>4. CASE TapLater
    BY <1>4, ReadyConfig DEF TapLater
  <1>5. CASE TapGiveLocation
    <2>1. ~hasty' => ~hasty /\ ~(asked > 0)
      BY <1>5, Zenon DEF TapGiveLocation
    <2>2. /\ stage = "ask" /\ asked' = asked + 1
          /\ UNCHANGED <<place, config, userLocation, firstAsked, home, firstFailed, overtaken>>
      BY <1>5 DEF TapGiveLocation
    <2> QED BY <2>1, <2>2
  <1>6. ASSUME NEW l \in Lang, ChooseLanguage(l) PROVE Ready'
    BY <1>6 DEF ChooseLanguage, NavigateToApp
  <1>7. CASE CheckForNewVersion
    <2>1. CASE settings = None
      BY <1>7, <2>1 DEF CheckForNewVersion
    <2>2. CASE settings # None /\ settings.version # "current"
      BY <1>7, <2>2 DEF CheckForNewVersion
    <2>3. CASE settings # None /\ settings.version = "current"
      BY <1>7, <2>3, ReadyConfig DEF CheckForNewVersion
    <2> QED BY <2>1, <2>2, <2>3
  <1>8. CASE ShowApp
    BY <1>8 DEF ShowApp
  <1>9. CASE SettingsReply
    <2>1. ~settingsAsked' /\ settingsAsked
      BY <1>9, Zenon DEF SettingsReply
    <2>2. settings' \in Settings \cup {None} /\ UNCHANGED <<place, location, history>>
      BY <1>9 DEF SettingsReply
    <2> QED BY <2>1, <2>2
  <1>10. CASE FirstLocation
    <2>1. firstAsked /\ ~firstAsked' /\ (userLocation' \/ firstFailed')
      BY <1>10, Zenon DEF FirstLocation
    <2>2. /\ home' = IF home # "none" THEN home ELSE IF userLocation' THEN "placed" ELSE "blank"
          /\ UNCHANGED <<asked, place, config, overtaken, hasty>>
      BY <1>10 DEF FirstLocation, PutHome
    <2> QED BY <2>1, <2>2
  <1>11. ASSUME NEW known \in BOOLEAN, GiveReply(known) PROVE Ready'
    <2>1. ~overtaken' => ~overtaken /\ ~firstAsked
      BY <1>11, Zenon DEF GiveReply
    <2>2. userLocation' <=> userLocation \/ known
      BY <1>11, Zenon DEF GiveReply, Given
    <2>3. /\ asked > 0 /\ asked' = asked - 1
          /\ UNCHANGED <<config, firstAsked, home, firstFailed, hasty>>
      BY <1>11 DEF GiveReply
    <2>4. CASE userLocation'
      <3>1. stage' = "leaving" /\ leaving' = leaving + 1
        BY <1>11, <2>4 DEF GiveReply, Given, NavigateToApp
      <3> QED BY <2>1, <2>3, <2>4, <3>1
    <2>5. CASE ~userLocation'
      <3>1. UNCHANGED <<stage, leaving>>
        BY <1>11, <2>5 DEF GiveReply, Given
      <3>2. ~userLocation
        BY <2>2, <2>5
      <3> QED BY <2>1, <2>3, <2>5, <3>1, <3>2
    <2> QED BY <2>4, <2>5
  <1>12. ASSUME NEW n \in DOMAIN labelCalls, LabelsReply(n) PROVE Ready'
    BY <1>12 DEF LabelsReply
  <1>16. CASE BackButton
    BY <1>16 DEF BackButton
  <1>13. CASE User
    BY <1>13, <1>2, <1>3, <1>4, <1>5, <1>6, <1>16 DEF User
  <1>14. CASE Timers
    BY <1>14, <1>7, <1>8 DEF Timers
  <1>15. CASE Replies
    BY <1>15, <1>9, <1>10, <1>11, <1>12 DEF Replies
  <1> QED BY <1>1, <1>13, <1>14, <1>15 DEF Next

\* The home screen finds settings, controllers and location, in whatever order
\* they come: what is decided before the timers run still holds after them.
THEOREM AppIsReady == Spec => []EnteredReady
  <1>1. Ready => EnteredReady
    BY DEF Ready, Shape, Configured, Located, Entering, OneTimer,
           EnteredReady, HasWhatItReads, HomeOfTheArea, EnteredOnce
  <1> QED BY ReadyInit, ReadyStep, <1>1, PTL DEF Spec

-----------------------------------------------------------------------------
\* One request for labels is in flight unless the user hurries, and it is the one
\* of the language.
LabelsInv ==
  /\ labelCalls \in Seq(Lang) /\ stored \in Lang \cup {None}
  /\ stage = "closed" => labels = None /\ labelCalls = <<>> /\ ~hurried
  /\ stage # "closed" => stored \in {lang, None}
  /\ ~hurried => /\ labels \in {lang, None} /\ Len(labelCalls) <= 1
                 /\ \A n \in DOMAIN labelCalls : labelCalls[n] = lang

LEMMA LabelsInit == Init => LabelsInv
  BY DEF Init, LabelsInv

LEMMA LabelsStep == Ready /\ LabelsInv /\ [Next]_vars => LabelsInv'
  <1> SUFFICES ASSUME Ready, LabelsInv, [Next]_vars PROVE LabelsInv'
    OBVIOUS
  <1> USE DEF LabelsInv
  <1>same. ASSUME UNCHANGED <<language, hurried>>,
                  (stage = "closed") <=> (stage' = "closed")
           PROVE  LabelsInv'
    BY <1>same DEF language
  <1>1. CASE UNCHANGED vars
    BY <1>1, <1>same DEF vars, place, history
  <1>2. CASE Start
    <2>1. /\ stage' = "logo" /\ lang' = (IF stored = None THEN Default ELSE stored)
          /\ labelCalls' = <<lang'>> /\ labels' = None /\ stored' = stored
      BY <1>2 DEF Start
    <2>2. labelCalls' \in Seq(Lang)
      BY <2>1, <1>2, LangAssumption DEF Start
    <2> QED BY <2>1, <2>2
  <1>3. CASE Close
    BY <1>3 DEF Close
  <1>4. ASSUME NEW l \in Lang, ChooseLanguage(l) PROVE LabelsInv'
    <2>1. stage # "closed" /\ stage' # "closed"
      BY <1>4 DEF ChooseLanguage, NavigateToApp
    <2>2. lang' = l /\ stored' = l /\ labels' = None /\ labelCalls' = Append(labelCalls, l)
      BY <1>4 DEF ChooseLanguage, ToggleLanguage
    <2>3. ~hurried' => labelCalls = <<>>
      BY <1>4 DEF ChooseLanguage
    <2> QED BY <2>1, <2>2, <2>3
  <1>5. ASSUME NEW n \in DOMAIN labelCalls, LabelsReply(n) PROVE LabelsInv'
    <2>1. /\ labelCalls' = RemoveAt(labelCalls, n)
          /\ labels' \in {labelCalls[n], None}
          /\ UNCHANGED <<lang, stored, stage, hurried>>
      BY <1>5 DEF LabelsReply, place, history
    <2>2. labelCalls' \in Seq(Lang)
      BY <2>1 DEF RemoveAt
    <2>3. Len(labelCalls) <= 1 => labelCalls' = <<>>
      BY <2>1 DEF RemoveAt
    <2>4. stage # "closed"
      OBVIOUS
    <2> QED BY <2>1, <2>2, <2>3, <2>4
  <1>6. ASSUME \/ TapLater \/ BackButton \/ TapGiveLocation \/ CheckForNewVersion \/ ShowApp
               \/ SettingsReply \/ FirstLocation
               \/ \E known \in BOOLEAN : GiveReply(known)
        PROVE LabelsInv'
    <2>1. UNCHANGED <<language, hurried>>
      BY <1>6 DEF TapLater, BackButton, TapGiveLocation, CheckForNewVersion, ShowApp, SettingsReply,
                  FirstLocation, GiveReply, history
    <2>2. stage # "closed" \/ UNCHANGED stage
      <3>1. CASE TapLater \/ BackButton \/ TapGiveLocation \/ CheckForNewVersion
        BY <3>1 DEF TapLater, BackButton, TapGiveLocation, CheckForNewVersion
      <3>2. CASE ShowApp \/ \E known \in BOOLEAN : GiveReply(known)
        <4>1. leaving > 0 \/ asked > 0
          BY <3>2 DEF ShowApp, GiveReply
        <4> QED BY <4>1 DEF Ready, Fresh, Shape
      <3>3. CASE SettingsReply \/ FirstLocation
        BY <3>3 DEF SettingsReply, FirstLocation, place
      <3> QED BY <1>6, <3>1, <3>2, <3>3
    <2>3. stage' # "closed" \/ UNCHANGED stage
      BY <1>6 DEF TapLater, BackButton, TapGiveLocation, CheckForNewVersion, ShowApp, SettingsReply,
                  FirstLocation, GiveReply, Given, SetMultiVendorConfig, NavigateToApp, place
    <2> QED BY <2>1, <2>2, <2>3, <1>same
  <1>7. CASE User
    BY <1>7, <1>2, <1>3, <1>4, <1>6 DEF User
  <1>8. CASE Timers
    BY <1>8, <1>6 DEF Timers
  <1>9. CASE Replies
    BY <1>9, <1>5, <1>6 DEF Replies
  <1> QED BY <1>1, <1>7, <1>8, <1>9 DEF Next

\* Labels that are shown, and the language that is stored, are those of the
\* language chosen last, as long as the labels are waited for.
THEOREM TextsInLanguage == Spec => []LabelsOfLanguage
  <1>1. LabelsInv => LabelsOfLanguage
    BY DEF LabelsInv, LabelsOfLanguage
  <1>2. Init => Ready /\ LabelsInv
    BY ReadyInit, LabelsInit
  <1>3. Ready /\ LabelsInv /\ [Next]_vars => (Ready /\ LabelsInv)'
    BY ReadyStep, LabelsStep
  <1> QED BY <1>1, <1>2, <1>3, PTL DEF Spec
=============================================================================
