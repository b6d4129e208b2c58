------------------------------- MODULE StartUp -------------------------------
(***************************************************************************)
(* From the start of the app to its home screen, and the change of its     *)
(* language, which shows the splash screen again:                          *)
(* lib/controllers/splash_controller.dart, settings_controller.dart,       *)
(* location_controller.dart, home_controller.dart and                      *)
(* language_controller.dart.                                               *)
(*                                                                         *)
(* The splash screen counts seconds while the settings, the location and   *)
(* the labels are asked for, each by a controller of its own; it does not  *)
(* wait for any of them.                                                   *)
(* Left out: the stored login (module UserSession), the connection that is *)
(* lost on the way, vendors and categories.                                *)
(***************************************************************************)
EXTENDS Integers, Sequences, SequencesExt

CONSTANTS
  Lang, Default, \* the languages, and the one of a new installation
  None,          \* null
  Fails,         \* settings, location and labels may not be had
  MaxTaps,       \* bound: taps on give_location that are waiting
  MaxLabels,     \* bound: requests for labels in flight
  MaxStarts      \* bound: starts of the app

ASSUME LangAssumption == Default \in Lang /\ None \notin Lang
ASSUME FailsAssumption == Fails \in BOOLEAN
ASSUME BoundAssumption == {MaxTaps, MaxLabels, MaxStarts} \subseteq Nat

VARIABLES
  stage,        \* "closed", the splash screen ("logo", "leaving", "stuck"), its
                \* dialogs ("offer", "force", "ask") or "app"
  leaving,      \* timers that will show the home screen
  settings,     \* settingsData, or None
  settingsAsked,
  userLocation, \* it is known
  firstAsked,   \* onInit of the location controller waits for it
  asked,        \* taps on give_location that wait for it
  home,         \* HomeController: "none", or its data asked for with the location
                \* ("placed") or without ("blank")
  lang, labels, stored,
  labelCalls,   \* the languages of the requests in flight, the oldest first
  starts,
  firstFailed,  \* history: onInit did not get the location
  overtaken,    \* history: a tap got its location before onInit did
  hasty,        \* history: give_location was tapped while it was looked up
  hurried       \* history: a language was chosen while labels were on their way

place == <<stage, leaving>>
config == <<settings, settingsAsked>>
location == <<userLocation, firstAsked, asked, home>>
language == <<lang, labels, stored, labelCalls>>
history == <<firstFailed, overtaken, hasty, hurried>>
vars == <<place, config, location, language, starts, history>>

Settings == [multiVendor : BOOLEAN, version : {"current", "offered", "forced"}]

Init ==
  /\ stage = "closed" /\ leaving = 0 /\ starts = 0
  /\ settings = None /\ settingsAsked = FALSE
  /\ userLocation = FALSE /\ firstAsked = FALSE /\ asked = 0 /\ home = "none"
  /\ lang = None /\ labels = None /\ stored = None /\ labelCalls = <<>>
  /\ firstFailed = FALSE /\ overtaken = FALSE /\ hasty = FALSE /\ hurried = FALSE

\* main, MainBinding and the controllers' onInit.
Start ==
  /\ stage = "closed" /\ stage' = "logo"
  /\ starts < MaxStarts /\ starts' = starts + 1
  /\ settingsAsked' = TRUE /\ firstAsked' = TRUE
  /\ lang' = IF stored = None THEN Default ELSE stored
  /\ labelCalls' = <<lang'>>
  /\ UNCHANGED <<leaving, settings, userLocation, asked, home, labels, stored, history>>

\* The process ends: close_app in a dialog, or the system does it.
Close ==
  /\ stage # "closed" /\ stage' = "closed" /\ leaving' = 0
  /\ settings' = None /\ settingsAsked' = FALSE
  /\ userLocation' = FALSE /\ firstAsked' = FALSE /\ asked' = 0 /\ home' = "none"
  /\ lang' = None /\ labels' = None /\ labelCalls' = <<>>
  /\ firstFailed' = FALSE /\ overtaken' = FALSE /\ hasty' = FALSE /\ hurried' = FALSE
  /\ UNCHANGED <<stored, starts>>

-----------------------------------------------------------------------------
(* What is asked for at the start                                            *)
\* When it fails settingsData is null, and onInit goes no further.
SettingsReply ==
  /\ settingsAsked /\ settingsAsked' = FALSE
  /\ settings' \in Settings \cup (IF Fails THEN {None} ELSE {})
  /\ UNCHANGED <<place, location, language, starts, history>>

\* Get.put of a permanent controller: an earlier one stays.
PutHome(known) ==
  home' = IF home # "none" THEN home ELSE IF known THEN "placed" ELSE "blank"

\* onInit of the location controller: null replaces what was known.
FirstLocation ==
  /\ firstAsked /\ firstAsked' = FALSE
  /\ userLocation' \in {TRUE} \cup (IF Fails THEN {FALSE} ELSE {})
  /\ PutHome(userLocation')
  /\ firstFailed' = ~userLocation'
  /\ UNCHANGED <<asked, place, config, language, starts, overtaken, hasty, hurried>>

-----------------------------------------------------------------------------
(* The splash screen                                                         *)
NavigateToApp == stage' = "leaving" /\ leaving' = leaving + 1

\* Mutant: one does not wait for the location.
SetMultiVendorConfigUnasked ==
  /\ NavigateToApp
  /\ IF settings.multiVendor THEN UNCHANGED home ELSE PutHome(userLocation)

SetMultiVendorConfig ==
  IF settings.multiVendor
  THEN /\ IF userLocation THEN NavigateToApp ELSE stage' = "ask" /\ UNCHANGED leaving
       /\ UNCHANGED home
  ELSE NavigateToApp /\ PutHome(userLocation)

\* checkForNewVersion, four seconds after the screen is shown; without settings
\* it throws, and nothing calls it again.
CheckForNewVersion ==
  /\ stage = "logo"
  /\ \/ settings = None /\ stage' = "stuck" /\ UNCHANGED <<leaving, home>>
     \/ /\ settings # None /\ settings.version # "current"
        /\ stage' = IF settings.version = "forced" THEN "force" ELSE "offer"
        /\ UNCHANGED <<leaving, home>>
     \/ settings # None /\ settings.version = "current" /\ SetMultiVendorConfig
  /\ UNCHANGED <<config, userLocation, firstAsked, asked, language, starts, history>>

TapLater ==
  /\ stage = "offer"
  /\ SetMultiVendorConfig
  /\ UNCHANGED <<config, userLocation, firstAsked, asked, language, starts, history>>

\* The back button closes a dialog, which is only kept from being closed by a tap
\* beside it; what is under it is the splash screen, and nothing calls it again.
BackButton ==
  /\ stage \in {"offer", "force", "ask"} /\ stage' = "stuck"
  /\ UNCHANGED <<leaving, config, location, language, starts, history>>

TapGiveLocation ==
  /\ stage = "ask" /\ asked < MaxTaps
  /\ asked' = asked + 1 /\ hasty' = (hasty \/ asked > 0)
  /\ UNCHANGED <<place, config, userLocation, firstAsked, home, language, starts,
                 firstFailed, overtaken, hurried>>

\* Mutant: its own result decides.
GivenOwn(known) ==
  /\ userLocation' = (userLocation \/ known)
  /\ IF known THEN NavigateToApp ELSE UNCHANGED place
\* getUserLocation sets userLocation, which is then looked at.
Given(known) ==
  /\ userLocation' = (userLocation \/ known)
  /\ IF userLocation' THEN NavigateToApp ELSE UNCHANGED place

GiveReply(known) ==
  /\ asked > 0 /\ asked' = asked - 1 /\ (Fails \/ known)
  /\ Given(known)
  /\ overtaken' = (overtaken \/ firstAsked)
  /\ UNCHANGED <<config, firstAsked, home, language, starts, firstFailed, hasty, hurried>>

\* Get.offAll(ScreenNavigator)
ShowApp ==
  /\ leaving > 0 /\ leaving' = leaving - 1 /\ stage' = "app"
  /\ UNCHANGED <<config, location, language, starts, history>>

-----------------------------------------------------------------------------
(* Language                                                                  *)
\* Mutant: the labels are asked for before the language is set.
ToggleLanguageLate(l) ==
  /\ lang' = l /\ stored' = l /\ labels' = None
  /\ labelCalls' = Append(labelCalls, lang)
\* labels are cleared and asked for again.
ToggleLanguage(l) ==
  /\ lang' = l /\ stored' = l /\ labels' = None
  /\ labelCalls' = Append(labelCalls, l)

\* The buttons of settings_screen.  The splash screen is shown anew, with a new
\* controller if the old one went with its screen (Get.find then throws), else
\* with the old one, which is told to go on.
ChooseLanguage(l) ==
  /\ stage = "app" /\ Len(labelCalls) < MaxLabels
  /\ ToggleLanguage(l)
  /\ hurried' = (hurried \/ labelCalls # <<>>)
  /\ NavigateToApp \/ (stage' = "logo" /\ UNCHANGED leaving)
  /\ UNCHANGED <<config, location, starts, firstFailed, overtaken, hasty>>

\* Without an answer the labels are empty.
LabelsReply(n) ==
  /\ labelCalls' = RemoveAt(labelCalls, n)
  /\ labels' \in {labelCalls[n]} \cup (IF Fails THEN {None} ELSE {})
  /\ UNCHANGED <<lang, stored, place, config, location, starts, history>>

-----------------------------------------------------------------------------
User == \/ Start \/ Close \/ TapLater \/ BackButton \/ TapGiveLocation
        \/ \E l \in Lang : ChooseLanguage(l)
Timers == CheckForNewVersion \/ ShowApp
Replies == \/ SettingsReply \/ FirstLocation
           \/ \E known \in BOOLEAN : GiveReply(known)
           \/ \E n \in DOMAIN labelCalls : LabelsReply(n)

Next == User \/ Timers \/ Replies
Spec == Init /\ [][Next]_vars

\* Timers fire, and a location that is looked up is found or not.
FairSpec == /\ Spec
            /\ WF_vars(CheckForNewVersion) /\ WF_vars(ShowApp)
            /\ WF_vars(\E known \in BOOLEAN : GiveReply(known))

-----------------------------------------------------------------------------
(* Properties                                                                *)
\* What the first screens read without asking whether it is there: the settings,
\* HomeController (Get.find) and, with many vendors, the location.
HasWhatItReads ==
  /\ settings # None
  /\ ~overtaken => home # "none" /\ (settings.multiVendor => userLocation)
\* 'we_need_your_location_to_show_you_vendors_in_your_area'
HomeOfTheArea == settings.multiVendor /\ ~overtaken /\ ~firstFailed => home = "placed"
\* A second entry would throw the user back to the home screen.
EnteredOnce == ~hasty => leaving = 0

\* Whatever comes first, the settings, a location or the timers, and however often
\* the language is changed: the app is entered when what it reads is there, and
\* once.  (Not so when a tap gets its location before onInit does, or when
\* give_location is tapped twice.)
EnteredReady == stage = "app" => HasWhatItReads /\ HomeOfTheArea /\ EnteredOnce

\* The texts are in the language that was chosen last, which is the one that the
\* next start takes, unless another is chosen while labels are on their way.
LabelsOfLanguage ==
  stage # "closed" => /\ stored \in {lang, None}
                      /\ ~hurried => labels \in {lang, None}

\* When the settings are there in time the splash screen is left for the app or for a
\* dialog; and a location that was given leads on once it is known, also when the dialog
\* has been closed meanwhile (unless an answer of onInit that comes late takes it back).
\* (A dialog is left by its buttons only: after the back button, with no location on its
\* way, the splash screen stays for good.)
LeavesSplash ==
  /\ settings # None /\ stage \in {"logo", "leaving"}
       ~> stage \in {"app", "offer", "force", "ask", "closed"}
  /\ asked > 0 /\ userLocation /\ ~overtaken ~> stage \in {"app", "closed"}
=============================================================================
