---------------------------- MODULE SettingsPage ----------------------------
(***************************************************************************)
(* A settings page: Settings and its fragments, the preferences, the SET_* *)
(* requests of DvrInfoService and the reading of the DVR's pages at the    *)
(* start (GET_ALL_INFO). The pages share nothing but the confirm icon,     *)
(* which every page disables, and the service's thread: a behaviour is     *)
(* about one of them, and the work for the others only takes time.         *)
(*                                                                         *)
(* Settings of a page that are treated alike are one field; a security     *)
(* mode and its encryption are one. Default stands for what getString      *)
(* returns without a preference, and for a network without security.       *)
(***************************************************************************)
EXTENDS Sequences, Integers, FiniteSets

CONSTANTS Value,         \* of a setting
          Default,
          Null,          \* Java's null: a preference that is not there
          NullText,      \* what is sent for null
          MaxTouched,    \* fields that are edited in a visit
          MaxConfirms,   \* clicks on the confirm icon
          MaxFaults,     \* kills of the process, and requests that fail
          MaxRequests    \* that wait in the service

ASSUME SettingsAssumption ==
    /\ Default \in Value /\ {Null, NullText} \cap Value = {} /\ Null # NullText
    /\ {MaxTouched, MaxConfirms, MaxFaults} \subseteq Nat /\ MaxRequests \in Nat \ {0}

\* The requests of the page: each reads or sends some of its fields. The passphrase goes
\* with the security mode.
RequestsOf ==
    [timezone   |-> <<{"time_zone", "NTPServerIP"}>>,
     recordings |-> <<{"recordingLength", "recordingChannel"}>>,
     internet   |-> <<{"dial_num", "username", "password", "modem"}>>,
     vpn        |-> <<{"pptpServer", "pptpUsername"}>>,
     wifi       |-> <<{"ssid"}, {"security", "passPhase"}>>]

VARIABLES
    fragment,    \* the page that this is about
    resumed,     \* is it on screen?
    enabled,     \* the confirm icon
    loaded,      \* the fragment's fields m...: from the preferences
    current,     \* its fields current...
    queue,       \* requests: [fields], and [values, touched, doubtful, edited] to send
    prefs,       \* the SharedPreferences
    dvr,         \* the settings of the DVR
    touched,     \* history: the fields that were edited in this visit
    stale,       \* history: those that were loaded before the preferences were right
    leftover,    \* history: pickers never used, or whose last pick was cancelled
    wanted,      \* history: what the DVR should have, Null where it may have anything
    unsure,      \* history: the preferences that may differ from the DVR's settings
    faults, confirms

pageVars == <<resumed, enabled, loaded, current, touched, stale, leftover>>
vars == <<fragment, pageVars, queue, prefs, dvr, wanted, unsure, faults, confirms>>

Requests == RequestsOf[fragment]
Field == UNION {Requests[i] : i \in DOMAIN Requests}

\* The fields that onResume does not set the current value of.
Picker == Field \cap {"time_zone", "modem", "security"}

Gets == [i \in DOMAIN Requests |-> [fields |-> Requests[i]]]

Nothing == [f \in Field |-> Null]

Init ==
    /\ fragment \in DOMAIN RequestsOf
    /\ resumed = FALSE /\ enabled = FALSE
    /\ loaded = Nothing /\ current = Nothing
    /\ touched = {} /\ stale = {} /\ leftover = Picker
    /\ queue = Gets
    /\ prefs = Nothing
    /\ dvr \in {[f \in Field |-> v] : v \in Value} /\ wanted = dvr
    /\ unsure = Field /\ faults = 0 /\ confirms = 0

Room == Len(queue) <= (MaxRequests - 1) * Len(Requests)

----------------------------------------------------------------------------
(* The page *)

Stored(f) == IF prefs[f] = Null THEN Default ELSE prefs[f]

\* The preference that a field is loaded from: InternetSetting mixes up three.
Key(f) ==
    CASE f = "dial_num" -> "username" [] f = "username" -> "password"
      [] f = "password" -> "dial_num" [] OTHER -> f

Changed(values, ms) == \E f \in Field : values[f] # ms[f]

\* seeded bug: RecordSetting.onResume does not set its current values
FaultCurrentOnResume(f) ==
    IF f \in Picker \/ fragment = "recordings" THEN current[f] ELSE Stored(Key(f))

\* onResume: the current values are set, or by the watchers of the texts.
CurrentOnResume(f) == IF f \in Picker THEN current[f] ELSE Stored(Key(f))

\* seeded bug: no page disables the icon after its texts were set
FaultEnabledOnResume(changed) == changed

\* The watchers enable the icon, and all pages but InternetSetting disable it afterwards.
EnabledOnResume(changed) == fragment = "internet" /\ changed

\* onSettingSelected and, when the transaction is committed, onResume.
Select ==
    /\ ~resumed /\ resumed' = TRUE
    /\ loaded' = [f \in Field |-> Stored(Key(f))]
    /\ current' = [f \in Field |-> CurrentOnResume(f)]
    /\ enabled' = EnabledOnResume(Changed(current', loaded'))
    /\ stale' = unsure \cup UNION {queue[i].fields : i \in DOMAIN queue}
    /\ UNCHANGED <<fragment, touched, queue, leftover, prefs, dvr, wanted, unsure, faults,
                   confirms>>

\* A text was changed, an option was clicked, or a picker was turned: isSettingChanged.
Edit(f, v) ==
    /\ resumed /\ Cardinality(touched \cup {f}) <= MaxTouched
    /\ current' = [current EXCEPT ![f] = v]
    /\ enabled' = Changed(current', loaded)
    /\ touched' = touched \cup {f}
    /\ UNCHANGED <<fragment, resumed, loaded, stale, leftover, queue, prefs, dvr, wanted,
                   unsure, faults, confirms>>

\* Back to the main page. What the next visit does not read is forgotten; Settings keeps
\* the fragment, and with it the current values of the pickers.
Main ==
    /\ resumed /\ resumed' = FALSE
    /\ enabled' = FALSE /\ loaded' = Nothing
    /\ current' = [f \in Field |-> IF f \in Picker THEN current[f] ELSE Null]
    /\ touched' = {} /\ stale' = {}

\* Fields that are sent along without having been edited, and may be wrong: loaded too
\* early or from the wrong preference, or never picked.
Doubtful == (stale \cup leftover \cup {f \in Field : Key(f) # f}) \ touched

\* mOnConfirmClickListener
Confirm ==
    /\ Main
    /\ enabled /\ Room /\ confirms < MaxConfirms /\ confirms' = confirms + 1
    /\ queue' = queue \o [i \in DOMAIN Requests |->
                            [fields |-> Requests[i],
                             values |-> [f \in Requests[i] |-> current[f]],
                             touched |-> touched \cap Requests[i],
                             doubtful |-> Doubtful \cap Requests[i],
                             edited |-> touched # {}]]
    /\ leftover' = leftover \ touched
    /\ UNCHANGED <<fragment, prefs, dvr, wanted, unsure, faults>>

\* mOnCancelClickListener
Cancel ==
    /\ Main
    /\ leftover' = leftover \cup (touched \cap Picker)
    /\ UNCHANGED <<fragment, queue, prefs, dvr, wanted, unsure, faults, confirms>>

\* A new Settings has new fragments.
Gone ==
    /\ resumed' = FALSE /\ enabled' = FALSE
    /\ loaded' = Nothing /\ current' = Nothing
    /\ touched' = {} /\ stale' = {} /\ leftover' = Picker

\* mOnPreviewClickListener, mOnRecordingsClickListener: finish().
Leave == Gone /\ UNCHANGED <<fragment, queue, prefs, dvr, wanted, unsure, faults, confirms>>

\* The app was left and is started again: MainActivity.
Start ==
    /\ Room /\ Gone
    /\ queue' = queue \o Gets
    /\ UNCHANGED <<fragment, prefs, dvr, wanted, unsure, faults, confirms>>

IsSet(request) == "values" \in DOMAIN request

Fault == faults < MaxFaults /\ faults' = faults + 1

\* The process is killed: the IntentService forgets its requests.
Kill ==
    /\ Fault /\ Gone
    /\ queue' = <<>>
    /\ wanted' = [f \in Field |->
                    IF \E i \in DOMAIN queue : IsSet(queue[i]) /\ f \in queue[i].touched
                    THEN Null ELSE wanted[f]]
    /\ UNCHANGED <<fragment, prefs, dvr, unsure, confirms>>

----------------------------------------------------------------------------
(* The service *)

\* getCameraSetting, getWifiBasic, getWifiSecurity, getNetworkSetting, getInfoFromADMPage.
\* The DVR was not reachable, or an IOException is ignored, without ok.
Get(ok) ==
    /\ queue # <<>> /\ ~IsSet(Head(queue))
    /\ queue' = Tail(queue)
    /\ IF ok
       THEN /\ UNCHANGED faults
            /\ prefs' = [f \in Field |-> IF f \in Head(queue).fields THEN dvr[f] ELSE prefs[f]]
            /\ unsure' = unsure \ Head(queue).fields
       ELSE Fault /\ UNCHANGED <<prefs, unsure>>
    /\ UNCHANGED <<fragment, pageVars, dvr, wanted, confirms>>

\* The fields of a request that are in its query: setWifiSecurity leaves the passphrase out
\* for a network without security.
Query(request) ==
    IF "security" \in request.fields /\ request.values["security"] = Default
    THEN {"security"} ELSE request.fields

Sent(v) == IF v = Null THEN NullText ELSE v

\* What the DVR did and how the request ended. camera.cgi may do as it is told and answer
\* 404 (DVRClient has a workaround for that).
Outcome ==
    {[applied |-> TRUE,  response |-> "HTTP_OK"],
     [applied |-> FALSE, response |-> "HTTP_NOT_FOUND"],
     [applied |-> FALSE, response |-> "other"],
     [applied |-> TRUE,  response |-> "IOException"],
     [applied |-> FALSE, response |-> "IOException"]}
    \cup IF fragment = "recordings" THEN {[applied |-> TRUE, response |-> "HTTP_NOT_FOUND"]}
         ELSE {}

\* seeded bug: any answer is taken for success
FaultAccepted(response) == response # "IOException"

\* Is the response a reason to save the preferences? (setRecordings treats 400 like 404.)
Accepted(response) ==
    response = "HTTP_OK" \/ (fragment = "recordings" /\ response = "HTTP_NOT_FOUND")

\* History: a field that was sent is as the user wanted it, or no longer; one that was
\* edited and not sent is not.
Wanted(request, f, applied) ==
    IF applied /\ f \in Query(request)
    THEN IF f \in request.touched THEN request.values[f]
         ELSE IF f \in request.doubtful THEN Null ELSE wanted[f]
    ELSE IF f \in request.touched THEN Null ELSE wanted[f]

\* History: the preferences that may be wrong when the request is over: the answer was lost;
\* a refusal is taken for the 404 of the workaround; null removes a preference; or the
\* passphrase was not sent.
Unsure(request, outcome) ==
    LET query == Query(request)
        nulls == {f \in request.fields : request.values[f] = Null}
    IN CASE outcome.applied /\ outcome.response # "IOException" ->
                (unsure \ query) \cup nulls \cup (request.fields \ query)
         [] outcome.applied /\ outcome.response = "IOException" -> unsure \cup query
         [] ~outcome.applied /\ outcome.response = "HTTP_NOT_FOUND" ->
                IF fragment = "recordings" THEN unsure \cup request.fields ELSE unsure
         [] OTHER -> unsure

\* setTimezone, setRecordings, setInternets, setVPNs, setWifiBasic, setWifiSecurity.
Set(outcome) ==
    /\ queue # <<>> /\ IsSet(Head(queue))
    /\ queue' = Tail(queue)
    /\ LET request == Head(queue)
       IN /\ dvr' = [f \in Field |-> IF outcome.applied /\ f \in Query(request)
                                     THEN Sent(request.values[f]) ELSE dvr[f]]
          /\ prefs' = [f \in Field |-> IF Accepted(outcome.response) /\ f \in request.fields
                                       THEN request.values[f] ELSE prefs[f]]
          /\ wanted' = [f \in Field |-> Wanted(request, f, outcome.applied)]
          /\ unsure' = Unsure(request, outcome)
    /\ IF outcome.applied /\ Accepted(outcome.response) THEN UNCHANGED faults ELSE Fault
    /\ UNCHANGED <<fragment, pageVars, confirms>>

Next ==
    \/ Select \/ Confirm \/ Cancel \/ Leave \/ Start \/ Kill
    \/ \E f \in Field, v \in Value : Edit(f, v)
    \/ \E ok \in BOOLEAN : Get(ok)
    \/ \E outcome \in Outcome : Set(outcome)

Spec == Init /\ [][Next]_vars

----------------------------------------------------------------------------
(* Properties *)

\* What the user confirmed is what the DVR gets, and nothing else changes there, although a
\* confirm sends the whole page: a setting is otherwise only if its request failed or was
\* lost with the process; if it was sent along unedited from a page that was opened while
\* requests were waiting or after one failed, from a picker not used in this or a confirmed
\* visit, or for InternetSetting's mixed-up fields; or if it is the passphrase of a network
\* that is open.
DvrAsWanted == \A f \in Field : wanted[f] \in {dvr[f], Null}

\* The preferences that the pages show are the DVR's settings, whichever requests failed in
\* between, except where an answer was lost, a refusal of camera.cgi was taken for the 404 of
\* the workaround, null or an unsent passphrase was saved, or the DVR was never read.
PrefsAgree == \A f \in Field : Stored(f) = dvr[f] \/ f \in unsure

\* "default disable confirm btn" (Settings.java:235): nothing is confirmed that was not
\* edited, except on the internet page; and an edit can always be confirmed.
ConfirmAgrees ==
    /\ resumed /\ (\E f \in touched : current[f] # loaded[f]) => enabled
    /\ \A i \in DOMAIN queue : IsSet(queue[i]) => queue[i].edited \/ fragment = "internet"
=============================================================================
