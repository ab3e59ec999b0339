---------------------------- MODULE ConnectionFlow ----------------------------
(***************************************************************************)
(* Quick Connect in the ConfigWidget (activities/dataviewer): the current  *)
(* ConnectionBuilder, its search for endpoints on a thread of the global   *)
(* pool, the table with the endpoints of a search, the Connect button, and *)
(* the combo box of application certificates that the user may delete in   *)
(* the Settings activity meanwhile.                                        *)
(*                                                                         *)
(* A builder stands for one press of Find Endpoints and so for one server  *)
(* url; url, user and password, which are set with it, are left out.  What *)
(* an assertion excludes, or a null pointer, ends the program: `app' says  *)
(* which.  Answers are delivered in any order: Qt keeps the order they     *)
(* were posted in, but the pool's threads post them in any order.          *)
(***************************************************************************)
EXTENDS Integers

CONSTANTS
    MaxBuilders,      \* bound: how often the user presses Find Endpoints
    MaxEndpoints,     \* bound: endpoints a server offers
    MaxCertificates   \* bound: ids of application certificates

ASSUME FlowAssumption ==
    MaxBuilders \in Nat /\ MaxEndpoints \in Nat /\ MaxCertificates \in Nat

Builders     == 1..MaxBuilders
Certificates == 1..MaxCertificates
None         == 0   \* the null pointer, the invalid index, the empty optional

VARIABLES
    app,          \* "runs", "exited", or what ended it
    made,         \* the builders made so far are 1..made
    builder,      \* m_current_connection_builder
    certificate,  \* its m_certificate
    search,       \* the search of each builder
    endpoints,    \* how many endpoints it found
    table,        \* the builder whose endpoints m_endpoint_selector_model holds
    current,      \* the current index of m_endpoint_selector
    selected,     \* whether a row is selected, which is then the current one
    button,       \* whether m_connect_button is enabled
    stored,       \* the application certificates in the storage
    combo,        \* the current item of m_certificate
    recorded      \* the recent connections: url of one search, endpoint of another

search_vars == <<made, search, endpoints>>
build_vars  == <<builder, certificate>>
view_vars   == <<table, current, selected, button>>
cert_vars   == <<stored, combo>>
flow_vars   == <<app, search_vars, build_vars, view_vars, cert_vars, recorded>>

SearchStates == {"none", "running", "found", "failed", "shown", "reported", "dropped"}

Runs == app = "runs"

-----------------------------------------------------------------------------
(* The search.                                                             *)

\* The rows of the endpoint table.
Rows == IF table = None THEN {} ELSE 1..endpoints[table]

\* The old builder stays alive in the slot that waits for its search, and the
\* table keeps the endpoints of the old search.
FindEndpoints ==
    /\ Runs /\ made < MaxBuilders
    /\ made'    = made + 1
    /\ builder' = made'
    /\ certificate' = None
    /\ search'  = [search EXCEPT ![made'] = "running"]
    /\ button'  = FALSE
    /\ UNCHANGED <<app, endpoints, table, current, selected, cert_vars, recorded>>

\* Faulty variant: an exception of the client ends the search without an answer.
SearchEndsSilently(b) ==
    /\ Runs /\ search[b] = "running"
    /\ \/ /\ search' = [search EXCEPT ![b] = "found"]
          /\ \E n \in 0..MaxEndpoints : endpoints' = [endpoints EXCEPT ![b] = n]
       \/ search' = [search EXCEPT ![b] = "none"] /\ UNCHANGED endpoints
    /\ UNCHANGED <<app, made, build_vars, view_vars, cert_vars, recorded>>

\* The pool's thread has an answer or an error and posts it to the GUI thread.
SearchEnds(b) ==
    /\ Runs /\ search[b] = "running"
    /\ \/ /\ search' = [search EXCEPT ![b] = "found"]
          /\ \E n \in 0..MaxEndpoints : endpoints' = [endpoints EXCEPT ![b] = n]
       \/ search' = [search EXCEPT ![b] = "failed"] /\ UNCHANGED endpoints
    /\ UNCHANGED <<app, made, build_vars, view_vars, cert_vars, recorded>>

Answered(b) == Runs /\ search[b] \in {"found", "failed"}

Becomes(b, s) ==
    /\ search' = [search EXCEPT ![b] = s]
    /\ UNCHANGED <<app, made, endpoints, build_vars, cert_vars, recorded>>

\* The slot ignores the answer to a search that is not the current one.
DropAnswer(b) ==
    /\ Answered(b) /\ b # builder
    /\ Becomes(b, "dropped") /\ UNCHANGED view_vars

\* Faulty variant: the slot does not compare the builders.
ShowAnyEndpoints(b) ==
    /\ Answered(b) /\ search[b] = "found"
    /\ Becomes(b, "shown")
    /\ table' = b /\ current' = None /\ selected' = FALSE
    /\ UNCHANGED button

\* Faulty variant: the vector is replaced without a reset of the model.
ShowEndpointsInPlace(b) ==
    /\ Answered(b) /\ b = builder /\ search[b] = "found"
    /\ Becomes(b, "shown")
    /\ table' = b
    /\ UNCHANGED <<current, selected, button>>

\* onEndpointsFound: the reset of the model clears the selection, but the
\* selection model emits nothing when it is reset, so the button stays.
ShowEndpoints(b) ==
    /\ Answered(b) /\ b = builder /\ search[b] = "found"
    /\ Becomes(b, "shown")
    /\ table' = b /\ current' = None /\ selected' = FALSE
    /\ UNCHANGED button

ReportFailure(b) ==
    /\ Answered(b) /\ b = builder /\ search[b] = "failed"
    /\ Becomes(b, "reported") /\ UNCHANGED view_vars

-----------------------------------------------------------------------------
(* The table.                                                              *)

TableUnchanged == UNCHANGED <<app, search_vars, build_vars, table, cert_vars, recorded>>

\* selectionChanged is emitted unless the row is already selected.
SelectRow(r) ==
    /\ Runs
    /\ current' = r /\ selected' = TRUE
    /\ button'  = (button \/ ~selected \/ current # r)
    /\ TableUnchanged

\* A click with Ctrl: the row stays the current one.
DeselectRow ==
    /\ Runs /\ selected
    /\ selected' = FALSE /\ button' = TRUE
    /\ UNCHANGED current /\ TableUnchanged

\* The view makes the first row the current one when it gets the focus.
FocusTable ==
    /\ Runs /\ current = None /\ 1 \in Rows
    /\ current' = 1
    /\ UNCHANGED <<selected, button>> /\ TableUnchanged

-----------------------------------------------------------------------------
(* Connecting.                                                             *)

\* The Connect button, or a double click or Enter in the table.
ConnectRequest == Runs /\ (button \/ current # None)

Ends(why) ==
    /\ app' = why
    /\ UNCHANGED <<search_vars, build_vars, view_vars, cert_vars, recorded>>

\* data() of the invalid index reads in front of the vector, or the null
\* pointer is followed.
ConnectWithoutTarget ==
    /\ ConnectRequest /\ None \in {current, builder}
    /\ Ends(IF current = None THEN "noEndpoint" ELSE "noBuilder")

\* m_certificate keeps what an earlier attempt has set if no item is current.
CertificateUsed == IF combo # None THEN combo ELSE certificate

BuilderReady == ConnectRequest /\ None \notin {current, builder}

\* build() returns nullptr for a certificate that is not in the storage.
ConnectWithLostCertificate ==
    /\ BuilderReady /\ CertificateUsed \notin stored \cup {None}
    /\ Ends("noConnection")

Builds == BuilderReady /\ CertificateUsed \in stored \cup {None}

\* connectAndRun blocks the GUI thread until the server has answered.
ConnectRefused ==
    /\ Builds
    /\ certificate' = CertificateUsed /\ button' = FALSE
    /\ UNCHANGED <<app, search_vars, builder, table, current, selected, cert_vars, recorded>>

\* Faulty variant: the model of the endpoint table is not cleared.
ResetKeepsTable ==
    /\ builder' = None /\ certificate' = None
    /\ button' = FALSE
    /\ UNCHANGED <<table, current, selected>>

\* ConfigWidget::reset
Reset ==
    /\ builder' = None /\ certificate' = None
    /\ table' = None /\ current' = None /\ selected' = FALSE
    /\ button' = FALSE

ConnectAccepted ==
    /\ Builds
    /\ recorded' = recorded \cup {[server |-> builder, endpoint |-> table]}
    /\ Reset
    /\ UNCHANGED <<app, search_vars, cert_vars>>

-----------------------------------------------------------------------------
(* The certificates, in the other activities.                              *)

CertificatesOnly == UNCHANGED <<app, search_vars, build_vars, view_vars, recorded>>

\* The user chooses an item, or selects a recent connection with it.
ChooseCertificate(c) ==
    /\ Runs /\ c # combo
    /\ combo' = c
    /\ UNCHANGED stored /\ CertificatesOnly

\* The highest id plus one; an empty combo box makes the new item the current one.
CreateCertificate ==
    /\ Runs
    /\ \E c \in Certificates \ stored :
          /\ \A d \in stored : d < c
          /\ c = 1 \/ c - 1 \in stored
          /\ stored' = stored \cup {c}
          /\ combo'  = IF stored = {} THEN c ELSE combo
    /\ CertificatesOnly

\* The combo box makes some other item the current one, or none.
DeleteCertificate(c) ==
    /\ Runs
    /\ stored' = stored \ {c}
    /\ IF combo = c THEN combo' \in stored' \cup {None} ELSE UNCHANGED combo
    /\ CertificatesOnly

\* main returns: the ConfigWidget is destroyed, and with it the slots that hold the builders.
Exit == Runs /\ Ends("exited")

-----------------------------------------------------------------------------
FlowInit ==
    /\ app = "runs"
    /\ made = 0 /\ builder = None /\ certificate = None
    /\ search = [b \in Builders |-> "none"] /\ endpoints = [b \in Builders |-> 0]
    /\ table = None /\ current = None /\ selected = FALSE /\ button = FALSE
    /\ stored \in SUBSET Certificates
    /\ combo \in IF stored = {} THEN {None} ELSE stored
    /\ recorded = {}

GuiDelivers(b) == DropAnswer(b) \/ ShowEndpoints(b) \/ ReportFailure(b)

Connect ==
    \/ ConnectWithoutTarget \/ ConnectWithLostCertificate
    \/ ConnectRefused \/ ConnectAccepted

FlowNext ==
    \/ FindEndpoints
    \/ \E b \in Builders : SearchEnds(b) \/ GuiDelivers(b)
    \/ \E r \in Rows : SelectRow(r)
    \/ DeselectRow \/ FocusTable
    \/ Connect
    \/ \E c \in stored : ChooseCertificate(c) \/ DeleteCertificate(c)
    \/ CreateCertificate
    \/ Exit

\* The pool runs what is started, the client's request has a timeout, and the
\* event loop delivers what is posted.
FlowSpec ==
    /\ FlowInit /\ [][FlowNext]_flow_vars
    /\ \A b \in Builders : WF_flow_vars(SearchEnds(b)) /\ WF_flow_vars(GuiDelivers(b))

-----------------------------------------------------------------------------
(* Properties.                                                             *)

FlowTypeOK ==
    /\ app \in {"runs", "exited", "noEndpoint", "noBuilder", "noConnection"}
    /\ made \in 0..MaxBuilders /\ builder \in 0..MaxBuilders
    /\ certificate \in 0..MaxCertificates
    /\ search \in [Builders -> SearchStates] /\ endpoints \in [Builders -> 0..MaxEndpoints]
    /\ table \in 0..MaxBuilders /\ current \in 0..MaxEndpoints
    /\ selected \in BOOLEAN /\ button \in BOOLEAN
    /\ stored \in SUBSET Certificates /\ combo \in stored \cup {None}
    /\ recorded \in SUBSET [server : Builders, endpoint : Builders]

\* The user cannot connect while there is no builder, whatever answers arrive
\* after the reset that a connection ends with (onConnect, onFindEndpoints).
ConnectHasABuilder ==
    /\ table # None \/ button \/ current # None => builder # None
    /\ app # "noBuilder"

\* The answer of an older search never replaces that of the newest one: old
\* endpoints are only shown until the newest search has been shown.
NewestIsShown == table \notin {None, builder} => search[builder] # "shown"

\* The current and the selected index are rows of the table, although its
\* contents are replaced under them (EndpointTableModel::setEndpoints).
CurrentIsARow == current # None \/ selected => current \in Rows

\* The current search is answered, in the table or in the log, unless the user
\* moves on to another one or connects, or the program ends.
SearchIsAnswered ==
    \A b \in Builders :
        builder = b /\ search[b] = "running"
            ~> builder # b \/ search[b] \in {"shown", "reported"} \/ ~Runs
=============================================================================
