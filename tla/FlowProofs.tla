----------------------------- MODULE FlowProofs -----------------------------
(* Theorems about ConnectionFlow, for every number of searches, endpoints, *)
(* certificates and attempts to connect.                                   *)
EXTENDS ConnectionFlow, TLAPS

\* A builder that was not made yet has not searched, and what the table and the
\* current builder refer to was made.
MadeInOrder ==
    /\ builder <= made /\ table <= made
    /\ \A b \in Builders : search[b] = "none" <=> b > made

\* The table has the endpoints of a search that was shown: a search that ends
\* later does not change the rows under it.
TableIsShown == table # None => search[table] = "shown"

\* FlowTypeOK in two parts: the provers do not take flags and numbers together.
FlagsTyped == selected \in BOOLEAN /\ button \in BOOLEAN

OthersTyped ==
    /\ app \in {"runs", "exited", "noEndpoint", "noBuilder", "noConnection"}
    /\ made \in 0..MaxBuilders /\ builder \in 0..MaxBuilders
    /\ certificate \in 0..MaxCertificates
    /\ search \in [Builders -> SearchStates] /\ endpoints \in [Builders -> 0..MaxEndpoints]
    /\ table \in 0..MaxBuilders /\ current \in 0..MaxEndpoints
    /\ stored \in SUBSET Certificates /\ combo \in stored \cup {None}
    /\ recorded \in SUBSET [server : Builders, endpoint : Builders]

\* The inductive invariant.  MadeInOrder keeps a new search from being mistaken
\* for a shown one, TableIsShown keeps the rows from changing unseen.
FlowSound ==
    /\ FlagsTyped /\ OthersTyped /\ MadeInOrder /\ TableIsShown
    /\ ConnectHasABuilder /\ NewestIsShown /\ CurrentIsARow

USE FlowAssumption DEF None, Builders, Certificates, Runs

\* The two parts are the whole.
LEMMA TypedInParts == FlowTypeOK <=> FlagsTyped /\ OthersTyped
  BY Zenon DEF FlowTypeOK, FlagsTyped, OthersTyped

\* The program starts in a sound state.
LEMMA InitIsSound == FlowInit => FlowSound
  <1> SUFFICES ASSUME FlowInit PROVE FlowSound
    OBVIOUS
  <1>1. FlagsTyped
    BY DEF FlowInit, FlagsTyped
  <1>2. OthersTyped
    BY DEF FlowInit, SearchStates, OthersTyped
  <1>3. MadeInOrder /\ TableIsShown
    BY DEF FlowInit, MadeInOrder, TableIsShown
  <1>4. ConnectHasABuilder /\ NewestIsShown /\ CurrentIsARow
    BY DEF FlowInit, ConnectHasABuilder, NewestIsShown, CurrentIsARow
  <1> QED
    BY <1>1, <1>2, <1>3, <1>4 DEF FlowSound

\* Beginning, ending and answering a search.
LEMMA SearchIsSound ==
    ASSUME FlowSound,
           \/ FindEndpoints
           \/ \E b \in Builders : SearchEnds(b) \/ GuiDelivers(b)
    PROVE  FlowSound'
  <1> USE DEF FlowSound, OthersTyped, search_vars, build_vars, view_vars, cert_vars
  <1>1. CASE FindEndpoints
    <2> USE <1>1 DEF FindEndpoints
    <2>1. made + 1 \in Builders /\ table # made + 1
      BY DEF MadeInOrder
    <2>2. FlagsTyped'
      BY <2>1 DEF FlagsTyped
    <2>3. OthersTyped'
      BY <2>1 DEF SearchStates, OthersTyped
    <2>4. MadeInOrder' /\ TableIsShown'
      BY <2>1 DEF MadeInOrder, TableIsShown
    <2>5. ConnectHasABuilder' /\ NewestIsShown' /\ CurrentIsARow'
      BY <2>1 DEF ConnectHasABuilder, NewestIsShown, CurrentIsARow, Rows
    <2> QED
      BY <2>2, <2>3, <2>4, <2>5
  <1>2. ASSUME NEW b \in Builders, SearchEnds(b) PROVE FlowSound'
    <2> USE <1>2 DEF SearchEnds
    <2>1. FlagsTyped'
      BY DEF FlagsTyped
    <2>2. OthersTyped'
      BY DEF SearchStates, OthersTyped
    <2>3. MadeInOrder' /\ TableIsShown'
      BY DEF MadeInOrder, TableIsShown
    <2>4. ConnectHasABuilder' /\ NewestIsShown' /\ CurrentIsARow'
      BY SMTT(30) DEF ConnectHasABuilder, NewestIsShown, CurrentIsARow, TableIsShown, Rows
    <2> QED
      BY <2>1, <2>2, <2>3, <2>4
  <1>3. ASSUME NEW b \in Builders, DropAnswer(b) \/ ReportFailure(b) PROVE FlowSound'
    <2> USE <1>3 DEF DropAnswer, ReportFailure, Becomes, Answered
    <2>1. FlagsTyped'
      BY DEF FlagsTyped
    <2>2. OthersTyped'
      BY DEF SearchStates
    <2>3. MadeInOrder' /\ TableIsShown'
      BY SMTT(30) DEF MadeInOrder, TableIsShown
    <2>4. ConnectHasABuilder' /\ CurrentIsARow'
      BY DEF ConnectHasABuilder, CurrentIsARow, Rows
    <2>5. NewestIsShown'
      <3>1. builder \in Builders /\ search'[builder] = "shown" => search[builder] = "shown"
        OBVIOUS
      <3> QED
        BY <3>1 DEF ConnectHasABuilder, NewestIsShown
    <2> QED
      BY <2>1, <2>2, <2>3, <2>4, <2>5
  <1>4. ASSUME NEW b \in Builders, ShowEndpoints(b) PROVE FlowSound'
    <2> USE <1>4 DEF ShowEndpoints, Becomes, Answered
    <2>1. FlagsTyped'
      BY DEF FlagsTyped
    <2>2. OthersTyped'
      BY DEF SearchStates
    <2>3. MadeInOrder' /\ TableIsShown'
      BY DEF MadeInOrder, TableIsShown
    <2>4. ConnectHasABuilder' /\ NewestIsShown' /\ CurrentIsARow'
      BY DEF ConnectHasABuilder, NewestIsShown, CurrentIsARow, Rows
    <2> QED
      BY <2>1, <2>2, <2>3, <2>4
  <1> QED
    BY <1>1, <1>2, <1>3, <1>4 DEF GuiDelivers

\* Clicks and keys in the table.
LEMMA TableIsSound ==
    ASSUME FlowSound, (\E r \in Rows : SelectRow(r)) \/ DeselectRow \/ FocusTable
    PROVE  FlowSound'
  <1> USE DEF FlowSound, SelectRow, DeselectRow, FocusTable, TableUnchanged,
              search_vars, build_vars, cert_vars
  <1>1. Rows' = Rows /\ table # None
    BY DEF CurrentIsARow, Rows
  <1>2. FlagsTyped'
    BY DEF FlagsTyped
  <1>3. OthersTyped'
    <2>1. Rows \subseteq 0..MaxEndpoints
      BY DEF Rows, OthersTyped
    <2> QED
      BY <2>1 DEF OthersTyped
  <1>4. MadeInOrder' /\ TableIsShown'
    BY DEF MadeInOrder, TableIsShown
  <1>5. ConnectHasABuilder' /\ NewestIsShown' /\ CurrentIsARow'
    BY <1>1 DEF ConnectHasABuilder, NewestIsShown, CurrentIsARow
  <1> QED
    BY <1>2, <1>3, <1>4, <1>5

\* Attempts to connect.
LEMMA ConnectIsSound ==
    ASSUME FlowSound, Connect
    PROVE  FlowSound'
  <1> USE DEF FlowSound, Ends, search_vars, build_vars, view_vars, cert_vars
  <1>1. CASE ConnectWithoutTarget \/ ConnectWithLostCertificate
    <2>1. app' \in {"noEndpoint", "noConnection"}
      BY <1>1 DEF ConnectWithoutTarget, ConnectWithLostCertificate, ConnectRequest,
                  ConnectHasABuilder
    <2>2. FlagsTyped'
      BY <1>1 DEF ConnectWithoutTarget, ConnectWithLostCertificate, FlagsTyped
    <2>3. OthersTyped'
      BY <1>1, <2>1 DEF ConnectWithoutTarget, ConnectWithLostCertificate, OthersTyped
    <2> QED
      BY <1>1, <2>1, <2>2, <2>3 DEF ConnectWithoutTarget, ConnectWithLostCertificate, MadeInOrder,
             TableIsShown, ConnectHasABuilder, NewestIsShown, CurrentIsARow, Rows
  <1>2. CASE ConnectRefused
    <2> USE <1>2 DEF ConnectRefused, Builds, BuilderReady
    <2>1. FlagsTyped'
      BY DEF FlagsTyped
    <2>2. OthersTyped'
      BY DEF CertificateUsed, OthersTyped
    <2>3. MadeInOrder' /\ TableIsShown'
      BY DEF MadeInOrder, TableIsShown
    <2> QED
      BY <2>1, <2>2, <2>3 DEF ConnectHasABuilder, NewestIsShown, CurrentIsARow, Rows
  <1>3. CASE ConnectAccepted
    <2> USE <1>3 DEF ConnectAccepted, Builds, BuilderReady, Reset
    <2>1. builder \in Builders /\ table \in Builders
      BY DEF CurrentIsARow, Rows, OthersTyped
    <2>2. FlagsTyped'
      BY <2>1 DEF FlagsTyped
    <2>3. OthersTyped'
      BY <2>1 DEF OthersTyped
    <2>4. MadeInOrder' /\ TableIsShown'
      BY DEF MadeInOrder, TableIsShown, OthersTyped
    <2> QED
      BY <2>2, <2>3, <2>4 DEF ConnectRequest, ConnectHasABuilder, NewestIsShown, CurrentIsARow
  <1> QED
    BY <1>1, <1>2, <1>3 DEF Connect

\* The certificates, and the end of the program.
LEMMA RestIsSound ==
    ASSUME FlowSound,
           \/ \E c \in stored : ChooseCertificate(c) \/ DeleteCertificate(c)
           \/ CreateCertificate \/ Exit \/ UNCHANGED flow_vars
    PROVE  FlowSound'
  <1> USE DEF FlowSound, CertificatesOnly, Ends, search_vars, build_vars, view_vars, cert_vars
  <1>1. UNCHANGED <<search_vars, build_vars, view_vars, recorded>> /\ app' \in {app, "exited"}
    BY DEF ChooseCertificate, DeleteCertificate, CreateCertificate, Exit, flow_vars
  <1>2. stored' \in SUBSET Certificates /\ combo' \in stored' \cup {None}
    <2>1. CASE \E c \in stored : ChooseCertificate(c) \/ DeleteCertificate(c)
      BY <2>1 DEF ChooseCertificate, DeleteCertificate, OthersTyped
    <2>2. CASE CreateCertificate
      BY <2>2 DEF CreateCertificate, OthersTyped
    <2>3. CASE Exit \/ UNCHANGED flow_vars
      BY <2>3 DEF Exit, flow_vars, OthersTyped
    <2> QED
      BY <2>1, <2>2, <2>3
  <1>3. FlagsTyped'
    BY <1>1, <1>2 DEF FlagsTyped
  <1>4. OthersTyped'
    BY <1>1, <1>2 DEF OthersTyped
  <1> QED
    BY <1>1, <1>3, <1>4 DEF MadeInOrder, TableIsShown, ConnectHasABuilder, NewestIsShown,
                      CurrentIsARow, Rows

\* FlowSound holds in every state of every behaviour of Quick Connect
\* (ConfigWidget::onFindEndpoints, onEndpointsFound, onConnect, reset).
THEOREM FlowIsSound == FlowSpec => []FlowSound
  <1>1. FlowSound /\ [FlowNext]_flow_vars => FlowSound'
    BY SearchIsSound, TableIsSound, ConnectIsSound, RestIsSound DEF FlowNext
  <1> QED
    BY InitIsSound, <1>1, PTL DEF FlowSpec

\* Type correctness of ConnectionFlow.
THEOREM FlowTyped == FlowSpec => []FlowTypeOK
  <1>1. FlowSound => FlowTypeOK
    BY TypedInParts DEF FlowSound
  <1> QED
    BY FlowIsSound, <1>1, PTL

\* onConnect never follows a null m_current_connection_builder, in whatever order
\* searches are answered and connections made.
THEOREM BuilderIsThere == FlowSpec => []ConnectHasABuilder
  <1>1. FlowSound => ConnectHasABuilder
    BY DEF FlowSound
  <1> QED
    BY FlowIsSound, <1>1, PTL

\* Older endpoints are never on display once those of the newest search were shown.
THEOREM TableIsRight == FlowSpec => []NewestIsShown
  <1>1. FlowSound => NewestIsShown
    BY DEF FlowSound
  <1> QED
    BY FlowIsSound, <1>1, PTL

\* The current and the selected index are rows of the table on display, although
\* the answer of a search replaces the rows while one is selected (setEndpoints).
THEOREM IndexIsARow == FlowSpec => []CurrentIsARow
  <1>1. FlowSound => CurrentIsARow
    BY DEF FlowSound
  <1> QED
    BY FlowIsSound, <1>1, PTL
=============================================================================
