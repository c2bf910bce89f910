-------------------------- MODULE RelatedResources --------------------------
(***************************************************************************)
(* updateRelatedResources: what the handlers do with the exposed URL of    *)
(* one service.  It is written into the ConfigMap of the service's name,   *)
(* whose change rolls the deployments that ask for it, into the redirect   *)
(* URIs of the OAuthClient of that name, and into every other ConfigMap    *)
(* that names the service in an annotation.  One action per API call.      *)
(*                                                                         *)
(* A URL is a base with the three things the code changes in it: the       *)
(* protocol in front, the path, and the slash at the end.  An entry of a   *)
(* ConfigMap is named by the annotation that asks for it.                  *)
(***************************************************************************)
EXTENDS Integers, Sequences

CONSTANTS
  ExposeUrls,           \* the URLs the service gets, with protocol
  NoUrl,                \* the service has no exposeUrl annotation
  ConfigMaps,           \* the ConfigMaps of the namespace
  Own,                  \* the one of the service's name
  ListOrder,            \* the order in which List returns them
  Wants,                \* the forms each ConfigMap asks for
  OwnWants,             \* the entries Own asks for
  OtherData,            \* the ConfigMaps with entries of nobody's concern
  Deployments,          \* the deployments of the namespace
  UpdateOnChange,       \* their update-on-change annotations: names of ConfigMaps
  OpenShift,            \* oc is not nil
  Empty, Fixed, UserValue, RootPath, Absent, Original,
  Faults, MaxFaults,    \* the calls that may fail, "crash", and how often
  MaxEdits,             \* how often users write, or the URL changes
  MaxLines              \* newlines counted in a config-yaml entry

Bases == {u.base : u \in ExposeUrls} \cup {Original}
Url == [base : Bases, proto : BOOLEAN, path : BOOLEAN, slash : BOOLEAN]
Yaml == [base : Bases, lines : 0 .. MaxLines]
Value == {Empty, Fixed, UserValue, RootPath} \cup Url \cup Yaml

StrippedForms == {"noProtocol", "fullNoProtocol"}
UrlForms == {"plain", "full", "noPath"} \cup StrippedForms
Forms == UrlForms \cup {"protocol"}
OwnEntries == {"url", "fixed", "ifEmpty", "yaml"}
Entries == Forms \cup OwnEntries
Data == [Entries -> Value]

Calls == {"get", "update", "listDeployments", "roll", "getClient", "deleteClient", "createClient",
          "list", "inject"}

ASSUME UrlAssumption ==
  /\ \A u \in ExposeUrls : u \in Url /\ u.proto
  /\ NoUrl \notin Url
ASSUME ListAssumption ==
  /\ Own \in ConfigMaps
  /\ ListOrder \in Seq(ConfigMaps)
  /\ \A c \in ConfigMaps : \E i \in 1 .. Len(ListOrder) : ListOrder[i] = c
  /\ \A i, j \in 1 .. Len(ListOrder) : ListOrder[i] = ListOrder[j] => i = j
ASSUME WantsAssumption ==
  /\ Wants \in [ConfigMaps -> SUBSET Forms]
  /\ OwnWants \subseteq OwnEntries
  /\ OtherData \subseteq ConfigMaps
  /\ UpdateOnChange \in [Deployments -> SUBSET ConfigMaps]
  /\ OpenShift \in BOOLEAN
ASSUME ValueAssumption ==
  /\ {Empty, Fixed, UserValue, RootPath} \cap (Url \cup Yaml) = {}
  /\ Empty \notin {Fixed, UserValue, RootPath}
ASSUME LimitAssumption ==
  /\ Faults \subseteq Calls \cup {"crash"}
  /\ MaxFaults \in Nat /\ MaxEdits \in Nat /\ MaxLines \in Nat

VARIABLES
  svcUrl,               \* the service's exposeUrl annotation
  stored,               \* the same in the informer's store
  data,                 \* the ConfigMaps' data
  tokens,               \* the FABRIC8_..._CONFIGMAP variables of the deployments
  client,               \* the OAuthClient's redirect URIs, or Absent
  pc,                   \* the next call
  url,                  \* exposeURL, a local variable
  cm,                   \* the copy of Own's data that is being changed
  rolling,              \* the deployments still to be updated
  redirects,            \* the redirect URIs the client will be made with
  cms, next,            \* the listed ConfigMaps' data, and the position in the list
  changed,              \* ConfigMaps written by others since they were read
  edits, faults

clusterVars == <<svcUrl, stored, data, tokens, client>>
localVars == <<url, cm, rolling, redirects, cms, next>>
boundVars == <<edits, faults>>
relatedVars == <<clusterVars, pc, localVars, changed, boundVars>>

NoData == [e \in Entries |-> Empty]
OriginalYaml == [base |-> Original, lines |-> 0]
InitialData ==
  IF "yaml" \in OwnWants THEN {[NoData EXCEPT !["yaml"] = OriginalYaml]}
  ELSE {NoData, [NoData EXCEPT !["ifEmpty"] = UserValue]}

RelatedTypeOK ==
  /\ svcUrl \in ExposeUrls \cup {NoUrl} /\ stored \in ExposeUrls \cup {NoUrl}
  /\ data \in [ConfigMaps -> Data]
  /\ tokens \in [Deployments -> [ConfigMaps -> Data]]
  /\ client \in (SUBSET ExposeUrls) \cup {Absent}
  /\ pc \in Calls \cup {"idle"}
  /\ url \in Url \cup {NoUrl}
  /\ cm \in Data
  /\ rolling \subseteq Deployments
  /\ redirects \subseteq ExposeUrls
  /\ cms \in [ConfigMaps -> Data]
  /\ next \in 1 .. Len(ListOrder)
  /\ changed \subseteq ConfigMaps
  /\ edits \in 0 .. MaxEdits /\ faults \in 0 .. MaxFaults

RelatedInit ==
  /\ svcUrl \in ExposeUrls \cup {NoUrl} /\ stored = svcUrl
  /\ \E own \in InitialData : data = [c \in ConfigMaps |-> IF c = Own THEN own ELSE NoData]
  /\ tokens = [d \in Deployments |-> [c \in ConfigMaps |-> NoData]]
  /\ client \in {{}, Absent}
  /\ pc = "idle" /\ url = NoUrl /\ cm = NoData /\ rolling = {} /\ redirects = {}
  /\ cms = [c \in ConfigMaps |-> NoData] /\ next = 1
  /\ changed = {} /\ edits = 0 /\ faults = 0

(* A call that fails; the write it asked for may have been done.            *)
Fault(f) ==
  /\ f \in Faults
  /\ faults < MaxFaults
  /\ faults' = faults + 1

-----------------------------------------------------------------------------
(* A handler is called with the stored service: for an event or, again and  *)
(* again, for a resync.                                                     *)
Callback ==
  /\ pc = "idle"
  /\ pc' = "get"
  /\ url' = stored
  /\ UNCHANGED <<clusterVars, cm, rolling, redirects, cms, next, changed, boundVars>>

Deliver ==
  /\ stored # svcUrl
  /\ stored' = svcUrl
  /\ UNCHANGED <<svcUrl, data, tokens, client, pc, localVars, changed, boundVars>>

-----------------------------------------------------------------------------
(* updateServiceConfigMap.  "url" stands for url-key, host-key and          *)
(* path-key, "fixed" for the entries that the URL has no part in.  An entry *)
(* of config-yaml is rewritten line by line, a newline after each line,     *)
(* the empty one after the last newline included: it gets one line longer.  *)

LongerYaml(y) ==
  [base |-> url.base, lines |-> IF y.lines < MaxLines THEN y.lines + 1 ELSE MaxLines]

OwnEntry(e, old) ==
  CASE e = "url"     -> IF url = NoUrl THEN old ELSE url
    [] e = "fixed"   -> Fixed
    [] e = "ifEmpty" -> IF old = Empty THEN Fixed ELSE old
    [] e = "yaml"    -> IF url = NoUrl \/ old \notin Yaml THEN old ELSE LongerYaml(old)

UpdatedOwn(old) == [e \in Entries |-> IF e \in OwnWants THEN OwnEntry(e, old[e]) ELSE old[e]]

(* Mutant: entries are assigned without being compared.                     *)
IsUpdatedAlways(old) == OwnWants # {}

(* Mutant: only a missing entry is written.                                 *)
IsUpdatedIfMissing(old) == \E e \in OwnWants : old[e] = Empty

(* The yaml entry counts as changed at the bound MaxLines too.              *)
IsUpdated(old) ==
  \/ UpdatedOwn(old) # old
  \/ "yaml" \in OwnWants /\ url # NoUrl /\ old["yaml"] \in Yaml

(* The API server leaves an empty map out: the client reads nil, and an     *)
(* assignment to an entry of a nil map panics.                              *)
IsNil(c) == c \notin OtherData /\ data[c] = NoData

GetConfigMap ==
  /\ pc = "get"
  /\ \/ /\ Fault("get")
        /\ pc' = "getClient"
        /\ UNCHANGED <<cm, changed>>
     \/ /\ ~ IsUpdated(data[Own])
        /\ pc' = "getClient"
        /\ UNCHANGED <<cm, changed, faults>>
     \/ /\ IsUpdated(data[Own])
        /\ ~ IsNil(Own)
        /\ cm' = UpdatedOwn(data[Own])
        /\ changed' = {}
        /\ pc' = "update"
        /\ UNCHANGED faults
  /\ UNCHANGED <<clusterVars, url, rolling, redirects, cms, next, edits>>

(* The panic ends the handler; HandleCrash recovers.                        *)
GetPanics ==
  /\ pc = "get"
  /\ IsUpdated(data[Own])
  /\ IsNil(Own)
  /\ pc' = "idle"
  /\ url' = NoUrl
  /\ UNCHANGED <<clusterVars, cm, rolling, redirects, cms, next, changed, boundVars>>

(* An error of Update is logged, and the deployments are rolled all the     *)
(* same.                                                                    *)
UpdateConfigMap ==
  /\ pc = "update"
  /\ \/ Own \notin changed /\ data' = [data EXCEPT ![Own] = cm] /\ UNCHANGED faults
     \/ Own \in changed /\ UNCHANGED <<data, faults>>
     \/ Fault("update") /\ UNCHANGED data
  /\ pc' = "listDeployments"
  /\ UNCHANGED <<svcUrl, stored, tokens, client, localVars, changed, edits>>

(* rollingUpgradeDeployments: the deployments whose annotation names Own.   *)
(* An error ends it.                                                        *)
ListDeployments ==
  /\ pc = "listDeployments"
  /\ LET matching == {d \in Deployments : Own \in UpdateOnChange[d]} IN
       \/ /\ Fault("listDeployments")
          /\ pc' = "getClient"
          /\ UNCHANGED rolling
       \/ /\ rolling' = matching
          /\ pc' = IF matching = {} THEN "getClient" ELSE "roll"
          /\ UNCHANGED faults
  /\ UNCHANGED <<clusterVars, url, cm, redirects, cms, next, changed, edits>>

(* updateContainers: the token of this ConfigMap goes into the variables of *)
(* all that the annotation names.                                           *)
UpdateContainers(d) ==
  [c \in ConfigMaps |-> IF c \in UpdateOnChange[d] THEN cm ELSE tokens[d][c]]

RollDeployment ==
  /\ pc = "roll"
  /\ \E d \in rolling :
       \/ /\ Fault("roll")
          /\ tokens' \in {tokens, [tokens EXCEPT ![d] = UpdateContainers(d)]}
          /\ rolling' = {}
          /\ pc' = "getClient"
       \/ /\ tokens' = [tokens EXCEPT ![d] = UpdateContainers(d)]
          /\ rolling' = rolling \ {d}
          /\ pc' = IF rolling' = {} THEN "getClient" ELSE "roll"
          /\ UNCHANGED faults
  /\ UNCHANGED <<svcUrl, stored, data, client, url, cm, redirects, cms, next, changed, edits>>

-----------------------------------------------------------------------------
(* updateServiceOAuthClient: the client is deleted and made again.  Then    *)
(* updateOtherConfigMaps follows if there is a URL.                         *)

MissingRedirect == OpenShift /\ url # NoUrl /\ client # Absent /\ url \notin client

GetOAuthClient ==
  /\ pc = "getClient"
  /\ \/ /\ url = NoUrl
        /\ pc' = "idle"
        /\ UNCHANGED <<redirects, faults>>
     \/ /\ url # NoUrl
        /\ ~ MissingRedirect
        /\ pc' = "list"
        /\ UNCHANGED <<redirects, faults>>
     \/ /\ OpenShift /\ url # NoUrl
        /\ Fault("getClient")
        /\ pc' = "list"
        /\ UNCHANGED redirects
     \/ /\ MissingRedirect
        /\ redirects' = client \cup {url}
        /\ pc' = "deleteClient"
        /\ UNCHANGED faults
  /\ UNCHANGED <<clusterVars, url, cm, rolling, cms, next, changed, edits>>

DeleteOAuthClient ==
  /\ pc = "deleteClient"
  /\ \/ Fault("deleteClient") /\ pc' = "list" /\ client' \in {client, Absent}
     \/ client' = Absent /\ pc' = "createClient" /\ UNCHANGED faults
  /\ UNCHANGED <<svcUrl, stored, data, tokens, localVars, changed, edits>>

CreateOAuthClient ==
  /\ pc = "createClient"
  /\ \/ Fault("createClient") /\ UNCHANGED client
     \/ client' = redirects /\ UNCHANGED faults
  /\ pc' = "list"
  /\ UNCHANGED <<svcUrl, stored, data, tokens, localVars, changed, edits>>

-----------------------------------------------------------------------------
(* updateOtherConfigMaps.  exposeURL is one variable for all ConfigMaps:    *)
(* what is trimmed or added for one is seen by the next.                    *)

TrimSlash(u) == [u EXCEPT !.slash = FALSE]
AddSlash(u) == [u EXCEPT !.slash = TRUE]
TrimProtocol(u) == [u EXCEPT !.proto = FALSE]

(* url.Parse takes a URL without protocol for a path.                       *)
NoPath(u) == IF u.proto THEN [u EXCEPT !.path = FALSE, !.slash = TRUE] ELSE RootPath

AfterPlain(c, u) == IF "plain" \in Wants[c] THEN TrimSlash(u) ELSE u
AfterFull(c, u) == IF "full" \in Wants[c] THEN AddSlash(AfterPlain(c, u)) ELSE AfterPlain(c, u)
AfterNoProtocol(c, u) ==
  IF "noProtocol" \in Wants[c] THEN TrimProtocol(TrimSlash(AfterFull(c, u))) ELSE AfterFull(c, u)

(* Mutant: the slash is not added in front of the trimmed protocol.         *)
ExposeUrlAfterNoSlash(c, u) ==
  IF "fullNoProtocol" \in Wants[c] THEN TrimProtocol(AfterNoProtocol(c, u))
  ELSE AfterNoProtocol(c, u)

(* exposeURL after the ConfigMap c.                                         *)
ExposeUrlAfter(c, u) ==
  IF "fullNoProtocol" \in Wants[c] THEN TrimProtocol(AddSlash(AfterNoProtocol(c, u)))
  ELSE AfterNoProtocol(c, u)

FormOf(f, c, u) ==
  CASE f = "plain"          -> AfterPlain(c, u)
    [] f = "full"           -> AfterFull(c, u)
    [] f = "noPath"         -> NoPath(AfterFull(c, u))
    [] f = "noProtocol"     -> AfterNoProtocol(c, u)
    [] f = "fullNoProtocol" -> ExposeUrlAfter(c, u)
    [] f = "protocol"       -> Fixed

InjectedData(c, u, old) ==
  [e \in Entries |-> IF e \in Wants[c] THEN FormOf(e, c, u) ELSE old[e]]

ListConfigMaps ==
  /\ pc = "list"
  /\ \/ /\ Fault("list")
        /\ pc' = "idle"
        /\ UNCHANGED <<cms, next, changed>>
     \/ /\ cms' = data
        /\ next' = 1
        /\ changed' = {}
        /\ pc' = "inject"
        /\ UNCHANGED faults
  /\ UNCHANGED <<clusterVars, url, cm, rolling, redirects, edits>>

(* Mutant: one step past the end of the list.                               *)
NextConfigMapPastEnd ==
  IF next <= Len(ListOrder)
  THEN next' = next + 1 /\ url' = ExposeUrlAfter(ListOrder[next], url) /\ pc' = "inject"
  ELSE next' = 1 /\ url' = NoUrl /\ pc' = "idle"

(* On to the next ConfigMap of the list, or to the end.                     *)
NextConfigMap ==
  IF next < Len(ListOrder)
  THEN next' = next + 1 /\ url' = ExposeUrlAfter(ListOrder[next], url) /\ pc' = "inject"
  ELSE next' = 1 /\ url' = NoUrl /\ pc' = "idle"

(* A failed Update ends the loop.                                           *)
InjectConfigMap ==
  /\ pc = "inject"
  /\ LET c == ListOrder[next]
         new == InjectedData(c, url, cms[c])
     IN \/ /\ new = cms[c]
           /\ NextConfigMap
           /\ UNCHANGED <<data, faults>>
        \/ /\ new # cms[c]
           /\ c \notin changed
           /\ data' = [data EXCEPT ![c] = new]
           /\ NextConfigMap
           /\ UNCHANGED faults
        \/ /\ new # cms[c]
           /\ c \in changed
           /\ next' = 1 /\ url' = NoUrl /\ pc' = "idle"
           /\ UNCHANGED <<data, faults>>
        \/ /\ new # cms[c]
           /\ Fault("inject")
           /\ next' = 1 /\ url' = NoUrl /\ pc' = "idle"
           /\ \/ UNCHANGED data
              \/ c \notin changed /\ data' = [data EXCEPT ![c] = new]
  /\ UNCHANGED <<svcUrl, stored, tokens, client, cm, rolling, redirects, cms, changed, edits>>

-----------------------------------------------------------------------------
(* The process crashes and starts again; users write ConfigMaps; the URL    *)
(* of the service changes.                                                  *)

Crash ==
  /\ Fault("crash")
  /\ pc # "idle"
  /\ pc' = "idle"
  /\ url' = NoUrl /\ cm' = NoData /\ rolling' = {} /\ redirects' = {}
  /\ cms' = [c \in ConfigMaps |-> NoData] /\ next' = 1
  /\ UNCHANGED <<clusterVars, changed, edits>>

Edit == edits < MaxEdits /\ edits' = edits + 1

EditConfigMap ==
  \E c \in ConfigMaps :
    \E e \in Wants[c] \cup (IF c = Own THEN OwnWants ELSE {}) :
      \E v \in {Empty, IF e = "yaml" THEN OriginalYaml ELSE UserValue} :
        /\ Edit
        /\ data[c][e] # v
        /\ data' = [data EXCEPT ![c] = [@ EXCEPT ![e] = v]]
        /\ changed' = changed \cup {c}
        /\ UNCHANGED <<svcUrl, stored, tokens, client, pc, localVars, faults>>

ChangeUrl ==
  \E u \in ExposeUrls \cup {NoUrl} :
    /\ Edit
    /\ u # svcUrl
    /\ svcUrl' = u
    /\ UNCHANGED <<stored, data, tokens, client, pc, localVars, changed, faults>>

-----------------------------------------------------------------------------
HandlerStep ==
  \/ GetConfigMap \/ GetPanics \/ UpdateConfigMap \/ ListDeployments \/ RollDeployment
  \/ GetOAuthClient \/ DeleteOAuthClient \/ CreateOAuthClient
  \/ ListConfigMaps \/ InjectConfigMap

RelatedNext ==
  \/ Callback \/ Deliver
  \/ HandlerStep
  \/ Crash \/ EditConfigMap \/ ChangeUrl

RelatedSpec == RelatedInit /\ [][RelatedNext]_relatedVars

(* The informer delivers what changed and resyncs for ever; a call ends.    *)
RelatedFairness ==
  /\ WF_relatedVars(Callback)
  /\ WF_relatedVars(Deliver)
  /\ WF_relatedVars(HandlerStep)

FairRelatedSpec == RelatedSpec /\ RelatedFairness

-----------------------------------------------------------------------------
(* No ConfigMap listed before position i asks for a URL without protocol.   *)
KeepsProtocol(i) == \A j \in 1 .. i - 1 : Wants[ListOrder[j]] \cap StrippedForms = {}

ShapeRight(f, u) ==
  CASE f = "plain"          -> ~ u.slash
    [] f = "full"           -> u.slash
    [] f = "noPath"         -> u.slash /\ ~ u.path
    [] f = "noProtocol"     -> ~ u.slash /\ ~ u.proto
    [] f = "fullNoProtocol" -> u.slash /\ ~ u.proto

EntriesRight(i, d) ==
  \A f \in Wants[ListOrder[i]] \cap UrlForms :
    d[f] \in Url =>
      /\ ShapeRight(f, d[f])
      /\ KeepsProtocol(i) /\ f \notin StrippedForms => d[f].proto

(* Whatever exposeURL went through for the ConfigMaps listed before, and    *)
(* whatever failed or was edited meanwhile: an injected URL has the slash   *)
(* its annotation asks for, is without protocol if it is to be, and has its *)
(* protocol if no ConfigMap before stripped it.                             *)
FormsRight == \A i \in 1 .. Len(ListOrder) : EntriesRight(i, data[ListOrder[i]])

(* "Exposed URL of the service called foo": with its protocol.              *)
PlainHasProtocol ==
  \A c \in ConfigMaps : data[c]["plain"] \in Url => data[c]["plain"].proto

(* A URL that stays reaches its entries, after failed calls, conflicts with *)
(* users and crashes: in the service's own ConfigMap as it is, in those     *)
(* that name the service in the form they ask for.  While the service's own *)
(* ConfigMap holds nothing, the panic on its nil map keeps the URL from all *)
(* of them; that passes as soon as somebody writes an entry.  It says       *)
(* nothing of a ConfigMap listed after one that strips the protocol.        *)
InjectedEventually ==
  \A u \in ExposeUrls :
    <>[](svcUrl = u) /\ (OwnWants # {} => <>[](~ IsNil(Own))) =>
      <>[](/\ "url" \in OwnWants => data[Own]["url"] = u
           /\ \A i \in 1 .. Len(ListOrder) : \A f \in Wants[ListOrder[i]] \cap UrlForms :
                KeepsProtocol(i) =>
                  data[ListOrder[i]][f] \in Url /\ data[ListOrder[i]][f].base = u.base)

(* A deployment that asks for it is restarted with the injected values.     *)
RolledOutEventually ==
  \A d \in Deployments :
    Own \in UpdateOnChange[d] =>
      \A e \in OwnWants \cap {"url", "fixed"} :
        <>[](svcUrl # NoUrl) => <>[](tokens[d][Own][e] = data[Own][e])

(* Pods are restarted when a new value is injected: not for ever after.     *)
RestsEventually == <>[](pc # "roll")

(* An OAuthClient of the service's name has the exposed URL added.          *)
RedirectEventually ==
  \A u \in ExposeUrls :
    <>[](svcUrl = u) /\ client # Absent /\ OpenShift => <>[](client # Absent /\ u \in client)
=============================================================================
