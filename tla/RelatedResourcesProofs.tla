----------------------- MODULE RelatedResourcesProofs -----------------------
(***************************************************************************)
(* Proofs about RelatedResources: types, and the forms of the injected     *)
(* URLs, for every set of ConfigMaps, every list order, every combination  *)
(* of annotations and every failure.                                       *)
(***************************************************************************)
EXTENDS RelatedResources, TLAPS

(* Entries are right in the ConfigMaps, in the list's copy of them and in   *)
(* the copy of Own; exposeURL is the service's own URL until the loop over  *)
(* the list starts, and keeps its protocol while the list does.             *)
UrlInv ==
  /\ pc # "inject" => url \in ExposeUrls \cup {NoUrl}
  /\ pc \in {"deleteClient", "createClient", "list", "inject"} => url \in Url
  /\ pc = "inject" => (KeepsProtocol(next) => url.proto)
  /\ pc = "deleteClient" => client # Absent

CopiesRight ==
  /\ \A i \in 1 .. Len(ListOrder) : EntriesRight(i, cms[ListOrder[i]])
  /\ \A i \in 1 .. Len(ListOrder) : ListOrder[i] = Own => EntriesRight(i, cm)

RelatedInv == RelatedTypeOK /\ FormsRight /\ CopiesRight /\ UrlInv

-----------------------------------------------------------------------------
(* The list is a sequence of ConfigMaps.                                    *)
LEMMA ListFacts ==
  /\ Len(ListOrder) \in Nat
  /\ \A i \in 1 .. Len(ListOrder) : ListOrder[i] \in ConfigMaps
  /\ Own \in ConfigMaps
BY ListAssumption

(* There is a ConfigMap to list.                                            *)
LEMMA ListNonempty == 1 \in 1 .. Len(ListOrder)
BY ListAssumption

(* The service's URLs are URLs.                                             *)
LEMMA ExposeFacts == ExposeUrls \subseteq Url /\ NoUrl \notin Url
BY UrlAssumption

(* What trimming and adding do to a URL.                                    *)
LEMMA UrlFacts ==
  ASSUME NEW u \in Url
  PROVE  /\ TrimSlash(u) \in Url /\ ~ TrimSlash(u).slash /\ TrimSlash(u).proto = u.proto
         /\ AddSlash(u) \in Url /\ AddSlash(u).slash /\ AddSlash(u).proto = u.proto
         /\ TrimProtocol(u) \in Url /\ ~ TrimProtocol(u).proto
         /\ TrimProtocol(u).slash = u.slash
         /\ NoPath(u) \in Url \cup {RootPath}
         /\ u.proto => NoPath(u) \in Url /\ NoPath(u).proto /\ NoPath(u).slash
                        /\ ~ NoPath(u).path
         /\ ~ u.proto => NoPath(u) = RootPath
         /\ u.proto \in BOOLEAN /\ u.slash \in BOOLEAN
BY DEF Url, TrimSlash, AddSlash, TrimProtocol, NoPath

(* A ConfigMap without data has nothing wrong in it.                        *)
LEMMA NoDataFacts ==
  /\ NoData \in Data
  /\ InitialData \subseteq Data
  /\ \A i \in 1 .. Len(ListOrder) :
       EntriesRight(i, NoData) /\ \A own \in InitialData : EntriesRight(i, own)
<1>1. OriginalYaml \in Yaml
  BY LimitAssumption DEF OriginalYaml, Yaml, Bases
<1>2. NoData \in Data /\ InitialData \subseteq Data
  BY <1>1 DEF NoData, InitialData, Data, Value
<1>3. \A f \in UrlForms : NoData[f] = Empty /\ \A own \in InitialData : own[f] = Empty
  BY DEF NoData, InitialData, Entries, Forms, UrlForms, StrippedForms
<1>4. Empty \notin Url
  BY ValueAssumption
<1> QED BY <1>2, <1>3, <1>4 DEF EntriesRight

(* One ConfigMap of the loop: its entries are right, and exposeURL keeps    *)
(* its protocol for the next one unless this one strips it.                 *)
LEMMA InjectedFacts ==
  ASSUME NEW i \in 1 .. Len(ListOrder), NEW u \in Url, NEW old \in Data,
         EntriesRight(i, old), KeepsProtocol(i) => u.proto
  PROVE  /\ InjectedData(ListOrder[i], u, old) \in Data
         /\ EntriesRight(i, InjectedData(ListOrder[i], u, old))
         /\ ExposeUrlAfter(ListOrder[i], u) \in Url
         /\ i + 1 \in 1 .. Len(ListOrder) /\ KeepsProtocol(i + 1) =>
              ExposeUrlAfter(ListOrder[i], u).proto
<1> DEFINE c == ListOrder[i]
           new == InjectedData(c, u, old)
           plain == AfterPlain(c, u)
           full == AfterFull(c, u)
           bare == AfterNoProtocol(c, u)
           last == ExposeUrlAfter(c, u)
<1>0. c \in ConfigMaps /\ Wants[c] \subseteq Forms
  BY ListFacts, WantsAssumption
<1>1. /\ plain \in Url /\ plain.proto = u.proto
      /\ "plain" \in Wants[c] => ~ plain.slash
  BY UrlFacts DEF AfterPlain
<1> HIDE DEF plain
<1>2. /\ full \in Url /\ full.proto = u.proto
      /\ "full" \in Wants[c] => full.slash
  BY <1>1, UrlFacts DEF AfterFull, plain
<1> HIDE DEF full
<1>3. /\ bare \in Url
      /\ "noProtocol" \in Wants[c] => ~ bare.slash /\ ~ bare.proto
      /\ "noProtocol" \notin Wants[c] => bare.proto = u.proto
  <2>1. CASE "noProtocol" \in Wants[c]
    <3>1. TrimSlash(full) \in Url /\ ~ TrimSlash(full).slash
      BY <1>2, UrlFacts
    <3>2. bare = TrimProtocol(TrimSlash(full))
      BY <2>1 DEF AfterNoProtocol, full
    <3> QED BY <2>1, <3>1, <3>2, UrlFacts
  <2>2. CASE "noProtocol" \notin Wants[c]
    <3>1. bare = full
      BY <2>2 DEF AfterNoProtocol, full
    <3> QED BY <1>2, <2>2, <3>1
  <2> QED BY <2>1, <2>2
<1> HIDE DEF bare
<1>4. /\ last \in Url
      /\ "fullNoProtocol" \in Wants[c] => last.slash /\ ~ last.proto
      /\ "fullNoProtocol" \notin Wants[c] => last = bare
  <2>1. CASE "fullNoProtocol" \in Wants[c]
    <3>1. AddSlash(bare) \in Url /\ AddSlash(bare).slash
      BY <1>3, UrlFacts
    <3>2. last = TrimProtocol(AddSlash(bare))
      BY <2>1 DEF ExposeUrlAfter, bare
    <3> QED BY <2>1, <3>1, <3>2, UrlFacts
  <2>2. CASE "fullNoProtocol" \notin Wants[c]
    <3>1. last = bare
      BY <2>2 DEF ExposeUrlAfter, bare
    <3> QED BY <1>3, <2>2, <3>1
  <2> QED BY <2>1, <2>2
<1> HIDE DEF last
<1>5. /\ FormOf("plain", c, u) = plain /\ FormOf("full", c, u) = full
      /\ FormOf("noPath", c, u) = NoPath(full)
      /\ FormOf("noProtocol", c, u) = bare /\ FormOf("fullNoProtocol", c, u) = last
      /\ FormOf("protocol", c, u) = Fixed
  BY DEF FormOf, plain, full, bare, last
<1>6. \A f \in Forms : FormOf(f, c, u) \in Value
  BY <1>1, <1>2, <1>3, <1>4, <1>5, UrlFacts DEF Forms, UrlForms, StrippedForms, Value
<1>7. new \in Data
  <2>1. \A e \in Entries : old[e] \in Value
    BY DEF Data
  <2> QED BY <1>0, <1>6, <2>1 DEF InjectedData, Data
<1>8. \A f \in Wants[c] \cap UrlForms : new[f] = FormOf(f, c, u)
  BY DEF InjectedData, Entries, Forms
<1> HIDE DEF new
<1>9. EntriesRight(i, new)
  <2> SUFFICES ASSUME NEW f \in Wants[c] \cap UrlForms, new[f] \in Url
               PROVE  /\ ShapeRight(f, new[f])
                      /\ KeepsProtocol(i) /\ f \notin StrippedForms => new[f].proto
    BY DEF EntriesRight
  <2>1. CASE f = "plain"
    BY <1>1, <1>5, <1>8, <2>1 DEF ShapeRight
  <2>2. CASE f = "full"
    BY <1>2, <1>5, <1>8, <2>2 DEF ShapeRight
  <2>3. CASE f = "noPath"
    <3>1. NoPath(full) \in Url
      BY <1>5, <1>8, <2>3
    <3>2. full.proto
      BY <1>2, <3>1, UrlFacts, ValueAssumption
    <3>3. NoPath(full).proto /\ NoPath(full).slash /\ ~ NoPath(full).path
      BY <1>2, <3>2, UrlFacts
    <3> QED BY <1>5, <1>8, <2>3, <3>3 DEF ShapeRight
  <2>4. CASE f = "noProtocol"
    BY <1>3, <1>5, <1>8, <2>4 DEF ShapeRight, StrippedForms
  <2>5. CASE f = "fullNoProtocol"
    BY <1>4, <1>5, <1>8, <2>5 DEF ShapeRight, StrippedForms
  <2> QED BY <2>1, <2>2, <2>3, <2>4, <2>5 DEF UrlForms, StrippedForms
<1>10. ASSUME KeepsProtocol(i + 1) PROVE last.proto
  <2>1. i \in Nat /\ i \in 1 .. (i + 1) - 1
    BY ListFacts
  <2>2. Wants[c] \cap StrippedForms = {}
    BY <1>10, <2>1 DEF KeepsProtocol
  <2>3. KeepsProtocol(i)
    <3>1. \A j \in 1 .. i - 1 : j \in 1 .. (i + 1) - 1
      BY <2>1
    <3> QED BY <1>10, <3>1 DEF KeepsProtocol
  <2> QED BY <1>3, <1>4, <2>2, <2>3 DEF StrippedForms
<1> QED BY <1>4, <1>7, <1>9, <1>10 DEF new, last

(* updateServiceConfigMap leaves the URL forms alone.                       *)
LEMMA UpdatedOwnFacts ==
  ASSUME NEW old \in Data, url \in ExposeUrls \cup {NoUrl}
  PROVE  /\ UpdatedOwn(old) \in Data
         /\ \A i \in 1 .. Len(ListOrder) : EntriesRight(i, old) => EntriesRight(i, UpdatedOwn(old))
<1>1. ASSUME NEW e \in OwnEntries, NEW v \in Value PROVE OwnEntry(e, v) \in Value
  <2>1. CASE e = "url"
    BY <1>1, <2>1, ExposeFacts DEF OwnEntry, Value
  <2>2. CASE e = "fixed" \/ e = "ifEmpty"
    BY <1>1, <2>2 DEF OwnEntry, Value
  <2>3. CASE e = "yaml"
    <3>1. ASSUME url # NoUrl, v \in Yaml PROVE LongerYaml(v) \in Yaml
      <4>1. url.base \in Bases
        BY <3>1 DEF Bases
      <4>2. v.lines \in 0 .. MaxLines
        BY <3>1 DEF Yaml
      <4> QED BY <4>1, <4>2, LimitAssumption DEF LongerYaml, Yaml
    <3> QED BY <1>1, <2>3, <3>1 DEF OwnEntry, Value
  <2> QED BY <2>1, <2>2, <2>3 DEF OwnEntries
<1>2. UpdatedOwn(old) \in Data
  BY <1>1, WantsAssumption DEF UpdatedOwn, Data
<1>3. \A f \in UrlForms : UpdatedOwn(old)[f] = old[f]
  BY WantsAssumption DEF UpdatedOwn, UrlForms, StrippedForms, OwnEntries, Entries, Forms
<1> QED BY <1>2, <1>3 DEF EntriesRight

(* The initial states.                                                      *)
LEMMA RelatedInitInv == RelatedInit => RelatedInv
<1> SUFFICES ASSUME RelatedInit PROVE RelatedInv
  OBVIOUS
<1> USE DEF RelatedInit
<1>1. /\ data \in [ConfigMaps -> {NoData} \cup InitialData]
      /\ \A c \in ConfigMaps : data[c] \in {NoData} \cup InitialData
  OBVIOUS
<1>2. RelatedTypeOK
  <2>1. data \in [ConfigMaps -> Data] /\ cms \in [ConfigMaps -> Data] /\ cm \in Data
    BY <1>1, NoDataFacts
  <2>2. tokens \in [Deployments -> [ConfigMaps -> Data]]
    BY NoDataFacts
  <2> QED BY <2>1, <2>2, ListNonempty, LimitAssumption DEF RelatedTypeOK
<1>3. FormsRight /\ CopiesRight
  BY <1>1, NoDataFacts, ListFacts DEF FormsRight, CopiesRight
<1>4. UrlInv
  BY DEF UrlInv
<1> QED BY <1>2, <1>3, <1>4 DEF RelatedInv

-----------------------------------------------------------------------------
(* A failed call counts.                                                    *)
LEMMA FaultFacts == ASSUME RelatedTypeOK, NEW f, Fault(f) PROVE faults' \in 0 .. MaxFaults
BY LimitAssumption DEF RelatedTypeOK, Fault

(* The start of a handler, its reads of Own and its end by a panic.         *)
LEMMA ReadOwnInv ==
  ASSUME RelatedInv, Callback \/ GetConfigMap \/ GetPanics PROVE RelatedInv'
<1> USE DEF RelatedInv
<1>1. /\ UNCHANGED <<svcUrl, stored, data, tokens, client, rolling, redirects, cms, next, edits>>
      /\ faults' \in 0 .. MaxFaults
      /\ pc' \in {"get", "getClient", "update", "idle"}
      /\ changed' \in {changed, {}}
      /\ url' \in {url, stored, NoUrl}
      /\ cm' \in {cm, UpdatedOwn(data[Own])}
      /\ pc # "inject"
  <2>1. faults' \in 0 .. MaxFaults
    BY FaultFacts DEF Callback, GetConfigMap, GetPanics, boundVars, RelatedTypeOK
  <2> QED BY <2>1 DEF Callback, GetConfigMap, GetPanics, clusterVars, boundVars
<1>2. url' \in ExposeUrls \cup {NoUrl}
  BY <1>1 DEF UrlInv, RelatedTypeOK
<1>3. data[Own] \in Data /\ url \in ExposeUrls \cup {NoUrl}
  BY <1>1, ListFacts DEF RelatedTypeOK, UrlInv
<1>4. cm' \in Data
  BY <1>1, <1>3, UpdatedOwnFacts DEF RelatedTypeOK
<1>5. \A i \in 1 .. Len(ListOrder) : ListOrder[i] = Own => EntriesRight(i, cm')
  BY <1>1, <1>3, UpdatedOwnFacts DEF CopiesRight, FormsRight
<1>6. RelatedTypeOK'
  BY <1>1, <1>2, <1>4, ExposeFacts DEF RelatedTypeOK, Calls
<1>7. (FormsRight /\ CopiesRight)'
  BY <1>1, <1>5 DEF FormsRight, CopiesRight
<1>8. UrlInv'
  BY <1>1, <1>2 DEF UrlInv
<1> QED BY <1>6, <1>7, <1>8

(* Steps that touch no ConfigMap data and no local copy of it.              *)
LEMMA ElsewhereInv ==
  ASSUME RelatedInv,
         Deliver \/ ListDeployments \/ RollDeployment \/ GetOAuthClient \/ DeleteOAuthClient
         \/ CreateOAuthClient \/ ChangeUrl
  PROVE  RelatedInv'
<1> USE DEF RelatedInv
<1>1. /\ UNCHANGED <<data, url, cm, cms, next, changed>>
      /\ faults' \in 0 .. MaxFaults
      /\ edits' \in 0 .. MaxEdits
  <2>1. faults' \in 0 .. MaxFaults
    BY FaultFacts DEF Deliver, ListDeployments, RollDeployment, GetOAuthClient,
         DeleteOAuthClient, CreateOAuthClient, ChangeUrl, boundVars, RelatedTypeOK
  <2>2. edits' \in 0 .. MaxEdits
    BY LimitAssumption DEF Deliver, ListDeployments, RollDeployment, GetOAuthClient,
         DeleteOAuthClient, CreateOAuthClient, ChangeUrl, Edit, boundVars, RelatedTypeOK
  <2> QED BY <2>1, <2>2 DEF Deliver, ListDeployments, RollDeployment, GetOAuthClient,
         DeleteOAuthClient, CreateOAuthClient, ChangeUrl, clusterVars, localVars
<1>2. svcUrl' \in ExposeUrls \cup {NoUrl} /\ stored' \in ExposeUrls \cup {NoUrl}
  BY DEF Deliver, ListDeployments, RollDeployment, GetOAuthClient, DeleteOAuthClient,
         CreateOAuthClient, ChangeUrl, clusterVars, RelatedTypeOK
<1>3. tokens' \in [Deployments -> [ConfigMaps -> Data]]
  <2>1. ASSUME NEW d \in Deployments PROVE UpdateContainers(d) \in [ConfigMaps -> Data]
    BY <2>1 DEF UpdateContainers, RelatedTypeOK
  <2>2. CASE RollDeployment
    BY <2>1, <2>2 DEF RollDeployment, RelatedTypeOK
  <2>3. CASE ~ RollDeployment
    BY <2>3 DEF Deliver, ListDeployments, GetOAuthClient, DeleteOAuthClient,
         CreateOAuthClient, ChangeUrl, clusterVars, RelatedTypeOK
  <2> QED BY <2>2, <2>3
<1>4. /\ rolling' \subseteq Deployments
      /\ client' \in (SUBSET ExposeUrls) \cup {Absent}
      /\ redirects' \subseteq ExposeUrls
  <2>1. rolling' \subseteq Deployments
    BY DEF Deliver, ListDeployments, RollDeployment, GetOAuthClient, DeleteOAuthClient,
         CreateOAuthClient, ChangeUrl, localVars, RelatedTypeOK
  <2>2. client' \in (SUBSET ExposeUrls) \cup {Absent}
    BY DEF Deliver, ListDeployments, RollDeployment, GetOAuthClient, DeleteOAuthClient,
         CreateOAuthClient, ChangeUrl, clusterVars, RelatedTypeOK
  <2>3. CASE GetOAuthClient
    <3>1. MissingRedirect => client \cup {url} \subseteq ExposeUrls
      BY <2>3 DEF MissingRedirect, GetOAuthClient, UrlInv, RelatedTypeOK
    <3> QED BY <2>1, <2>2, <2>3, <3>1 DEF GetOAuthClient, RelatedTypeOK
  <2>4. CASE ~ GetOAuthClient
    BY <2>1, <2>2, <2>4 DEF Deliver, ListDeployments, RollDeployment, DeleteOAuthClient,
         CreateOAuthClient, ChangeUrl, localVars, RelatedTypeOK
  <2> QED BY <2>3, <2>4
<1>5. pc' \in Calls \cup {"idle"}
  BY DEF Deliver, ListDeployments, RollDeployment, GetOAuthClient, DeleteOAuthClient,
         CreateOAuthClient, ChangeUrl, RelatedTypeOK, Calls
<1>6. RelatedTypeOK'
  BY <1>1, <1>2, <1>3, <1>4, <1>5 DEF RelatedTypeOK
<1>7. (FormsRight /\ CopiesRight)'
  BY <1>1 DEF FormsRight, CopiesRight
<1>8. UrlInv'
  <2>1. CASE Deliver \/ ChangeUrl
    BY <1>1, <2>1 DEF Deliver, ChangeUrl, UrlInv, KeepsProtocol
  <2>2. CASE ListDeployments \/ RollDeployment
    BY <1>1, <2>2 DEF ListDeployments, RollDeployment, UrlInv
  <2>3. CASE GetOAuthClient
    BY <1>1, <2>3, ExposeFacts DEF GetOAuthClient, UrlInv, MissingRedirect, clusterVars
  <2>4. CASE DeleteOAuthClient \/ CreateOAuthClient
    BY <1>1, <2>4 DEF DeleteOAuthClient, CreateOAuthClient, UrlInv
  <2> QED BY <2>1, <2>2, <2>3, <2>4
<1> QED BY <1>6, <1>7, <1>8

(* Own is written with its copy.                                            *)
LEMMA UpdateConfigMapInv ==
  ASSUME RelatedInv, UpdateConfigMap PROVE RelatedInv'
<1> USE DEF RelatedInv
<1>1. /\ UNCHANGED <<svcUrl, stored, tokens, client, url, cm, rolling, redirects, cms, next,
                     changed, edits>>
      /\ pc = "update" /\ pc' = "listDeployments"
      /\ data' \in {data, [data EXCEPT ![Own] = cm]}
  BY DEF UpdateConfigMap, localVars
<1>2. faults' \in 0 .. MaxFaults
  BY FaultFacts DEF UpdateConfigMap, RelatedTypeOK
<1>3. data' \in [ConfigMaps -> Data]
  BY <1>1 DEF RelatedTypeOK
<1>4. \A c \in ConfigMaps : data'[c] = data[c] \/ (c = Own /\ data'[c] = cm)
  BY <1>1 DEF RelatedTypeOK
<1>5. FormsRight'
  BY <1>4, ListFacts DEF FormsRight, CopiesRight
<1>6. RelatedTypeOK' /\ CopiesRight' /\ UrlInv'
  BY <1>1, <1>2, <1>3 DEF RelatedTypeOK, CopiesRight, UrlInv, Calls
<1> QED BY <1>5, <1>6

(* The list's copy is the ConfigMaps' data.                                 *)
LEMMA ListConfigMapsInv ==
  ASSUME RelatedInv, ListConfigMaps PROVE RelatedInv'
<1> USE DEF RelatedInv
<1>1. /\ UNCHANGED <<svcUrl, stored, data, tokens, client, url, cm, rolling, redirects, edits>>
      /\ pc = "list"
      /\ \/ pc' = "idle" /\ UNCHANGED <<cms, next, changed>>
         \/ pc' = "inject" /\ cms' = data /\ next' = 1 /\ changed' = {}
  BY DEF ListConfigMaps, clusterVars
<1>2. faults' \in 0 .. MaxFaults
  BY FaultFacts DEF ListConfigMaps, RelatedTypeOK
<1>3. url \in ExposeUrls /\ url \in Url /\ url.proto
  BY <1>1, ExposeFacts, UrlAssumption DEF UrlInv
<1>4. RelatedTypeOK'
  BY <1>1, <1>2, ListNonempty DEF RelatedTypeOK, Calls
<1>5. (FormsRight /\ CopiesRight)'
  BY <1>1 DEF FormsRight, CopiesRight
<1>6. UrlInv'
  BY <1>1, <1>3 DEF UrlInv
<1> QED BY <1>4, <1>5, <1>6

(* One round of the loop.                                                   *)
LEMMA InjectConfigMapInv ==
  ASSUME RelatedInv, InjectConfigMap PROVE RelatedInv'
<1> USE DEF RelatedInv
<1> DEFINE c == ListOrder[next]
           new == InjectedData(c, url, cms[c])
           after == ExposeUrlAfter(c, url)
<1>1. /\ UNCHANGED <<svcUrl, stored, tokens, client, cm, rolling, redirects, cms, changed, edits>>
      /\ pc = "inject"
      /\ data' \in {data, [data EXCEPT ![c] = new]}
      /\ \/ next < Len(ListOrder) /\ next' = next + 1 /\ url' = after /\ pc' = "inject"
         \/ next' = 1 /\ url' = NoUrl /\ pc' = "idle"
  BY DEF InjectConfigMap, NextConfigMap
<1>2. faults' \in 0 .. MaxFaults
  BY FaultFacts DEF InjectConfigMap, RelatedTypeOK
<1>3. /\ next \in 1 .. Len(ListOrder) /\ c \in ConfigMaps /\ cms[c] \in Data /\ url \in Url
      /\ EntriesRight(next, cms[c]) /\ (KeepsProtocol(next) => url.proto)
  BY <1>1, ListFacts DEF RelatedTypeOK, CopiesRight, UrlInv
<1>4. /\ new \in Data /\ EntriesRight(next, new) /\ after \in Url
      /\ next + 1 \in 1 .. Len(ListOrder) /\ KeepsProtocol(next + 1) => after.proto
  BY <1>3, InjectedFacts
<1> HIDE DEF new, after
<1>5. data' \in [ConfigMaps -> Data]
  BY <1>1, <1>4 DEF RelatedTypeOK
<1>6. FormsRight'
  <2> SUFFICES ASSUME NEW i \in 1 .. Len(ListOrder)
               PROVE  EntriesRight(i, data'[ListOrder[i]])
    BY DEF FormsRight
  <2>1. CASE i = next
    BY <1>1, <1>3, <1>4, <2>1 DEF FormsRight, RelatedTypeOK
  <2>2. CASE i # next
    <3>1. ListOrder[i] # c /\ ListOrder[i] \in ConfigMaps
      <4>1. \A j, k \in 1 .. Len(ListOrder) : ListOrder[j] = ListOrder[k] => j = k
        BY ListAssumption
      <4> QED BY <1>3, <2>2, <4>1, ListFacts
    <3>2. data'[ListOrder[i]] = data[ListOrder[i]]
      BY <1>1, <3>1 DEF RelatedTypeOK
    <3> QED BY <3>2 DEF FormsRight
  <2> QED BY <2>1, <2>2
<1>7. next' \in 1 .. Len(ListOrder)
  BY <1>1, <1>3, ListFacts, ListNonempty
<1>8. RelatedTypeOK'
  BY <1>1, <1>2, <1>4, <1>5, <1>7 DEF RelatedTypeOK, Calls
<1>9. CopiesRight'
  BY <1>1 DEF CopiesRight
<1>10. UrlInv'
  <2>1. pc' = "inject" => url' \in Url /\ (KeepsProtocol(next') => url'.proto)
    BY <1>1, <1>3, <1>4, <1>7
  <2> QED BY <1>1, <2>1 DEF UrlInv, KeepsProtocol
<1> QED BY <1>6, <1>8, <1>9, <1>10

(* A crash drops the copies; the ConfigMaps stay.                           *)
LEMMA CrashInv ==
  ASSUME RelatedInv, Crash PROVE RelatedInv'
<1> USE DEF RelatedInv
<1>1. faults' \in 0 .. MaxFaults
  BY FaultFacts DEF Crash
<1>2. RelatedTypeOK'
  BY <1>1, NoDataFacts, ListNonempty DEF Crash, RelatedTypeOK, clusterVars
<1>3. (FormsRight /\ CopiesRight /\ UrlInv)'
  BY NoDataFacts, ListFacts DEF Crash, FormsRight, CopiesRight, UrlInv, clusterVars
<1> QED BY <1>2, <1>3

(* An entry a user wrote is no injected URL.                                *)
LEMMA EditInv ==
  ASSUME RelatedInv, EditConfigMap PROVE RelatedInv'
<1> USE DEF RelatedInv
<1>1. PICK c \in ConfigMaps, e \in Entries, v \in {Empty, UserValue, OriginalYaml} :
        /\ data' = [data EXCEPT ![c] = [@ EXCEPT ![e] = v]]
        /\ changed' = changed \cup {c}
        /\ v = OriginalYaml => e = "yaml"
  <2>1. PICK c \in ConfigMaps : \E e \in Wants[c] \cup (IF c = Own THEN OwnWants ELSE {}) :
          \E v \in {Empty, IF e = "yaml" THEN OriginalYaml ELSE UserValue} :
            /\ data' = [data EXCEPT ![c] = [@ EXCEPT ![e] = v]]
            /\ changed' = changed \cup {c}
    BY DEF EditConfigMap
  <2>2. Wants[c] \cup (IF c = Own THEN OwnWants ELSE {}) \subseteq Entries
    BY WantsAssumption DEF Entries
  <2>3. UserValue # OriginalYaml /\ Empty # OriginalYaml
    BY ValueAssumption, LimitAssumption DEF OriginalYaml, Yaml, Bases
  <2> QED BY <2>1, <2>2, <2>3
<1>2. /\ UNCHANGED <<svcUrl, stored, tokens, client, pc, url, cm, rolling, redirects, cms, next,
                     faults>>
      /\ edits' \in 0 .. MaxEdits
  BY LimitAssumption DEF EditConfigMap, Edit, localVars, RelatedTypeOK
<1>3. v \in Value /\ (e # "yaml" => v \notin Url)
  BY <1>1, ValueAssumption, LimitAssumption DEF Value, OriginalYaml, Yaml, Bases
<1>4. data[c] \in Data /\ [data[c] EXCEPT ![e] = v] \in Data
  BY <1>3 DEF Data, RelatedTypeOK
<1>5. data' \in [ConfigMaps -> Data]
  BY <1>1, <1>4 DEF RelatedTypeOK
<1>6. FormsRight'
  <2> SUFFICES ASSUME NEW i \in 1 .. Len(ListOrder), NEW f \in Wants[ListOrder[i]] \cap UrlForms,
                      data'[ListOrder[i]][f] \in Url
               PROVE  data'[ListOrder[i]][f] = data[ListOrder[i]][f]
    BY DEF FormsRight, EntriesRight
  <2>1. f # "yaml" /\ f \in Entries /\ ListOrder[i] \in ConfigMaps
    BY ListFacts DEF UrlForms, StrippedForms, Entries, Forms
  <2>2. CASE ListOrder[i] = c /\ f = e
    <3>1. data'[ListOrder[i]][f] = v
      BY <1>1, <1>4, <2>1, <2>2 DEF RelatedTypeOK, Data
    <3> QED BY <1>3, <2>1, <2>2, <3>1
  <2>3. CASE ListOrder[i] # c \/ f # e
    BY <1>1, <1>4, <2>1, <2>3 DEF RelatedTypeOK, Data
  <2> QED BY <2>2, <2>3
<1>7. (RelatedTypeOK /\ CopiesRight /\ UrlInv)'
  BY <1>1, <1>2, <1>5 DEF RelatedTypeOK, CopiesRight, UrlInv, KeepsProtocol
<1> QED BY <1>6, <1>7

(* Every step keeps the invariant.                                          *)
LEMMA RelatedNextInv == RelatedInv /\ [RelatedNext]_relatedVars => RelatedInv'
<1>1. ASSUME RelatedInv, RelatedNext PROVE RelatedInv'
  BY <1>1, ReadOwnInv, ElsewhereInv, UpdateConfigMapInv, ListConfigMapsInv, InjectConfigMapInv,
     CrashInv, EditInv DEF RelatedNext, HandlerStep
<1>2. ASSUME RelatedInv, UNCHANGED relatedVars PROVE RelatedInv'
  BY <1>2 DEF RelatedInv, RelatedTypeOK, FormsRight, CopiesRight, UrlInv, KeepsProtocol,
              relatedVars, clusterVars, localVars, boundVars
<1> QED BY <1>1, <1>2

-----------------------------------------------------------------------------
(* The inductive invariant holds throughout.                                *)
THEOREM RelatedInvariance == RelatedSpec => []RelatedInv
BY RelatedInitInv, RelatedNextInv, PTL DEF RelatedSpec

(* Every variable keeps its type: the loop stays in the list, and exposeURL *)
(* stays a URL.                                                             *)
THEOREM RelatedTypeCorrect == RelatedSpec => []RelatedTypeOK
<1>1. RelatedInv => RelatedTypeOK
  BY DEF RelatedInv
<1> QED BY <1>1, RelatedInvariance, PTL

(* The URLs injected into other ConfigMaps have the form their annotation   *)
(* asks for, although exposeURL is shared by all of them; only the protocol *)
(* may be missing, and only after a ConfigMap that asked for that.          *)
THEOREM InjectedForms == RelatedSpec => []FormsRight
<1>1. RelatedInv => FormsRight
  BY DEF RelatedInv
<1> QED BY <1>1, RelatedInvariance, PTL
=============================================================================
