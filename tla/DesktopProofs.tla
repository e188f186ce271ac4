--------------------------- MODULE DesktopProofs ---------------------------
(***************************************************************************)
(* Theorems about the configuration files and the HTTP boundary of the     *)
(* desktop process, for all documents an operator may write and all        *)
(* requests a client may send.                                             *)
(***************************************************************************)
EXTENDS Desktop, FiniteSetTheorems, SequenceTheorems, WellFoundedInduction, TLAPS

-----------------------------------------------------------------------------
(* Finite sets as sequences.                                               *)
LEMMA SequenceOfSet ==
  ASSUME NEW S, IsFiniteSet(S)
  PROVE  /\ SetToSeq(S) \in Seq(S)
         /\ ToSet(SetToSeq(S)) = S
         /\ \A j, k \in DOMAIN SetToSeq(S) : SetToSeq(S)[j] = SetToSeq(S)[k] => j = k
<1>1. PICK n \in Nat : n = Cardinality(S) /\ ExistsBijection(1..n, S)
  BY FS_CardinalityType
<1>2. \E f \in [1..n -> S] : IsInjective(f)
  BY <1>1 DEF ExistsBijection, Bijection, Injection
<1>3. PICK f \in [1..n -> S] : f = SetToSeq(S) /\ IsInjective(f)
  BY <1>1, <1>2 DEF SetToSeq
<1>4. f \in Surjection(1..n, S)
  <2>1. Cardinality(1..n) = n
    BY FS_Interval
  <2> QED
    BY <1>1, <1>3, <2>1, FS_Injection DEF Injection
<1>5. f \in Seq(S) /\ DOMAIN f = 1..n
  OBVIOUS
<1>6. ToSet(f) = S
  BY <1>4, <1>5 DEF Surjection, ToSet
<1> QED
  BY <1>3, <1>5, <1>6 DEF IsInjective

(* Appending to a sequence of distinct elements others that are not in it. *)
LEMMA DistinctAppended ==
  ASSUME NEW T, NEW s \in Seq(T), NEW t \in Seq(T),
         \A j, k \in DOMAIN s : s[j] = s[k] => j = k,
         \A j, k \in DOMAIN t : t[j] = t[k] => j = k,
         ToSet(s) \cap ToSet(t) = {}
  PROVE  /\ s \o t \in Seq(T)
         /\ \A j, k \in DOMAIN (s \o t) : (s \o t)[j] = (s \o t)[k] => j = k
         /\ ToSet(s \o t) = ToSet(s) \cup ToSet(t)
         /\ IsPrefix(s, s \o t)
<1> DEFINE u == s \o t
<1>1. /\ Len(s) \in Nat /\ Len(t) \in Nat /\ DOMAIN s = 1..Len(s) /\ DOMAIN t = 1..Len(t)
      /\ u \in Seq(T) /\ Len(u) = Len(s) + Len(t) /\ DOMAIN u = 1..Len(s) + Len(t)
      /\ \A k \in 1..Len(s) : k \in DOMAIN u /\ u[k] = s[k]
      /\ \A k \in 1..Len(t) : k + Len(s) \in DOMAIN u /\ u[k + Len(s)] = t[k]
  OBVIOUS
<1>2. \A k \in DOMAIN u : \/ k \in DOMAIN s /\ u[k] = s[k]
                          \/ k - Len(s) \in DOMAIN t /\ u[k] = t[k - Len(s)]
  BY <1>1
<1>3. IsPrefix(s, u)
  <2>1. SubSeq(s, 1, Len(s)) = [k \in 1..Len(s) |-> s[k]] /\ SubSeq(u, 1, Len(s)) = [k \in 1..Len(s) |-> u[k]]
    BY <1>1
  <2> QED
    BY <1>1, <2>1 DEF IsPrefix
<1> HIDE DEF u
<1>4. ToSet(u) = ToSet(s) \cup ToSet(t)
  <2>1. ASSUME NEW k \in DOMAIN u PROVE u[k] \in ToSet(s) \cup ToSet(t)
    BY <1>2 DEF ToSet
  <2>2. ASSUME NEW k \in DOMAIN s PROVE s[k] \in ToSet(u)
    BY <1>1 DEF ToSet
  <2>3. ASSUME NEW k \in DOMAIN t PROVE t[k] \in ToSet(u)
    BY <1>1 DEF ToSet
  <2> QED
    BY <2>1, <2>2, <2>3 DEF ToSet
<1>5. \A j, k \in DOMAIN u : u[j] = u[k] => j = k
  <2>1. \A k \in DOMAIN s : s[k] \in ToSet(s)
    BY DEF ToSet
  <2>2. \A k \in DOMAIN t : t[k] \in ToSet(t)
    BY DEF ToSet
  <2> SUFFICES ASSUME NEW j \in DOMAIN u, NEW k \in DOMAIN u, u[j] = u[k] PROVE j = k
    OBVIOUS
  <2>3. j \in Int /\ k \in Int /\ Len(s) \in Int
    BY <1>1
  <2>4. CASE j \in DOMAIN s /\ k \in DOMAIN s /\ u[j] = s[j] /\ u[k] = s[k]
    BY <2>4
  <2>5. CASE /\ j - Len(s) \in DOMAIN t /\ k - Len(s) \in DOMAIN t
             /\ u[j] = t[j - Len(s)] /\ u[k] = t[k - Len(s)]
    <3>1. j - Len(s) = k - Len(s)
      BY <2>5
    <3> QED
      BY <2>3, <3>1
  <2> QED
    BY <1>2, <2>1, <2>2, <2>4, <2>5
<1> QED
  BY <1>1, <1>3, <1>4, <1>5 DEF u

-----------------------------------------------------------------------------
(* mcp-host.json.                                                          *)
HostConfigurations ==
  [enabled : BOOLEAN, bind_address : STRING, port : Int, max_request_body_bytes : Int,
   maximum_connections : Int, allowed_origins : SUBSET Origins,
   client_credentials : Credentials, legacy_bearer_token : BOOLEAN]

Distinct(ids) ==
  /\ \A k \in DOMAIN ids : ids[k] # EmptyId
  /\ \A j, k \in DOMAIN ids : ids[j] = ids[k] => j = k

(* What the parser lets through.                                           *)
HostFits(conf) ==
  /\ conf \in HostConfigurations
  /\ conf.bind_address \in {"127.0.0.1", "::1"}
  /\ 1 <= conf.port /\ conf.port < 65536
  /\ 1 <= conf.max_request_body_bytes /\ conf.max_request_body_bytes <= MaximumBodyBytes
  /\ 1 <= conf.maximum_connections /\ conf.maximum_connections <= 128
  /\ Distinct(conf.client_credentials)

LEMMA CredentialIds ==
  ASSUME NEW ids
  PROVE  UniqueIds([k \in DOMAIN ids |-> [id |-> ids[k]]]) <=> Distinct(ids)
  BY DEF UniqueIds, Distinct

LEMMA UnsignedShortType ==
  ASSUME NEW n \in Int
  PROVE  UnsignedShort(n) \in Int /\ 0 <= UnsignedShort(n) /\ UnsignedShort(n) < 65536
  BY DEF UnsignedShort

LEMMA UnsignedShortFits ==
  ASSUME NEW n \in Int, 0 <= n, n < 65536
  PROVE  UnsignedShort(n) = n
  BY DEF UnsignedShort

LEMMA SignedType ==
  ASSUME NEW high \in Int, 0 <= high, high < 65536
  PROVE  UnsignedShort(IF high < 32768 THEN high ELSE high - 65536) = high
  BY DEF UnsignedShort

LEMMA IntTypeType ==
  ASSUME NEW number \in Int
  PROVE  IntType(number) \in Int /\ IntType(IntType(number)) = IntType(number)
<1> DEFINE high == UnsignedShort(number \div 65536)
           low == UnsignedShort(number)
           signed == IF high < 32768 THEN high ELSE high - 65536
           made == signed * 65536 + low
<1>1. /\ high \in Int /\ 0 <= high /\ high < 65536
      /\ low \in Int /\ 0 <= low /\ low < 65536
  <2>1. number \div 65536 \in Int
    OBVIOUS
  <2> QED
    BY <2>1, UnsignedShortType
<1>2. IntType(number) = made
  BY DEF IntType
<1> HIDE DEF high, low
<1>3. signed \in Int /\ UnsignedShort(signed) = high
  BY <1>1, SignedType
<1> HIDE DEF signed
<1>4. made \in Int /\ UnsignedShort(made) = low /\ (made \div 65536) = signed
  <2>1. signed \in Int /\ low \in Int /\ 0 <= low /\ low < 65536
    BY <1>1, <1>3
  <2>2. made \in Int
    BY <2>1
  <2>3. UnsignedShort(signed * 65536 + low) = low /\ ((signed * 65536 + low) \div 65536) = signed
    BY <2>1 DEF UnsignedShort
  <2> QED
    BY <2>2, <2>3
<1> HIDE DEF made
<1>5. IntType(made) = (IF high < 32768 THEN high ELSE high - 65536) * 65536 + low
  BY <1>3, <1>4 DEF IntType
<1>6. IntType(made) = made
  BY <1>5 DEF signed, made
<1> QED
  BY <1>2, <1>4, <1>6

LEMMA SmallIntType == IntType(1) = 1 /\ IntType(2) = 2
<1>1. (1 \div 65536) = 0 /\ (2 \div 65536) = 0
  OBVIOUS
<1>2. UnsignedShort(0) = 0 /\ UnsignedShort(1) = 1 /\ UnsignedShort(2) = 2
  BY UnsignedShortFits
<1> QED
  BY <1>1, <1>2 DEF IntType

LEMMA BodyBytesType == MaximumBodyBytes \in Int
  BY DEF MaximumBodyBytes

LEMMA SizeTypeType ==
  ASSUME NEW n \in Int
  PROVE  SizeType(n) \in Int /\ (0 <= n => SizeType(n) = n)
  BY DEF SizeType, MaximumBodyBytes

LEMMA HostConfigurationType ==
  ASSUME NEW enabled \in BOOLEAN, NEW bind_address \in STRING, NEW port \in Int,
         NEW max_request_body_bytes \in Int, NEW maximum_connections \in Int,
         NEW allowed_origins \in SUBSET Origins,
         NEW client_credentials \in Credentials, NEW legacy_bearer_token \in BOOLEAN
  PROVE  [enabled |-> enabled, bind_address |-> bind_address, port |-> port,
          max_request_body_bytes |-> max_request_body_bytes,
          maximum_connections |-> maximum_connections, allowed_origins |-> allowed_origins,
          client_credentials |-> client_credentials,
          legacy_bearer_token |-> legacy_bearer_token] \in HostConfigurations
  BY DEF HostConfigurations

LEMMA ConvertedHost ==
  ASSUME NEW document \in HostDocuments(Origins)
  PROVE  /\ HostConfiguration(document) \in HostConfigurations
         /\ 0 <= HostConfiguration(document).port
         /\ HostConfiguration(document).port < 65536
<1> DEFINE conf == HostConfiguration(document)
           port == UnsignedShort(document.port)
           body == SizeType(document.max_request_body_bytes)
           connections == SizeType(document.maximum_connections)
           credentials == IF IntType(document.schema_version) = 2 THEN document.client_credentials ELSE <<>>
           legacy == IntType(document.schema_version) = 1 /\ document.legacy_bearer_token
<1>0. /\ document.port \in Int /\ document.max_request_body_bytes \in Int
      /\ document.maximum_connections \in Int
  BY DEF HostDocuments
<1>1. /\ document.enabled \in BOOLEAN /\ document.bind_address \in STRING
      /\ document.allowed_origins \in SUBSET Origins
      /\ document.client_credentials \in Credentials
      /\ document.legacy_bearer_token \in BOOLEAN
  BY DEF HostDocuments
<1>2. port \in Int /\ 0 <= port /\ port < 65536
  BY <1>0, UnsignedShortType
<1>3. body \in Int /\ connections \in Int
  BY <1>0, SizeTypeType
<1>4. credentials \in Credentials
  BY <1>1, EmptySeq DEF Credentials
<1>5. legacy \in BOOLEAN
  BY <1>1
<1>6. conf = [enabled |-> document.enabled, bind_address |-> document.bind_address, port |-> port,
              max_request_body_bytes |-> body, maximum_connections |-> connections,
              allowed_origins |-> document.allowed_origins,
              client_credentials |-> credentials, legacy_bearer_token |-> legacy]
  BY DEF HostConfiguration
<1>7. conf.port = port
  BY <1>6
<1> HIDE DEF conf, port, body, connections, credentials, legacy
<1>8. conf \in HostConfigurations
  BY <1>1, <1>2, <1>3, <1>4, <1>5, <1>6, HostConfigurationType
<1> QED
  BY <1>2, <1>7, <1>8 DEF conf

LEMMA ParsedHostFits ==
  ASSUME NEW document \in HostDocuments(Origins), ParseHost(document).ok
  PROVE  ParseHost(document) = Parsed(HostConfiguration(document)) /\ HostFits(HostConfiguration(document))
<1> DEFINE conf == HostConfiguration(document)
<1>1. /\ Bounded(conf, document)
      /\ UniqueIds([k \in DOMAIN conf.client_credentials |-> [id |-> conf.client_credentials[k]]])
      /\ ParseHost(document) = Parsed(conf)
  BY DEF ParseHost, Refused, Parsed
<1>2. Distinct(conf.client_credentials)
  BY <1>1, CredentialIds
<1>3. conf \in HostConfigurations /\ 0 <= conf.port /\ conf.port < 65536
  BY ConvertedHost
<1> HIDE DEF conf
<1>4. conf.port \in Int
  BY <1>3 DEF HostConfigurations
<1>5. /\ conf.bind_address \in {"127.0.0.1", "::1"} /\ conf.port # 0
      /\ 1 <= conf.max_request_body_bytes /\ conf.max_request_body_bytes <= MaximumBodyBytes
      /\ 1 <= conf.maximum_connections /\ conf.maximum_connections <= 128
  <2>1. /\ conf.bind_address \in {"127.0.0.1", "::1"} /\ conf.port # 0
        /\ conf.max_request_body_bytes \in 1..MaximumBodyBytes
        /\ conf.maximum_connections \in 1..128
    BY <1>1 DEF Bounded
  <2>2. 1 <= conf.max_request_body_bytes /\ conf.max_request_body_bytes <= MaximumBodyBytes
    BY <2>1, BodyBytesType
  <2>3. 1 <= conf.maximum_connections /\ conf.maximum_connections <= 128
    BY <2>1
  <2> QED
    BY <2>1, <2>2, <2>3
<1>6. 1 <= conf.port
  BY <1>3, <1>4, <1>5
<1>7. HostFits(conf)
  BY <1>2, <1>3, <1>5, <1>6 DEF HostFits
<1> QED
  BY <1>1, <1>7 DEF conf

LEMMA HostFields ==
  ASSUME NEW conf \in HostConfigurations
  PROVE  conf = [enabled |-> conf.enabled, bind_address |-> conf.bind_address, port |-> conf.port,
                 max_request_body_bytes |-> conf.max_request_body_bytes,
                 maximum_connections |-> conf.maximum_connections,
                 allowed_origins |-> conf.allowed_origins,
                 client_credentials |-> conf.client_credentials,
                 legacy_bearer_token |-> conf.legacy_bearer_token]
  BY DEF HostConfigurations

(* What fits is read as it was written. *)
LEMMA WrittenHostIsRead ==
  ASSUME NEW conf, HostFits(conf), ~conf.legacy_bearer_token
  PROVE  /\ HostDocument(conf) \in HostDocuments(Origins)
         /\ ParseHost(HostDocument(conf)) = Parsed(conf)
<1> DEFINE document == HostDocument(conf)
<1>0. /\ conf \in HostConfigurations
      /\ conf.enabled \in BOOLEAN /\ conf.bind_address \in STRING
      /\ conf.port \in Int /\ conf.max_request_body_bytes \in Int /\ conf.maximum_connections \in Int
      /\ conf.allowed_origins \in SUBSET Origins
      /\ conf.client_credentials \in Credentials
      /\ conf.legacy_bearer_token = FALSE
  BY DEF HostFits, HostConfigurations
<1>a. /\ 1 <= conf.port /\ conf.port < 65536
      /\ 1 <= conf.max_request_body_bytes /\ conf.max_request_body_bytes <= MaximumBodyBytes
      /\ 1 <= conf.maximum_connections /\ conf.maximum_connections <= 128
      /\ conf.bind_address \in {"127.0.0.1", "::1"}
  BY DEF HostFits
<1>1. document \in HostDocuments(Origins)
  <2>1. "none" \in {"none", "malformed"}
    OBVIOUS
  <2>2. 2 \in Int
    OBVIOUS
  <2> QED
    BY <1>0, <2>1, <2>2 DEF HostDocument, HostDocuments
<1>2. HostConfiguration(document) = conf
  <2>1. UnsignedShort(conf.port) = conf.port
    <3>1. conf.port \in Int /\ 0 <= conf.port /\ conf.port < 65536
      BY <1>0, <1>a
    <3> QED
      BY <3>1, UnsignedShortFits
  <2>2. /\ SizeType(conf.max_request_body_bytes) = conf.max_request_body_bytes
        /\ SizeType(conf.maximum_connections) = conf.maximum_connections
    <3>1. 0 <= conf.max_request_body_bytes /\ 0 <= conf.maximum_connections
      BY <1>0, <1>a
    <3> QED
      BY <1>0, <3>1, SizeTypeType
  <2>3. HostConfiguration(document) =
          [enabled |-> conf.enabled, bind_address |-> conf.bind_address, port |-> conf.port,
           max_request_body_bytes |-> conf.max_request_body_bytes,
           maximum_connections |-> conf.maximum_connections,
           allowed_origins |-> conf.allowed_origins,
           client_credentials |-> conf.client_credentials, legacy_bearer_token |-> FALSE]
    BY <2>1, <2>2, SmallIntType DEF HostConfiguration, HostDocument
  <2> HIDE DEF document
  <2> QED
    BY <1>0, <2>3, HostFields
<1>3. document.flaw = "none" /\ IntType(document.schema_version) = 2
  BY SmallIntType DEF HostDocument
<1> HIDE DEF document
<1>4. Bounded(conf, document)
  <2>1. conf.port # 0
    BY <1>0, <1>a
  <2>2. conf.max_request_body_bytes \in 1..MaximumBodyBytes /\ conf.maximum_connections \in 1..128
    <3>1. conf.max_request_body_bytes \in 1..MaximumBodyBytes
      BY <1>0, <1>a, BodyBytesType
    <3>2. conf.maximum_connections \in 1..128
      BY <1>0, <1>a
    <3> QED
      BY <3>1, <3>2
  <2> QED
    BY <1>a, <2>1, <2>2 DEF Bounded
<1>5. UniqueIds([k \in DOMAIN conf.client_credentials |-> [id |-> conf.client_credentials[k]]])
  BY CredentialIds DEF HostFits
<1>6. ParseHost(document) = Parsed(conf)
  BY <1>2, <1>3, <1>4, <1>5 DEF ParseHost
<1> QED
  BY <1>1, <1>6 DEF document

(* Every client gets one credential, and nothing else changes.             *)
LEMMA EnsuredFits ==
  ASSUME NEW conf, HostFits(conf), NEW ids \in SUBSET Clients, IsFiniteSet(ids),
         Ensurable(conf, ids)
  PROVE  LET new == Ensured(conf, ids)
         IN /\ HostFits(new) /\ ~new.legacy_bearer_token
            /\ ToSet(new.client_credentials) = ids
            /\ new.allowed_origins = conf.allowed_origins
            /\ SameButCredentials(Parsed(new), Parsed(conf))
<1> DEFINE old == conf.client_credentials
           missing == ids \ ToSet(old)
           added == SetToSeq(missing)
           all == old \o added
           new == Ensured(conf, ids)
<1>1. /\ conf \in HostConfigurations /\ Distinct(old) /\ old \in Credentials
      /\ ToSet(old) \subseteq ids
  BY DEF HostFits, HostConfigurations, Ensurable
<1>2. IsFiniteSet(missing) /\ missing \subseteq Clients
  BY FS_Difference
<1>3. /\ added \in Seq(missing) /\ ToSet(added) = missing
      /\ \A j, k \in DOMAIN added : added[j] = added[k] => j = k
  <2> HIDE DEF missing
  <2> QED
    BY <1>2, SequenceOfSet
<1> HIDE DEF added, old, all
<1>4. added \in Seq(Clients \cup {EmptyId}) /\ old \in Seq(Clients \cup {EmptyId})
  <2>1. old \in Seq(Clients \cup {EmptyId})
    BY <1>1 DEF Credentials
  <2>2. added \in Seq(Clients \cup {EmptyId})
    <3>1. missing \subseteq Clients \cup {EmptyId}
      BY <1>2
    <3> HIDE DEF missing
    <3>2. added \in Seq(missing)
      BY <1>3
    <3> QED
      BY <3>1, <3>2, SeqMonotonic
  <2> QED
    BY <2>1, <2>2
<1>5. /\ all \in Seq(Clients \cup {EmptyId})
      /\ \A j, k \in DOMAIN all : all[j] = all[k] => j = k
      /\ ToSet(all) = ToSet(old) \cup ToSet(added)
      /\ IsPrefix(old, all)
  <2>1. /\ \A j, k \in DOMAIN old : old[j] = old[k] => j = k
        /\ ToSet(old) \cap ToSet(added) = {}
    BY <1>1, <1>3 DEF Distinct
  <2> QED
    BY <1>3, <1>4, <2>1, DistinctAppended DEF all
<1>6. ToSet(all) = ids
  BY <1>1, <1>3, <1>5
<1>7. Distinct(all) /\ all \in Credentials
  <2>1. \A k \in DOMAIN all : all[k] \in Clients
    BY <1>6 DEF ToSet
  <2>2. \A k \in DOMAIN all : all[k] # EmptyId
    BY <2>1, EmptyIdAssumption
  <2> QED
    BY <1>5, <2>2 DEF Distinct, Credentials
<1>8. new = [conf EXCEPT !.client_credentials = all, !.legacy_bearer_token = FALSE]
  BY DEF Ensured, all, added, old
<1> HIDE DEF new, missing
<1>9. /\ new \in HostConfigurations
      /\ new.client_credentials = all /\ new.legacy_bearer_token = FALSE
      /\ new.bind_address = conf.bind_address /\ new.port = conf.port
      /\ new.max_request_body_bytes = conf.max_request_body_bytes
      /\ new.maximum_connections = conf.maximum_connections
      /\ new.allowed_origins = conf.allowed_origins
  BY <1>1, <1>7, <1>8 DEF HostConfigurations
<1>10. HostFits(new)
  BY <1>7, <1>9 DEF HostFits
<1>11. SameButCredentials(Parsed(new), Parsed(conf))
  <2>1. IsPrefix(conf.client_credentials, new.client_credentials)
    BY <1>5, <1>9 DEF old
  <2> QED
    BY <1>8, <1>9, <2>1 DEF SameButCredentials, Parsed
<1> QED
  BY <1>6, <1>9, <1>10, <1>11 DEF new

-----------------------------------------------------------------------------
(* client-profiles.json.                                                   *)
Ids(table) == {profile.id : profile \in table}

ProfilesFit(table) ==
  /\ IsFiniteSet(table)
  /\ Ids(table) \subseteq Clients
  /\ \A p, r \in table : p.id = r.id => p = r

LEMMA ParsedProfilesFit ==
  ASSUME NEW document \in ProfilesDocuments
  PROVE  \/ ParseProfiles(document) = Refused
         \/ \E table : ParseProfiles(document) = Parsed(table) /\ ProfilesFit(table)
<1> DEFINE entries == document.clients
           Made(k) == Profile(entries[k])
           table == {Made(k) : k \in DOMAIN entries}
<1> SUFFICES ASSUME ParseProfiles(document) # Refused
             PROVE  ParseProfiles(document) = Parsed(table) /\ ProfilesFit(table)
  OBVIOUS
<1>1. ParseProfiles(document) = Parsed(table) /\ UniqueIds(entries)
  BY DEF ParseProfiles
<1>2. /\ DOMAIN entries = 1..Len(entries) /\ Len(entries) \in Nat
      /\ \A k \in DOMAIN entries : entries[k] \in ProfileEntries
  <2>1. entries \in Seq(ProfileEntries)
    BY DEF ProfilesDocuments
  <2> HIDE DEF entries
  <2> QED
    BY <2>1
<1>3. \A k \in DOMAIN entries : Made(k).id = entries[k].id /\ entries[k].id \in Clients
  BY <1>1, <1>2 DEF Profile, UniqueIds, ProfileEntries
<1> HIDE DEF Made
<1>4. IsFiniteSet(table)
  <2> DEFINE made == [k \in DOMAIN entries |-> Made(k)]
  <2>1. IsFiniteSet(DOMAIN entries)
    BY <1>2, FS_Interval
  <2>2. made \in Surjection(DOMAIN entries, table)
    BY DEF Surjection
  <2> HIDE DEF made, table
  <2> QED
    BY <2>1, <2>2, FS_Surjection
<1>5. Ids(table) \subseteq Clients
  BY <1>3 DEF Ids
<1>6. \A p, r \in table : p.id = r.id => p = r
  BY <1>1, <1>3 DEF UniqueIds
<1> QED
  BY <1>1, <1>4, <1>5, <1>6 DEF ProfilesFit

LEMMA IdsFinite ==
  ASSUME NEW table, ProfilesFit(table)
  PROVE  IsFiniteSet(Ids(table)) /\ Ids(table) \in SUBSET Clients
<1> DEFINE f == [profile \in table |-> profile.id]
<1>1. f \in Surjection(table, Ids(table))
  BY DEF Ids, Surjection
<1> HIDE DEF f
<1> QED
  BY <1>1, FS_Surjection DEF ProfilesFit

-----------------------------------------------------------------------------
(* accounts.json.                                                          *)
AccountsFit(rows) ==
  /\ rows \in Seq(AccountConfigurations)
  /\ UniqueIds(rows)
  /\ \A k \in DOMAIN rows : rows[k].api_id >= 0 /\ IntType(rows[k].api_id) = rows[k].api_id
  /\ \A path \in ToSet(Directories(rows)) : IsSafeTdlibDataPath(path)
  /\ IsInjective(Directories(rows))

LEMMA ParsedAccountsFit ==
  ASSUME NEW document \in AccountsDocuments
  PROVE  \/ ParseAccounts(document) = Refused
         \/ \E rows : ParseAccounts(document) = Parsed(rows) /\ AccountsFit(rows)
<1> DEFINE entries == document.accounts
           rows == [k \in DOMAIN entries |-> Account(entries[k])]
<1> SUFFICES ASSUME ParseAccounts(document) # Refused
             PROVE  ParseAccounts(document) = Parsed(rows) /\ AccountsFit(rows)
  OBVIOUS
<1>1. /\ ParseAccounts(document) = Parsed(rows)
      /\ UniqueIds(rows)
      /\ \A k \in DOMAIN rows : rows[k].api_id >= 0
      /\ \A path \in ToSet(Directories(rows)) : IsSafeTdlibDataPath(path)
      /\ IsInjective(Directories(rows))
  BY DEF ParseAccounts
<1>2. /\ DOMAIN entries = 1..Len(entries) /\ Len(entries) \in Nat
      /\ \A k \in DOMAIN entries : entries[k] \in AccountConfigurations
  <2>1. entries \in Seq(AccountConfigurations)
    BY DEF AccountsDocuments
  <2> HIDE DEF entries
  <2> QED
    BY <2>1
<1> HIDE DEF entries
<1>3. \A k \in DOMAIN entries :
        /\ Account(entries[k]) \in AccountConfigurations
        /\ IntType(Account(entries[k]).api_id) = Account(entries[k]).api_id
  BY <1>2, IntTypeType DEF Account, AccountConfigurations
<1>4. rows \in Seq(AccountConfigurations)
  BY <1>2, <1>3
<1> QED
  BY <1>1, <1>3, <1>4 DEF AccountsFit

LEMMA WrittenAccountsAreRead ==
  ASSUME NEW rows, AccountsFit(rows)
  PROVE  /\ AccountsDocument(rows) \in AccountsDocuments
         /\ ParseAccounts(AccountsDocument(rows)) = Parsed(rows)
<1>1. rows \in Seq(AccountConfigurations)
  BY DEF AccountsFit
<1>2. AccountsDocument(rows) \in AccountsDocuments
  <2>1. "none" \in {"none", "malformed"}
    OBVIOUS
  <2>2. 1 \in Int
    OBVIOUS
  <2> QED
    BY <1>1, <2>1, <2>2 DEF AccountsDocument, AccountsDocuments
<1>3. [k \in DOMAIN rows |-> Account(rows[k])] = rows
  <2>1. /\ rows = [k \in DOMAIN rows |-> rows[k]]
        /\ \A k \in DOMAIN rows : rows[k] \in AccountConfigurations
    BY <1>1
  <2>2. \A k \in DOMAIN rows : Account(rows[k]) = rows[k]
    BY <2>1 DEF Account, AccountConfigurations, AccountsFit
  <2> QED
    BY <2>1, <2>2
<1>4. ParseAccounts(AccountsDocument(rows)) = Parsed(rows)
  BY <1>3, SmallIntType DEF ParseAccounts, AccountsDocument, AccountsFit
<1> QED
  BY <1>2, <1>4

LEMMA SameDirectories ==
  ASSUME NEW old, NEW new, Len(old) \in Nat, Len(new) = Len(old),
         \A k \in 1..Len(old) :
           /\ new[k].database_directory = old[k].database_directory
           /\ new[k].files_directory = old[k].files_directory
  PROVE  Directories(new) = Directories(old)
<1>1. ASSUME NEW k \in 1..2 * Len(old), k % 2 = 1 PROVE (k + 1) \div 2 \in 1..Len(old)
  BY <1>1
<1>2. ASSUME NEW k \in 1..2 * Len(old), k % 2 # 1 PROVE k \div 2 \in 1..Len(old)
  BY <1>2
<1> QED
  BY <1>1, <1>2 DEF Directories

(* One row: what SameButSecrets says of it, and the same field by field.   *)
RowKept(new, old) ==
  new = [old EXCEPT !.api_hash = @ \/ new.api_hash, !.database_key = @ \/ new.database_key]

LEMMA RowFields ==
  ASSUME NEW row \in AccountConfigurations
  PROVE  /\ row.api_hash \in BOOLEAN /\ row.database_key \in BOOLEAN
         /\ row = [id |-> row.id, database_directory |-> row.database_directory,
                   files_directory |-> row.files_directory, api_id |-> row.api_id,
                   api_hash |-> row.api_hash, database_key |-> row.database_key]
  BY DEF AccountConfigurations

LEMMA RowKeptByFields ==
  ASSUME NEW old \in AccountConfigurations, NEW new \in AccountConfigurations
  PROVE  RowKept(new, old) <=>
           /\ new.id = old.id /\ new.api_id = old.api_id
           /\ new.database_directory = old.database_directory
           /\ new.files_directory = old.files_directory
           /\ old.api_hash => new.api_hash
           /\ old.database_key => new.database_key
<1> DEFINE hash == old.api_hash \/ new.api_hash
           key == old.database_key \/ new.database_key
<1>1. [old EXCEPT !.api_hash = hash, !.database_key = key] =
        [id |-> old.id, database_directory |-> old.database_directory,
         files_directory |-> old.files_directory, api_id |-> old.api_id,
         api_hash |-> hash, database_key |-> key]
  <2> DEFINE row == [old EXCEPT !.api_hash = hash, !.database_key = key]
  <2>1. hash \in BOOLEAN /\ key \in BOOLEAN
    OBVIOUS
  <2> HIDE DEF hash, key
  <2>2. /\ row \in AccountConfigurations
        /\ row.id = old.id /\ row.api_id = old.api_id
        /\ row.database_directory = old.database_directory
        /\ row.files_directory = old.files_directory
        /\ row.api_hash = hash /\ row.database_key = key
    BY <2>1 DEF AccountConfigurations
  <2> HIDE DEF row
  <2>3. row = [id |-> row.id, database_directory |-> row.database_directory,
               files_directory |-> row.files_directory, api_id |-> row.api_id,
               api_hash |-> row.api_hash, database_key |-> row.database_key]
    BY <2>2, RowFields
  <2>4. row = [id |-> old.id, database_directory |-> old.database_directory,
               files_directory |-> old.files_directory, api_id |-> old.api_id,
               api_hash |-> hash, database_key |-> key]
    BY <2>2, <2>3
  <2> QED
    BY <2>4 DEF row
<1>2. hash \in BOOLEAN /\ key \in BOOLEAN
  OBVIOUS
<1>3. (hash = new.api_hash) <=> (old.api_hash => new.api_hash)
  BY RowFields
<1>4. (key = new.database_key) <=> (old.database_key => new.database_key)
  BY RowFields
<1>5. RowKept(new, old) <=> new = [old EXCEPT !.api_hash = hash, !.database_key = key]
  BY DEF RowKept
<1> HIDE DEF hash, key
<1>6. new = [id |-> new.id, database_directory |-> new.database_directory,
             files_directory |-> new.files_directory, api_id |-> new.api_id,
             api_hash |-> new.api_hash, database_key |-> new.database_key]
  BY RowFields
<1>7. RowKept(new, old) <=>
        /\ new.id = old.id /\ new.api_id = old.api_id
        /\ new.database_directory = old.database_directory
        /\ new.files_directory = old.files_directory
        /\ new.api_hash = hash /\ new.database_key = key
  BY <1>1, <1>5, <1>6
<1> QED
  BY <1>3, <1>4, <1>7

LEMMA SameButSecretsByRows ==
  ASSUME NEW new, NEW old
  PROVE  SameButSecrets(Parsed(new), Parsed(old)) <=>
           DOMAIN new = DOMAIN old /\ \A k \in DOMAIN new : RowKept(new[k], old[k])
  BY DEF SameButSecrets, Parsed, RowKept

LEMMA SecretsReflexive ==
  ASSUME NEW rows, \A k \in DOMAIN rows : rows[k] \in AccountConfigurations
  PROVE  SameButSecrets(Parsed(rows), Parsed(rows))
  BY SameButSecretsByRows, RowKeptByFields

LEMMA SecretsTransitive ==
  ASSUME NEW a, NEW b, NEW c,
         \A k \in DOMAIN a : a[k] \in AccountConfigurations,
         \A k \in DOMAIN b : b[k] \in AccountConfigurations,
         \A k \in DOMAIN c : c[k] \in AccountConfigurations,
         SameButSecrets(Parsed(b), Parsed(a)), SameButSecrets(Parsed(c), Parsed(b))
  PROVE  SameButSecrets(Parsed(c), Parsed(a))
<1>1. /\ DOMAIN a = DOMAIN b /\ DOMAIN b = DOMAIN c
      /\ \A k \in DOMAIN a : RowKept(b[k], a[k]) /\ RowKept(c[k], b[k])
  BY SameButSecretsByRows
<1>2. \A k \in DOMAIN a : RowKept(c[k], a[k])
  BY <1>1, RowKeptByFields
<1> QED
  BY <1>1, <1>2, SameButSecretsByRows

(* A hash or a key is added to the row of one account.                     *)
WithSecrets(rows, k, ensured) ==
  [rows EXCEPT ![k].api_hash = TRUE, ![k].database_key = @ \/ ensured]

LEMMA SecretsAdded ==
  ASSUME NEW rows, AccountsFit(rows), NEW k \in DOMAIN rows, NEW ensured \in BOOLEAN
  PROVE  /\ AccountsFit(WithSecrets(rows, k, ensured))
         /\ SameButSecrets(Parsed(WithSecrets(rows, k, ensured)), Parsed(rows))
<1> DEFINE new == WithSecrets(rows, k, ensured)
           row == [rows[k] EXCEPT !.api_hash = TRUE, !.database_key = rows[k].database_key \/ ensured]
<1>1. /\ DOMAIN rows = 1..Len(rows) /\ Len(rows) \in Nat
      /\ \A j \in DOMAIN rows : rows[j] \in AccountConfigurations
      /\ rows = [j \in 1..Len(rows) |-> rows[j]]
  BY DEF AccountsFit
<1>2. rows[k] \in AccountConfigurations
  BY <1>1
<1>3. /\ row \in AccountConfigurations
      /\ row.id = rows[k].id /\ row.api_id = rows[k].api_id
      /\ row.database_directory = rows[k].database_directory
      /\ row.files_directory = rows[k].files_directory
      /\ row.api_hash = TRUE
      /\ row.database_key = (rows[k].database_key \/ ensured)
  BY <1>2 DEF AccountConfigurations
<1>4. new = [rows EXCEPT ![k] = row]
  BY <1>1 DEF WithSecrets
<1>5. /\ DOMAIN new = 1..Len(rows)
      /\ \A j \in 1..Len(rows) : new[j] = IF j = k THEN row ELSE rows[j]
  BY <1>1, <1>4
<1> HIDE DEF new, row
<1>6. \A j \in 1..Len(rows) :
        /\ new[j] \in AccountConfigurations
        /\ new[j].id = rows[j].id /\ new[j].api_id = rows[j].api_id
        /\ new[j].database_directory = rows[j].database_directory
        /\ new[j].files_directory = rows[j].files_directory
  BY <1>1, <1>3, <1>5
<1>7. \A j \in 1..Len(rows) : RowKept(new[j], rows[j])
  <2>1. RowKept(row, rows[k])
    BY <1>2, <1>3, RowKeptByFields
  <2>2. ASSUME NEW j \in 1..Len(rows), j = k PROVE RowKept(new[j], rows[j])
    BY <1>5, <2>1, <2>2
  <2>3. ASSUME NEW j \in 1..Len(rows), j # k PROVE RowKept(new[j], rows[j])
    <3>1. new[j] = rows[j] /\ rows[j] \in AccountConfigurations
      BY <1>1, <1>5, <2>3
    <3> QED
      BY <3>1, RowKeptByFields
  <2> QED
    BY <2>2, <2>3
<1>8. SameButSecrets(Parsed(new), Parsed(rows))
  BY <1>1, <1>5, <1>7, SameButSecretsByRows
<1>9. new \in Seq(AccountConfigurations) /\ Len(new) = Len(rows)
  <2>1. new = [j \in 1..Len(rows) |-> new[j]]
    BY <1>1, <1>4
  <2>2. new \in [1..Len(rows) -> AccountConfigurations]
    BY <1>6, <2>1
  <2> QED
    BY <1>1, <2>2
<1>10. Directories(new) = Directories(rows)
  BY <1>1, <1>6, <1>9, SameDirectories
<1>11. UniqueIds(new)
  BY <1>1, <1>5, <1>6 DEF UniqueIds, AccountsFit
<1>12. AccountsFit(new)
  BY <1>1, <1>5, <1>6, <1>9, <1>10, <1>11 DEF AccountsFit
<1> QED
  BY <1>8, <1>12 DEF new

-----------------------------------------------------------------------------
(* What is on disk, and what it means when it is loaded.                   *)
Content(file) == {Absent, Partial} \cup {Document(document) : document \in Documents(file)}

FilesTyped ==
  /\ files = [file \in Files |-> files[file]]
  /\ \A file \in Files : files[file] \in Content(file)

Meaning(file, content) ==
  IF content.kind = "document" THEN Parse(file, content.document) ELSE Refused

LEMMA FilesAre ==
  /\ Files = {ClientProfiles, AccountsFile, HostFile}
  /\ ClientProfiles # AccountsFile /\ ClientProfiles # HostFile /\ AccountsFile # HostFile
  /\ Len(Staged) = 3
  /\ \A k \in 1..3 : Staged[k] \in Files
<1>1. DOMAIN Staged = 1..3 /\ Len(Staged) = 3
  BY DEF Staged
<1>2. Staged[1] = ClientProfiles /\ Staged[2] = AccountsFile /\ Staged[3] = HostFile
  BY DEF Staged
<1>3. Files = {Staged[k] : k \in 1..3}
  BY <1>1 DEF Files, ToSet
<1>4. 1..3 = {1, 2, 3}
  OBVIOUS
<1>5. ClientProfiles # AccountsFile /\ ClientProfiles # HostFile /\ AccountsFile # HostFile
  BY DEF ClientProfiles, AccountsFile, HostFile
<1> QED
  BY <1>1, <1>2, <1>3, <1>4, <1>5

LEMMA WrittenFilesTyped ==
  ASSUME FilesTyped, NEW file \in Files, NEW content \in Content(file), Write(file, content)
  PROVE  /\ FilesTyped' /\ files'[file] = content
         /\ \A other \in Files \ {file} : files'[other] = files[other]
  BY DEF FilesTyped, Write

LEMMA DocumentContent ==
  ASSUME NEW file, NEW document \in Documents(file)
  PROVE  /\ Document(document) \in Content(file)
         /\ Meaning(file, Document(document)) = Parse(file, document)
  BY DEF Content, Document, Meaning

LEMMA HostMeaning ==
  ASSUME NEW content \in Content(HostFile)
  PROVE  \/ Meaning(HostFile, content) = Refused
         \/ \E conf : Meaning(HostFile, content) = Parsed(conf) /\ HostFits(conf)
<1>1. CASE content \in {Absent, Partial}
  BY <1>1 DEF Meaning, Absent, Partial
<1>2. ASSUME NEW document \in HostDocuments(Origins), content = Document(document)
      PROVE  \/ Meaning(HostFile, content) = Refused
             \/ \E conf : Meaning(HostFile, content) = Parsed(conf) /\ HostFits(conf)
  <2>1. Meaning(HostFile, content) = ParseHost(document)
    <3>1. content.kind = "document" /\ content.document = document
      BY <1>2 DEF Document
    <3>2. HostFile # ClientProfiles /\ HostFile # AccountsFile
      BY FilesAre
    <3> QED
      BY <3>1, <3>2 DEF Meaning, Parse
  <2>2. CASE ParseHost(document).ok
    BY <2>1, <2>2, ParsedHostFits
  <2>3. CASE ~ParseHost(document).ok
    BY <2>1, <2>3 DEF ParseHost, Parsed
  <2> QED
    BY <2>2, <2>3
<1>3. Documents(HostFile) = HostDocuments(Origins)
  <2>1. HostFile # ClientProfiles /\ HostFile # AccountsFile
    BY FilesAre
  <2> QED
    BY <2>1 DEF Documents
<1> QED
  BY <1>1, <1>2, <1>3 DEF Content

LEMMA ProfilesMeaning ==
  ASSUME NEW content \in Content(ClientProfiles)
  PROVE  \/ Meaning(ClientProfiles, content) = Refused
         \/ \E table : Meaning(ClientProfiles, content) = Parsed(table) /\ ProfilesFit(table)
<1>1. CASE content \in {Absent, Partial}
  BY <1>1 DEF Meaning, Absent, Partial
<1>2. ASSUME NEW document \in ProfilesDocuments, content = Document(document)
      PROVE  \/ Meaning(ClientProfiles, content) = Refused
             \/ \E table : Meaning(ClientProfiles, content) = Parsed(table) /\ ProfilesFit(table)
  <2>1. Meaning(ClientProfiles, content) = ParseProfiles(document)
    BY <1>2, FilesAre DEF Meaning, Document, Parse
  <2> QED
    BY <2>1, ParsedProfilesFit
<1>3. Documents(ClientProfiles) = ProfilesDocuments
  BY FilesAre DEF Documents
<1> QED
  BY <1>1, <1>2, <1>3 DEF Content

LEMMA AccountsMeaning ==
  ASSUME NEW content \in Content(AccountsFile)
  PROVE  \/ Meaning(AccountsFile, content) = Refused
         \/ \E rows : Meaning(AccountsFile, content) = Parsed(rows) /\ AccountsFit(rows)
<1>1. CASE content \in {Absent, Partial}
  BY <1>1 DEF Meaning, Absent, Partial
<1>2. ASSUME NEW document \in AccountsDocuments, content = Document(document)
      PROVE  \/ Meaning(AccountsFile, content) = Refused
             \/ \E rows : Meaning(AccountsFile, content) = Parsed(rows) /\ AccountsFit(rows)
  <2>1. Meaning(AccountsFile, content) = ParseAccounts(document)
    BY <1>2, FilesAre DEF Meaning, Document, Parse
  <2> QED
    BY <2>1, ParsedAccountsFit
<1>3. Documents(AccountsFile) = AccountsDocuments
  BY FilesAre DEF Documents
<1> QED
  BY <1>1, <1>2, <1>3 DEF Content

-----------------------------------------------------------------------------
(* The host over the profiles of a table.                                  *)
HostServes(h, table) ==
  /\ h = Listening(h.configuration, table)
  /\ HostFits(h.configuration)
  /\ ToSet(h.configuration.client_credentials) = Ids(table)

LEMMA HostEnsured ==
  ASSUME NEW conf, HostFits(conf), NEW table, ProfilesFit(table), Ensurable(conf, Ids(table))
  PROVE  LET new == Ensured(conf, Ids(table))
             content == Document(HostDocument(new))
         IN /\ content \in Content(HostFile)
            /\ Meaning(HostFile, content) = Parsed(new)
            /\ HostServes(Listening(new, table), table)
            /\ SameButCredentials(Parsed(new), Parsed(conf))
<1> DEFINE new == Ensured(conf, Ids(table))
           content == Document(HostDocument(new))
<1>1. IsFiniteSet(Ids(table)) /\ Ids(table) \in SUBSET Clients
  BY IdsFinite
<1>2. /\ HostFits(new) /\ ~new.legacy_bearer_token
      /\ ToSet(new.client_credentials) = Ids(table)
      /\ SameButCredentials(Parsed(new), Parsed(conf))
  BY <1>1, EnsuredFits
<1> HIDE DEF new
<1>3. /\ HostDocument(new) \in HostDocuments(Origins)
      /\ ParseHost(HostDocument(new)) = Parsed(new)
  BY <1>2, WrittenHostIsRead
<1>4. HostFile # ClientProfiles /\ HostFile # AccountsFile
  BY FilesAre
<1>5. /\ HostDocument(new) \in Documents(HostFile)
      /\ Parse(HostFile, HostDocument(new)) = Parsed(new)
  BY <1>3, <1>4 DEF Documents, Parse
<1>6. content \in Content(HostFile) /\ Meaning(HostFile, content) = Parsed(new)
  BY <1>5, DocumentContent
<1>7. HostServes(Listening(new, table), table)
  BY <1>2 DEF HostServes, Listening
<1> QED
  BY <1>2, <1>6, <1>7 DEF new

(* Of the files only mcp-host.json may change, and only in credentials.    *)
OnlyCredentialsChange ==
  /\ \A file \in Files \ {HostFile} : files'[file] = files[file]
  /\ files'[HostFile] # files[HostFile] =>
       SameButCredentials(Meaning(HostFile, files'[HostFile]), Meaning(HostFile, files[HostFile]))

LEMMA HostStarts ==
  ASSUME FilesTyped, NEW table, ProfilesFit(table), StartHost(table)
  PROVE  /\ FilesTyped' /\ OnlyCredentialsChange
         /\ host' = Off \/ HostServes(host', table)
<1> DEFINE loaded == Load(HostFile)
           conf == Ensured(loaded.value, Ids(table))
           written == IF conf = loaded.value THEN files[HostFile] ELSE Document(HostDocument(conf))
<1>1. CASE UNCHANGED files /\ host' = Off
  BY <1>1 DEF FilesTyped, OnlyCredentialsChange
<1>2. CASE /\ loaded.ok /\ Ensurable(loaded.value, Ids(table))
           /\ Write(HostFile, written) /\ host' \in {Off, Listening(conf, table)}
  <2>1. files[HostFile] \in Content(HostFile) /\ HostFile \in Files
    BY FilesAre DEF FilesTyped
  <2>2. loaded = Meaning(HostFile, files[HostFile])
    BY DEF Load, Meaning
  <2>3. PICK old : loaded = Parsed(old) /\ HostFits(old)
    BY <1>2, <2>1, <2>2, HostMeaning DEF Refused
  <2>4. loaded.value = old
    BY <2>3 DEF Parsed
  <2>5. Ensurable(old, Ids(table))
    BY <1>2, <2>4
  <2>6. PICK new : new = Ensured(old, Ids(table))
    OBVIOUS
  <2>7. /\ Document(HostDocument(new)) \in Content(HostFile)
        /\ Meaning(HostFile, Document(HostDocument(new))) = Parsed(new)
        /\ HostServes(Listening(new, table), table)
        /\ SameButCredentials(Parsed(new), Parsed(old))
    BY <2>3, <2>5, <2>6, HostEnsured
  <2>8. conf = new
    BY <2>4, <2>6
  <2> HIDE DEF conf, loaded
  <2>9. CASE new = old
    <3>1. Write(HostFile, files[HostFile])
      BY <1>2, <2>4, <2>8, <2>9
    <3>2. FilesTyped' /\ OnlyCredentialsChange
      BY <2>1, <3>1, WrittenFilesTyped DEF OnlyCredentialsChange
    <3> QED
      BY <1>2, <2>7, <2>8, <3>2
  <2>10. CASE new # old
    <3>1. Write(HostFile, Document(HostDocument(new)))
      BY <1>2, <2>4, <2>8, <2>10
    <3>2. FilesTyped' /\ OnlyCredentialsChange
      BY <2>1, <2>2, <2>3, <2>7, <3>1, WrittenFilesTyped DEF OnlyCredentialsChange
    <3> QED
      BY <1>2, <2>7, <2>8, <3>2
  <2> QED
    BY <2>9, <2>10
<1> QED
  BY <1>1, <1>2 DEF StartHost, Ids

-----------------------------------------------------------------------------
(* The inductive invariant of the composition root.  While a launch stages *)
(* the files nothing is in memory; what is in memory was let through by a  *)
(* parser; the host serves the profiles that are in memory; and unless the *)
(* operator edited accounts.json since, it says what is in memory, less    *)
(* hashes and keys that could not be saved.                                *)
UiTyped == ui \in [pc : {"down", "idle", "look", "copy", "copying", "load"}, file : 1..3]

NothingInMemory == profiles = Refused /\ account_configurations = Refused /\ host = Off

ProfilesProper ==
  \/ profiles = Refused
  \/ /\ profiles = Parsed(profiles.value)
     /\ ProfilesFit(profiles.value)

AccountsProper ==
  \/ account_configurations = Refused
  \/ /\ account_configurations = Parsed(account_configurations.value)
     /\ AccountsFit(account_configurations.value)

HostProper ==
  \/ host = Off
  \/ profiles.ok /\ HostServes(host, profiles.value)

AccountsRemembered ==
  account_configurations.ok /\ ~accounts_edited =>
    SameButSecrets(account_configurations, Meaning(AccountsFile, files[AccountsFile]))

DesktopInv ==
  /\ FilesTyped /\ UiTyped /\ edits \in Nat
  /\ ui.pc # "idle" => NothingInMemory
  /\ ProfilesProper /\ AccountsProper /\ HostProper
  /\ AccountsRemembered

(* What UserConfigurationKept asks of one step.                            *)
FilesKept == \A file \in Files : edits' = edits /\ files'[file] # files[file] => Kept(file)

LEMMA LoadIsMeaning ==
  /\ \A file : Load(file) = Meaning(file, files[file])
  /\ \A file : Load(file)' = Meaning(file, files'[file])
  BY DEF Load, Meaning

LEMMA CredentialsKept ==
  ASSUME OnlyCredentialsChange
  PROVE  FilesKept
<1> SUFFICES ASSUME NEW file \in Files, files'[file] # files[file] PROVE Kept(file)
  BY DEF FilesKept
<1>1. /\ file = HostFile
      /\ SameButCredentials(Meaning(HostFile, files'[HostFile]), Meaning(HostFile, files[HostFile]))
  BY DEF OnlyCredentialsChange
<1>2. /\ Load(HostFile) = Meaning(HostFile, files[HostFile])
      /\ Load(HostFile)' = Meaning(HostFile, files'[HostFile])
  BY LoadIsMeaning
<1>3. SameButCredentials(Load(HostFile)', Load(HostFile))
  BY <1>1, <1>2
<1> QED
  BY <1>1, <1>3 DEF Kept

LEMMA DesktopInit == Init => DesktopInv
<1> SUFFICES ASSUME Init PROVE DesktopInv
  OBVIOUS
<1>1. FilesTyped
  BY DEF Init, FilesTyped, Content
<1>2. UiTyped
  BY DEF Init, UiTyped, Down, At
<1>3. edits \in Nat /\ NothingInMemory /\ ProfilesProper /\ AccountsProper /\ HostProper
  BY DEF Init, NothingInMemory, ProfilesProper, AccountsProper, HostProper
<1>4. AccountsRemembered
  BY DEF Init, AccountsRemembered, Refused
<1> QED
  BY <1>1, <1>2, <1>3, <1>4 DEF DesktopInv

(* Staging and quitting: nothing is in memory afterwards.                  *)
LEMMA EmptyMemoryStep ==
  ASSUME DesktopInv, FilesTyped', UiTyped', edits' \in Nat, NothingInMemory'
  PROVE  DesktopInv'
<1>1. ProfilesProper' /\ AccountsProper' /\ HostProper'
  BY DEF NothingInMemory, ProfilesProper, AccountsProper, HostProper
<1>2. AccountsRemembered'
  BY DEF NothingInMemory, AccountsRemembered, Refused
<1> QED
  BY <1>1, <1>2 DEF DesktopInv

LEMMA SameFiles ==
  ASSUME UNCHANGED files, FilesTyped
  PROVE  FilesTyped' /\ FilesKept
  BY DEF FilesTyped, FilesKept

LEMMA NextFileTyped ==
  ASSUME UiTyped, NextFile
  PROVE  UiTyped' /\ ui'.pc # "idle"
<1>1. ui.file \in 1..3
  BY DEF UiTyped
<1>2. CASE ui' = At("load", 1)
  BY <1>2 DEF UiTyped, At
<1>3. CASE ui.file # 3 /\ ui' = At("look", ui.file + 1)
  <2>1. ui.file + 1 \in 1..3
    BY <1>1, <1>3
  <2> QED
    BY <1>3, <2>1 DEF UiTyped, At
<1> QED
  BY <1>2, <1>3, FilesAre DEF NextFile

LEMMA StagingSteps ==
  ASSUME DesktopInv, Launch \/ LookForFile \/ CopyBegins \/ CopyEnds \/ EnsureFails \/ Quit
  PROVE  DesktopInv' /\ FilesKept
<1> USE DEF DesktopInv
<1>0. ui.file \in 1..3 /\ Staged[ui.file] \in Files
  BY FilesAre DEF UiTyped
<1>1. CASE Launch
  <2>1. UiTyped' /\ NothingInMemory'
    BY <1>1 DEF Launch, UiTyped, At, Down, NothingInMemory, memoryVars
  <2>2. FilesTyped' /\ FilesKept /\ edits' \in Nat
    BY <1>1, SameFiles DEF Launch
  <2> QED
    BY <2>1, <2>2, EmptyMemoryStep
<1>2. CASE LookForFile
  <2>1. UiTyped'
    <3>1. CASE ui' = At("copy", ui.file)
      BY <1>0, <3>1 DEF UiTyped, At
    <3>2. CASE NextFile
      BY <3>2, NextFileTyped
    <3> QED
      BY <1>2, <3>1, <3>2 DEF LookForFile
  <2>2. FilesTyped' /\ FilesKept /\ edits' \in Nat /\ NothingInMemory'
    BY <1>2, SameFiles DEF LookForFile, Staging, NothingInMemory, memoryVars
  <2> QED
    BY <2>1, <2>2, EmptyMemoryStep
<1>3. CASE CopyBegins
  <2>1. UiTyped'
    BY <1>0, <1>3 DEF CopyBegins, UiTyped, At
  <2>2. edits' \in Nat /\ NothingInMemory'
    BY <1>3 DEF CopyBegins, Staging, NothingInMemory, memoryVars
  <2>3. FilesTyped' /\ \A other \in Files \ {Staged[ui.file]} : files'[other] = files[other]
    BY <1>0, <1>3, WrittenFilesTyped DEF CopyBegins, Content
  <2>4. FilesKept
    BY <1>3, <2>3 DEF CopyBegins, FilesKept, Kept
  <2> QED
    BY <2>1, <2>2, <2>3, <2>4, EmptyMemoryStep
<1>4. CASE CopyEnds
  <2>1. UiTyped'
    BY <1>4, NextFileTyped DEF CopyEnds
  <2>2. edits' \in Nat /\ NothingInMemory'
    BY <1>4 DEF CopyEnds, Staging, NothingInMemory, memoryVars
  <2>3. Document(Templates[Staged[ui.file]]) \in Content(Staged[ui.file])
    BY <1>0, DocumentsAssumption, DocumentContent
  <2>4. FilesTyped' /\ \A other \in Files \ {Staged[ui.file]} : files'[other] = files[other]
    BY <1>0, <1>4, <2>3, WrittenFilesTyped DEF CopyEnds
  <2>5. FilesKept
    BY <1>4, <2>4 DEF CopyEnds, FilesKept, Kept
  <2> QED
    BY <2>1, <2>2, <2>4, <2>5, EmptyMemoryStep
<1>5. CASE EnsureFails
  <2>1. UiTyped'
    BY <1>5 DEF EnsureFails, UiTyped, Idle, At
  <2>2. FilesTyped' /\ FilesKept /\ edits' \in Nat /\ NothingInMemory'
    BY <1>5, SameFiles DEF EnsureFails, Staging, NothingInMemory, memoryVars
  <2> QED
    BY <2>1, <2>2, EmptyMemoryStep
<1>6. CASE Quit
  <2>1. UiTyped'
    BY <1>6 DEF Quit, UiTyped, Down, At
  <2>2. FilesTyped' /\ FilesKept /\ edits' \in Nat /\ NothingInMemory'
    BY <1>6, SameFiles DEF Quit, NothingInMemory
  <2> QED
    BY <2>1, <2>2, EmptyMemoryStep
<1> QED
  BY <1>1, <1>2, <1>3, <1>4, <1>5, <1>6

LEMMA LoadStep ==
  ASSUME DesktopInv, LoadConfiguration
  PROVE  DesktopInv' /\ FilesKept
<1>0. /\ FilesTyped /\ edits \in Nat /\ host = Off
      /\ ClientProfiles \in Files /\ AccountsFile \in Files \ {HostFile}
  BY FilesAre DEF DesktopInv, LoadConfiguration, NothingInMemory
<1>1. /\ files[ClientProfiles] \in Content(ClientProfiles)
      /\ files[AccountsFile] \in Content(AccountsFile)
  BY <1>0 DEF FilesTyped
<1>2. /\ profiles' = Meaning(ClientProfiles, files[ClientProfiles])
      /\ account_configurations' = Meaning(AccountsFile, files[AccountsFile])
  BY LoadIsMeaning DEF LoadConfiguration
<1>3. \/ profiles' = Refused
      \/ \E table : profiles' = Parsed(table) /\ ProfilesFit(table)
  BY <1>1, <1>2, ProfilesMeaning
<1>4. \/ account_configurations' = Refused
      \/ \E rows : account_configurations' = Parsed(rows) /\ AccountsFit(rows)
  BY <1>1, <1>2, AccountsMeaning
<1>5. ProfilesProper'
  BY <1>3 DEF ProfilesProper, Parsed
<1>6. AccountsProper'
  BY <1>4 DEF AccountsProper, Parsed
<1>7. /\ FilesTyped' /\ OnlyCredentialsChange /\ HostProper'
  <2>1. CASE profiles' = Refused
    <3>1. UNCHANGED <<files, host>>
      BY <2>1 DEF LoadConfiguration, Refused
    <3> QED
      BY <1>0, <3>1 DEF FilesTyped, OnlyCredentialsChange, HostProper
  <2>2. ASSUME NEW table, profiles' = Parsed(table), ProfilesFit(table)
        PROVE  FilesTyped' /\ OnlyCredentialsChange /\ HostProper'
    <3>1. profiles'.ok /\ profiles'.value = table
      BY <2>2 DEF Parsed
    <3>2. StartHost(table)
      BY <3>1 DEF LoadConfiguration
    <3>3. /\ FilesTyped' /\ OnlyCredentialsChange
          /\ host' = Off \/ HostServes(host', table)
      BY <1>0, <2>2, <3>2, HostStarts
    <3> QED
      BY <3>1, <3>3 DEF HostProper
  <2> QED
    BY <1>3, <2>1, <2>2
<1>8. UiTyped' /\ ui'.pc = "idle" /\ edits' \in Nat
  BY <1>0 DEF LoadConfiguration, UiTyped, Idle, At
<1>9. AccountsRemembered'
  <2> SUFFICES ASSUME account_configurations'.ok
               PROVE  SameButSecrets(account_configurations', Meaning(AccountsFile, files'[AccountsFile]))
    BY DEF AccountsRemembered
  <2>1. PICK rows : account_configurations' = Parsed(rows) /\ AccountsFit(rows)
    BY <1>4 DEF Refused
  <2>2. Meaning(AccountsFile, files'[AccountsFile]) = Parsed(rows)
    BY <1>0, <1>2, <1>7, <2>1 DEF OnlyCredentialsChange
  <2>3. \A k \in DOMAIN rows : rows[k] \in AccountConfigurations
    BY <2>1 DEF AccountsFit
  <2> QED
    BY <2>1, <2>2, <2>3, SecretsReflexive
<1>10. FilesKept
  BY <1>7, CredentialsKept
<1> QED
  BY <1>5, <1>6, <1>7, <1>8, <1>9, <1>10 DEF DesktopInv

LEMMA RegenerateStep ==
  ASSUME DesktopInv, NEW c \in Clients, RegenerateToken(c)
  PROVE  DesktopInv' /\ FilesKept
<1>0. /\ FilesTyped /\ ProfilesProper /\ HostProper /\ ui.pc = "idle"
      /\ HostFile \in Files /\ AccountsFile \in Files \ {HostFile}
  BY FilesAre DEF DesktopInv, RegenerateToken, Idle, At
<1>1. PICK table : profiles = Parsed(table) /\ ProfilesFit(table) /\ ProfileIds = Ids(table)
  <2>1. profiles # Refused
    BY DEF RegenerateToken, ProfileIds, Refused
  <2> QED
    BY <1>0, <2>1 DEF ProfilesProper, ProfileIds, Parsed, Ids
<1>2. profiles.ok /\ profiles.value = table
  BY <1>1 DEF Parsed
<1>3. files[HostFile] \in Content(HostFile)
  BY <1>0 DEF FilesTyped
<1>4. PICK old : Load(HostFile) = Parsed(old) /\ HostFits(old)
  BY <1>3, LoadIsMeaning, HostMeaning DEF RegenerateToken, Refused
<1>5. Load(HostFile).value = old
  BY <1>4 DEF Parsed
<1>6. Ensurable(old, Ids(table))
  BY <1>1, <1>5 DEF RegenerateToken
<1>7. PICK new : new = Ensured(old, Ids(table))
  OBVIOUS
<1>8. /\ Document(HostDocument(new)) \in Content(HostFile)
      /\ Meaning(HostFile, Document(HostDocument(new))) = Parsed(new)
      /\ HostServes(Listening(new, table), table)
      /\ SameButCredentials(Parsed(new), Parsed(old))
  BY <1>1, <1>4, <1>6, <1>7, HostEnsured
<1>9. /\ Write(HostFile, Document(HostDocument(new)))
      /\ host' \in {host, Off, Listening(new, table)}
  BY <1>1, <1>2, <1>5, <1>7 DEF RegenerateToken
<1>10. /\ FilesTyped' /\ files'[HostFile] = Document(HostDocument(new))
       /\ \A other \in Files \ {HostFile} : files'[other] = files[other]
  BY <1>0, <1>8, <1>9, WrittenFilesTyped
<1>11. OnlyCredentialsChange
  BY <1>4, <1>8, <1>10, LoadIsMeaning DEF OnlyCredentialsChange
<1>12. UNCHANGED <<ui, profiles, account_configurations, edits, accounts_edited>>
  BY DEF RegenerateToken
<1>13. HostProper'
  BY <1>0, <1>2, <1>8, <1>9, <1>12 DEF HostProper
<1>14. AccountsRemembered'
  BY <1>0, <1>10, <1>12 DEF DesktopInv, AccountsRemembered
<1>15. ProfilesProper' /\ AccountsProper' /\ UiTyped' /\ edits' \in Nat /\ ui'.pc = "idle"
  BY <1>0, <1>12 DEF DesktopInv, ProfilesProper, AccountsProper, UiTyped
<1> QED
  BY <1>10, <1>11, <1>13, <1>14, <1>15, CredentialsKept DEF DesktopInv

LEMMA AuthorizationStep ==
  ASSUME DesktopInv, NEW k, NEW typed \in BOOLEAN, NEW ensured \in BOOLEAN,
         StartAuthorization(k, typed, ensured)
  PROVE  DesktopInv' /\ FilesKept
<1>0. /\ FilesTyped /\ AccountsProper /\ ui.pc = "idle"
      /\ AccountsFile \in Files
  BY FilesAre DEF DesktopInv, StartAuthorization, Idle, At
<1>1. PICK rows : account_configurations = Parsed(rows) /\ AccountsFit(rows)
  BY <1>0 DEF AccountsProper, StartAuthorization, Refused
<1>2. account_configurations.ok /\ account_configurations.value = rows /\ k \in DOMAIN rows
  BY <1>1 DEF Parsed, StartAuthorization
<1>3. PICK new : new = WithSecrets(rows, k, ensured)
  OBVIOUS
<1>4. AccountsFit(new) /\ SameButSecrets(Parsed(new), Parsed(rows))
  BY <1>1, <1>2, <1>3, SecretsAdded
<1>5. account_configurations' = Parsed(new)
  BY <1>2, <1>3 DEF StartAuthorization, WithSecrets
<1>6. account_configurations'.ok /\ account_configurations'.value = new
  BY <1>5 DEF Parsed
<1>7. AccountsProper'
  BY <1>4, <1>5, <1>6 DEF AccountsProper
<1>8. UNCHANGED <<ui, profiles, host, edits, accounts_edited>>
  BY DEF StartAuthorization
<1>9. ProfilesProper' /\ HostProper' /\ UiTyped' /\ edits' \in Nat /\ ui'.pc = "idle"
  BY <1>0, <1>8 DEF DesktopInv, ProfilesProper, HostProper, UiTyped
<1>10. ASSUME ~accounts_edited
       PROVE  SameButSecrets(Parsed(new), Meaning(AccountsFile, files[AccountsFile]))
  <2>1. SameButSecrets(Parsed(rows), Meaning(AccountsFile, files[AccountsFile]))
    BY <1>1, <1>2, <1>10 DEF DesktopInv, AccountsRemembered
  <2>2. files[AccountsFile] \in Content(AccountsFile)
    BY <1>0 DEF FilesTyped
  <2>3. PICK written : /\ Meaning(AccountsFile, files[AccountsFile]) = Parsed(written)
                       /\ AccountsFit(written)
    <3>1. Meaning(AccountsFile, files[AccountsFile]).ok
      BY <2>1 DEF SameButSecrets
    <3> QED
      BY <2>2, <3>1, AccountsMeaning DEF Refused
  <2>4. /\ \A j \in DOMAIN written : written[j] \in AccountConfigurations
        /\ \A j \in DOMAIN rows : rows[j] \in AccountConfigurations
        /\ \A j \in DOMAIN new : new[j] \in AccountConfigurations
    BY <1>1, <1>4, <2>3 DEF AccountsFit
  <2> QED
    BY <1>4, <2>1, <2>3, <2>4, SecretsTransitive
<1>11. CASE UNCHANGED files
  <2>1. AccountsRemembered'
    BY <1>5, <1>8, <1>10, <1>11 DEF AccountsRemembered
  <2> QED
    BY <1>0, <1>7, <1>9, <1>11, <2>1, SameFiles DEF DesktopInv
<1>12. CASE Write(AccountsFile, Document(AccountsDocument(account_configurations'.value)))
  <2>1. /\ AccountsDocument(new) \in AccountsDocuments
        /\ ParseAccounts(AccountsDocument(new)) = Parsed(new)
    BY <1>4, WrittenAccountsAreRead
  <2>2. Documents(AccountsFile) = AccountsDocuments
        /\ Parse(AccountsFile, AccountsDocument(new)) = Parsed(new)
    <3>1. AccountsFile # ClientProfiles /\ AccountsFile # HostFile
      BY FilesAre
    <3> QED
      BY <2>1, <3>1 DEF Documents, Parse
  <2>3. /\ Document(AccountsDocument(new)) \in Content(AccountsFile)
        /\ Meaning(AccountsFile, Document(AccountsDocument(new))) = Parsed(new)
    BY <2>1, <2>2, DocumentContent
  <2>4. /\ FilesTyped' /\ files'[AccountsFile] = Document(AccountsDocument(new))
        /\ \A other \in Files \ {AccountsFile} : files'[other] = files[other]
    BY <1>0, <1>6, <1>12, <2>3, WrittenFilesTyped
  <2>5. AccountsRemembered'
    <3>1. \A j \in DOMAIN new : new[j] \in AccountConfigurations
      BY <1>4 DEF AccountsFit
    <3>2. SameButSecrets(Parsed(new), Parsed(new))
      BY <3>1, SecretsReflexive
    <3> QED
      BY <1>5, <2>3, <2>4, <3>2 DEF AccountsRemembered
  <2>6. FilesKept
    <3> SUFFICES ASSUME ~accounts_edited
                 PROVE  SameButSecrets(Load(AccountsFile)', Load(AccountsFile))
      BY <1>2, <2>4 DEF FilesKept, Kept
    <3>1. Load(AccountsFile)' = Parsed(new)
      BY <2>3, <2>4, LoadIsMeaning
    <3> QED
      BY <1>10, <3>1, LoadIsMeaning
  <2> QED
    BY <1>7, <1>9, <2>4, <2>5, <2>6 DEF DesktopInv
<1> QED
  BY <1>11, <1>12 DEF StartAuthorization

LEMMA EditStep ==
  ASSUME DesktopInv, NEW file \in Files, NEW document \in EditedDocuments[file],
         OperatorEdits(file, document)
  PROVE  DesktopInv' /\ FilesKept
<1>1. document \in Documents(file)
  BY DocumentsAssumption
<1>2. Document(document) \in Content(file)
  BY <1>1, DocumentContent
<1>3. FilesTyped' /\ \A other \in Files \ {file} : files'[other] = files[other]
  BY <1>2, WrittenFilesTyped DEF DesktopInv, OperatorEdits
<1>4. /\ UNCHANGED <<ui, profiles, account_configurations, host>>
      /\ edits' = edits + 1 /\ accounts_edited' = (accounts_edited \/ file = AccountsFile)
  BY DEF OperatorEdits, memoryVars
<1>5. edits' \in Nat /\ edits' # edits
  BY <1>4 DEF DesktopInv
<1>6. FilesKept
  BY <1>5 DEF FilesKept
<1>7. AccountsRemembered'
  BY <1>3, <1>4, FilesAre DEF DesktopInv, AccountsRemembered
<1>8. /\ ProfilesProper' /\ AccountsProper' /\ HostProper' /\ UiTyped'
      /\ ui'.pc # "idle" => NothingInMemory'
  BY <1>4 DEF DesktopInv, ProfilesProper, AccountsProper, HostProper, UiTyped, NothingInMemory
<1> QED
  BY <1>3, <1>5, <1>6, <1>7, <1>8 DEF DesktopInv

LEMMA SameMemoryStep ==
  ASSUME DesktopInv, UNCHANGED <<files, ui, memoryVars, edits, accounts_edited>>
  PROVE  DesktopInv' /\ FilesKept
<1> USE DEF memoryVars
<1>1. FilesTyped' /\ FilesKept
  BY SameFiles DEF DesktopInv
<1>2. /\ ProfilesProper' /\ AccountsProper' /\ HostProper' /\ UiTyped' /\ edits' \in Nat
      /\ ui'.pc # "idle" => NothingInMemory'
  BY DEF DesktopInv, ProfilesProper, AccountsProper, HostProper, UiTyped, NothingInMemory
<1>3. AccountsRemembered'
  BY DEF DesktopInv, AccountsRemembered
<1> QED
  BY <1>1, <1>2, <1>3 DEF DesktopInv

LEMMA DesktopStep ==
  ASSUME DesktopInv, [Next]_vars
  PROVE  DesktopInv' /\ FilesKept
<1>1. CASE UNCHANGED vars
  BY <1>1, SameMemoryStep DEF vars
<1>2. ASSUME NEW q \in Requests, Exchange(q) PROVE DesktopInv' /\ FilesKept
  BY <1>2, SameMemoryStep DEF Exchange
<1>3. CASE ProgramStep
  BY <1>3, StagingSteps, LoadStep, RegenerateStep, AuthorizationStep DEF ProgramStep
<1> QED
  BY <1>1, <1>2, <1>3, EditStep DEF Next

(* DesktopInv is an invariant of the composition root, wherever the        *)
(* operator edits a file and wherever the process dies                     *)
(* (DesktopUiState::Impl, start_authorization, RuntimeLayoutBootstrap).    *)
THEOREM DesktopInvariant == Spec => []DesktopInv
  BY DesktopInit, DesktopStep, PTL DEF Spec

(* UserConfigurationKept, for all templates, edits and failures: the       *)
(* program replaces a file of the operator only by one that means the same *)
(* but for credentials, hashes and keys.                                   *)
THEOREM UserConfigurationKeptHolds == Spec => UserConfigurationKept
<1>1. DesktopInv /\ [Next]_vars =>
        [\A file \in Files : edits' = edits /\ files'[file] # files[file] => Kept(file)]_vars
  BY DesktopStep DEF FilesKept
<1> QED
  BY <1>1, DesktopInvariant, PTL DEF Spec, UserConfigurationKept

(* AcceptedIsSafe, for all documents: what a parser lets through keeps the *)
(* host on loopback and within its limits and the accounts in data.        *)
THEOREM AcceptedIsSafeHolds == Spec => []AcceptedIsSafe
<1>1. DesktopInv => AcceptedIsSafe
  <2> SUFFICES ASSUME DesktopInv PROVE AcceptedIsSafe
    OBVIOUS
  <2>1. ASSUME host.listening
        PROVE  /\ host.configuration.bind_address \in {"127.0.0.1", "::1"}
               /\ 0 < host.configuration.port /\ host.configuration.port < 65536
               /\ host.configuration.max_request_body_bytes \in 1..MaximumBodyBytes
               /\ host.configuration.maximum_connections \in 1..128
               /\ ToSet(host.configuration.client_credentials) = {profile.id : profile \in host.clients}
               /\ \A p, r \in host.clients : p.id = r.id => p = r
    <3> DEFINE conf == host.configuration
    <3>1. profiles.ok /\ HostServes(host, profiles.value)
      BY <2>1 DEF DesktopInv, HostProper, Off
    <3>2. host.clients = profiles.value
      BY <3>1 DEF HostServes, Listening
    <3>3. ProfilesFit(host.clients)
      BY <3>1, <3>2 DEF DesktopInv, ProfilesProper, Refused
    <3>4. /\ HostFits(conf)
          /\ ToSet(conf.client_credentials) = {profile.id : profile \in host.clients}
      BY <3>1, <3>2 DEF HostServes, Ids
    <3> HIDE DEF conf
    <3>5. conf.port \in Int /\ conf.max_request_body_bytes \in Int /\ conf.maximum_connections \in Int
      BY <3>4 DEF HostFits, HostConfigurations
    <3>6. /\ 1 <= conf.port /\ conf.port < 65536
          /\ 1 <= conf.max_request_body_bytes /\ conf.max_request_body_bytes <= MaximumBodyBytes
          /\ 1 <= conf.maximum_connections /\ conf.maximum_connections <= 128
          /\ conf.bind_address \in {"127.0.0.1", "::1"}
      BY <3>4 DEF HostFits
    <3>7. 0 < conf.port
      BY <3>5, <3>6
    <3>8. conf.max_request_body_bytes \in 1..MaximumBodyBytes
      BY <3>5, <3>6, BodyBytesType
    <3>9. conf.maximum_connections \in 1..128
      BY <3>5, <3>6
    <3>10. \A p, r \in host.clients : p.id = r.id => p = r
      BY <3>3 DEF ProfilesFit
    <3> QED
      BY <3>4, <3>6, <3>7, <3>8, <3>9, <3>10 DEF conf
  <2>2. ASSUME account_configurations.ok
        PROVE  \A path \in ToSet(Directories(account_configurations.value)) :
                 ~path.absolute /\ Normal(path) # <<>> /\ Head(Normal(path)) = "data"
    <3>1. AccountsFit(account_configurations.value)
      BY <2>2 DEF DesktopInv, AccountsProper, Refused
    <3> QED
      BY <3>1 DEF AccountsFit, IsSafeTdlibDataPath
  <2> QED
    BY <2>1, <2>2 DEF AcceptedIsSafe
<1> QED
  BY <1>1, DesktopInvariant, PTL

-----------------------------------------------------------------------------
(* The answer to a request is that of the first check that fails.          *)
Check == BOOLEAN \X Int \X Int

Passed(checks) == \A k \in DOMAIN checks : checks[k][1]

PostChecks(q, h) ==
  EnvelopeChecks(q, h) \o BodyChecks(q) \o (IF q.method = "tools/call" THEN CallChecks(q, h) ELSE <<>>)

LEMMA MinOfNaturals ==
  ASSUME NEW S \in SUBSET Nat, S # {}
  PROVE  Min(S) \in S /\ \A k \in S : Min(S) <= k
<1> DEFINE R == OpToRel(<, Nat)
<1>1. IsWellFoundedOn(R, Nat)
  BY NatLessThanWellFounded
<1>2. \A j, k \in Nat : j < k => <<j, k>> \in R
  BY DEF OpToRel
<1> HIDE DEF R
<1>3. PICK m \in S : \A k \in S : <<k, m>> \notin R
  BY <1>1, WFMin
<1>4. \A k \in S : m <= k
  <2> TAKE k \in S
  <2>1. k \in Nat /\ m \in Nat
    OBVIOUS
  <2>2. ~(k < m)
    BY <1>2, <1>3, <2>1
  <2> QED
    BY <2>1, <2>2
<1> QED
  BY <1>3, <1>4 DEF Min

LEMMA CheckType ==
  ASSUME NEW passed \in BOOLEAN, NEW status \in Int, NEW code \in Int
  PROVE  <<passed, status, code>> \in Check
  BY DEF Check

LEMMA ShortSequences ==
  ASSUME NEW T, NEW a \in T, NEW b \in T, NEW c \in T, NEW d \in T, NEW e \in T
  PROVE  <<a, b>> \in Seq(T) /\ <<a, b, c, d, e>> \in Seq(T)
  OBVIOUS

LEMMA TenInSequence ==
  ASSUME NEW T, NEW a \in T, NEW b \in T, NEW c \in T, NEW d \in T, NEW e \in T,
         NEW f \in T, NEW g \in T, NEW h \in T, NEW i \in T, NEW j \in T
  PROVE  <<a, b, c, d, e, f, g, h, i, j>> \in Seq(T)
  OBVIOUS

LEMMA EnvelopeFacts ==
  ASSUME NEW q, NEW h
  PROVE  LET checks == EnvelopeChecks(q, h)
         IN /\ checks \in Seq(Check) /\ Len(checks) = 5
            /\ checks[1] = <<q.verb = "POST", 405, 0>>
            /\ checks[2] = <<q.origin \in h.allowed_origins \cup {NoOrigin}, 403, 0>>
            /\ checks[3] = <<AuthenticatedClient(q, h) # {}, 401, 0>>
            /\ \A k \in DOMAIN checks : k # 2 => checks[k][2] # 403
            /\ Passed(checks) <=>
                 /\ q.verb = "POST" /\ q.origin \in h.allowed_origins \cup {NoOrigin}
                 /\ AuthenticatedClient(q, h) # {}
                 /\ q.content_type = "application/json"
                 /\ \A type \in {"application/json", "text/event-stream"} : Accepts(q.accept, type)
<1> DEFINE b1 == q.verb = "POST"
           b2 == q.origin \in h.allowed_origins \cup {NoOrigin}
           b3 == AuthenticatedClient(q, h) # {}
           b4 == q.content_type = "application/json"
           b5 == \A type \in {"application/json", "text/event-stream"} : Accepts(q.accept, type)
           checks == EnvelopeChecks(q, h)
<1>1. checks = << <<b1, 405, 0>>, <<b2, 403, 0>>, <<b3, 401, 0>>, <<b4, 415, 0>>, <<b5, 406, 0>> >>
  BY DEF EnvelopeChecks
<1>2. /\ b1 \in BOOLEAN /\ b2 \in BOOLEAN /\ b3 \in BOOLEAN
      /\ b4 \in BOOLEAN /\ b5 \in BOOLEAN
  OBVIOUS
<1> HIDE DEF b1, b2, b3, b4, b5, checks
<1>3. /\ <<b1, 405, 0>> \in Check /\ <<b2, 403, 0>> \in Check /\ <<b3, 401, 0>> \in Check
      /\ <<b4, 415, 0>> \in Check /\ <<b5, 406, 0>> \in Check
  BY <1>2, CheckType
<1>4. checks \in Seq(Check)
  BY <1>1, <1>3, ShortSequences
<1>5. Len(checks) = 5 /\ DOMAIN checks = {1, 2, 3, 4, 5}
  <2>1. 1..5 = {1, 2, 3, 4, 5}
    OBVIOUS
  <2> QED
    BY <1>1, <2>1
<1>6. /\ checks[1] = <<b1, 405, 0>> /\ checks[2] = <<b2, 403, 0>> /\ checks[3] = <<b3, 401, 0>>
      /\ checks[4] = <<b4, 415, 0>> /\ checks[5] = <<b5, 406, 0>>
  BY <1>1
<1>7. Passed(checks) <=> b1 /\ b2 /\ b3 /\ b4 /\ b5
  BY <1>2, <1>5, <1>6 DEF Passed
<1>8. \A k \in DOMAIN checks : k # 2 => checks[k][2] # 403
  BY <1>5, <1>6
<1> QED
  BY <1>4, <1>5, <1>6, <1>7, <1>8 DEF b1, b2, b3, b4, b5, checks

LEMMA BodyFacts ==
  ASSUME NEW q, q.client_metadata \in BOOLEAN
  PROVE  LET checks == BodyChecks(q)
         IN /\ checks \in Seq(Check)
            /\ \A k \in DOMAIN checks : checks[k][2] # 403
            /\ Passed(checks) <=>
                 /\ q.body # "not_json" /\ q.body = "rpc"
                 /\ q.version_header # Nothing /\ q.version_header = ProtocolVersion
                 /\ q.meta_version # "not_a_string" /\ q.meta_version = q.version_header
                 /\ q.client_metadata /\ q.method_header = q.method
                 /\ q.method = "tools/call" => q.name_header # Nothing /\ q.name_header = q.name
                 /\ q.method \in Methods
<1> DEFINE b1 == q.body # "not_json"
           b2 == q.body = "rpc"
           b3 == q.version_header # Nothing
           b4 == q.version_header = ProtocolVersion
           b5 == q.meta_version # "not_a_string"
           b6 == q.meta_version = q.version_header
           b7 == q.client_metadata
           b8 == q.method_header = q.method
           b9 == q.method = "tools/call" => q.name_header # Nothing /\ q.name_header = q.name
           b10 == q.method \in Methods
           checks == BodyChecks(q)
<1>1. checks = << <<b1, 400, -32700>>, <<b2, 400, -32600>>, <<b3, 400, -32020>>,
                  <<b4, 400, -32022>>, <<b5, 400, -32600>>, <<b6, 400, -32020>>,
                  <<b7, 400, -32602>>, <<b8, 400, -32020>>, <<b9, 400, -32020>>,
                  <<b10, 404, -32601>> >>
  BY DEF BodyChecks
<1>2. /\ b1 \in BOOLEAN /\ b2 \in BOOLEAN /\ b3 \in BOOLEAN /\ b4 \in BOOLEAN
      /\ b5 \in BOOLEAN /\ b6 \in BOOLEAN /\ b7 \in BOOLEAN /\ b8 \in BOOLEAN
      /\ b9 \in BOOLEAN /\ b10 \in BOOLEAN
  OBVIOUS
<1> HIDE DEF b1, b2, b3, b4, b5, b6, b7, b8, b9, b10, checks
<1>3. /\ <<b1, 400, -32700>> \in Check /\ <<b2, 400, -32600>> \in Check
      /\ <<b3, 400, -32020>> \in Check /\ <<b4, 400, -32022>> \in Check
      /\ <<b5, 400, -32600>> \in Check /\ <<b6, 400, -32020>> \in Check
      /\ <<b7, 400, -32602>> \in Check /\ <<b8, 400, -32020>> \in Check
      /\ <<b9, 400, -32020>> \in Check /\ <<b10, 404, -32601>> \in Check
  BY <1>2, CheckType
<1>4. checks \in Seq(Check)
  BY <1>1, <1>3, TenInSequence
<1>5. DOMAIN checks = {1, 2, 3, 4, 5, 6, 7, 8, 9, 10}
  <2>1. 1..10 = {1, 2, 3, 4, 5, 6, 7, 8, 9, 10}
    OBVIOUS
  <2> QED
    BY <1>1, <2>1
<1>6. /\ checks[1] = <<b1, 400, -32700>> /\ checks[2] = <<b2, 400, -32600>>
      /\ checks[3] = <<b3, 400, -32020>> /\ checks[4] = <<b4, 400, -32022>>
      /\ checks[5] = <<b5, 400, -32600>> /\ checks[6] = <<b6, 400, -32020>>
      /\ checks[7] = <<b7, 400, -32602>> /\ checks[8] = <<b8, 400, -32020>>
      /\ checks[9] = <<b9, 400, -32020>> /\ checks[10] = <<b10, 404, -32601>>
  BY <1>1
<1>7. Passed(checks) <=>
        /\ b1 /\ b2 /\ b3 /\ b4 /\ b5 /\ b6 /\ b7 /\ b8 /\ b9 /\ b10
  BY <1>2, <1>5, <1>6 DEF Passed
<1>8. \A k \in DOMAIN checks : checks[k][2] # 403
  BY <1>5, <1>6
<1> QED
  BY <1>4, <1>7, <1>8 DEF b1, b2, b3, b4, b5, b6, b7, b8, b9, b10, checks

LEMMA CallFacts ==
  ASSUME NEW q, q.arguments_fit \in BOOLEAN, NEW h
  PROVE  LET checks == CallChecks(q, h)
         IN /\ checks \in Seq(Check)
            /\ \A k \in DOMAIN checks : checks[k][2] # 403
            /\ Passed(checks) <=> q.name \in AllowedTools(q, h) /\ q.arguments_fit
<1> DEFINE b1 == q.name \in AllowedTools(q, h)
           b2 == q.arguments_fit
           checks == CallChecks(q, h)
<1>1. checks = << <<b1, 200, -32602>>, <<b2, 200, -32602>> >>
  BY DEF CallChecks
<1>2. b1 \in BOOLEAN /\ b2 \in BOOLEAN
  OBVIOUS
<1> HIDE DEF b1, b2, checks
<1>3. <<b1, 200, -32602>> \in Check /\ <<b2, 200, -32602>> \in Check
  BY <1>2, CheckType
<1>4. checks \in Seq(Check)
  BY <1>1, <1>3, ShortSequences
<1>5. DOMAIN checks = {1, 2}
  <2>1. 1..2 = {1, 2}
    OBVIOUS
  <2> QED
    BY <1>1, <2>1
<1>6. checks[1] = <<b1, 200, -32602>> /\ checks[2] = <<b2, 200, -32602>>
  BY <1>1
<1>7. Passed(checks) <=> b1 /\ b2
  BY <1>2, <1>5, <1>6 DEF Passed
<1>8. \A k \in DOMAIN checks : checks[k][2] # 403
  BY <1>5, <1>6
<1> QED
  BY <1>4, <1>7, <1>8 DEF b1, b2, checks

LEMMA Concatenated ==
  ASSUME NEW s \in Seq(Check), NEW t \in Seq(Check)
  PROVE  /\ s \o t \in Seq(Check)
         /\ \A k \in DOMAIN s : k \in DOMAIN (s \o t) /\ (s \o t)[k] = s[k]
         /\ \A k \in DOMAIN (s \o t) : k \in DOMAIN s \/ \E j \in DOMAIN t : (s \o t)[k] = t[j]
         /\ Passed(s \o t) <=> Passed(s) /\ Passed(t)
<1> DEFINE u == s \o t
<1>1. /\ Len(s) \in Nat /\ Len(t) \in Nat /\ DOMAIN s = 1..Len(s) /\ DOMAIN t = 1..Len(t)
      /\ u \in Seq(Check) /\ Len(u) = Len(s) + Len(t) /\ DOMAIN u = 1..Len(s) + Len(t)
      /\ \A k \in 1..Len(s) : k \in DOMAIN u /\ u[k] = s[k]
      /\ \A k \in 1..Len(t) : k + Len(s) \in DOMAIN u /\ u[k + Len(s)] = t[k]
  OBVIOUS
<1>2. \A k \in DOMAIN u : \/ k \in DOMAIN s /\ u[k] = s[k]
                          \/ k - Len(s) \in DOMAIN t /\ u[k] = t[k - Len(s)]
  BY <1>1
<1> HIDE DEF u
<1>3. Passed(u) <=> Passed(s) /\ Passed(t)
  BY <1>1, <1>2 DEF Passed
<1> QED
  BY <1>1, <1>2, <1>3 DEF u

(* All that a POST has to pass, and what is known of the checks.           *)
Admitted(q, h) ==
  /\ q.verb = "POST" /\ q.origin \in h.allowed_origins \cup {NoOrigin}
  /\ AuthenticatedClient(q, h) # {}
  /\ q.content_type = "application/json"
  /\ \A type \in {"application/json", "text/event-stream"} : Accepts(q.accept, type)
  /\ q.body # "not_json" /\ q.body = "rpc"
  /\ q.version_header # Nothing /\ q.version_header = ProtocolVersion
  /\ q.meta_version # "not_a_string" /\ q.meta_version = q.version_header
  /\ q.client_metadata /\ q.method_header = q.method
  /\ q.method = "tools/call" => q.name_header # Nothing /\ q.name_header = q.name
  /\ q.method \in Methods
  /\ q.method = "tools/call" => q.name \in AllowedTools(q, h) /\ q.arguments_fit

(* The first three checks, which look at neither headers nor body.         *)
FirstChecks(checks, q, h) ==
  /\ {1, 2, 3} \subseteq DOMAIN checks
  /\ checks[1] = <<q.verb = "POST", 405, 0>>
  /\ checks[2] = <<q.origin \in h.allowed_origins \cup {NoOrigin}, 403, 0>>
  /\ checks[3] = <<AuthenticatedClient(q, h) # {}, 401, 0>>

OnlyOriginsAreForbidden(checks) == \A k \in DOMAIN checks : k # 2 => checks[k][2] # 403

LEMMA PostFacts ==
  ASSUME NEW q, q.client_metadata \in BOOLEAN, q.arguments_fit \in BOOLEAN, NEW h
  PROVE  /\ PostChecks(q, h) \in Seq(Check)
         /\ FirstChecks(PostChecks(q, h), q, h)
         /\ OnlyOriginsAreForbidden(PostChecks(q, h))
         /\ Passed(PostChecks(q, h)) <=> Admitted(q, h)
<1> DEFINE calls == IF q.method = "tools/call" THEN CallChecks(q, h) ELSE <<>>
<1>1. PICK e : e = EnvelopeChecks(q, h)
  OBVIOUS
<1>2. PICK b : b = BodyChecks(q)
  OBVIOUS
<1>3. PICK c : c = calls
  OBVIOUS
<1>4. /\ c \in Seq(Check)
      /\ \A k \in DOMAIN c : c[k][2] # 403
      /\ Passed(c) <=> (q.method = "tools/call" => q.name \in AllowedTools(q, h) /\ q.arguments_fit)
  <2>1. CASE q.method = "tools/call"
    BY <1>3, <2>1, CallFacts
  <2>2. CASE q.method # "tools/call"
    <3>1. c = <<>>
      BY <1>3, <2>2
    <3>2. DOMAIN c = {}
      BY <3>1
    <3> QED
      BY <2>2, <3>1, <3>2, EmptySeq DEF Passed
  <2> QED
    BY <2>1, <2>2
<1> HIDE DEF calls
<1>5. /\ e \in Seq(Check) /\ DOMAIN e = 1..5
      /\ e[1] = <<q.verb = "POST", 405, 0>>
      /\ e[2] = <<q.origin \in h.allowed_origins \cup {NoOrigin}, 403, 0>>
      /\ e[3] = <<AuthenticatedClient(q, h) # {}, 401, 0>>
      /\ \A k \in DOMAIN e : k # 2 => e[k][2] # 403
      /\ Passed(e) <=>
           /\ q.verb = "POST" /\ q.origin \in h.allowed_origins \cup {NoOrigin}
           /\ AuthenticatedClient(q, h) # {}
           /\ q.content_type = "application/json"
           /\ \A type \in {"application/json", "text/event-stream"} : Accepts(q.accept, type)
  BY <1>1, EnvelopeFacts
<1>6. /\ b \in Seq(Check)
      /\ \A k \in DOMAIN b : b[k][2] # 403
      /\ Passed(b) <=>
           /\ q.body # "not_json" /\ q.body = "rpc"
           /\ q.version_header # Nothing /\ q.version_header = ProtocolVersion
           /\ q.meta_version # "not_a_string" /\ q.meta_version = q.version_header
           /\ q.client_metadata /\ q.method_header = q.method
           /\ q.method = "tools/call" => q.name_header # Nothing /\ q.name_header = q.name
           /\ q.method \in Methods
  BY <1>2, BodyFacts
<1>7. PostChecks(q, h) = (e \o b) \o c
  BY <1>1, <1>2, <1>3 DEF PostChecks, calls
<1>8. PICK eb : eb = e \o b
  OBVIOUS
<1>9. /\ eb \in Seq(Check)
      /\ \A k \in DOMAIN e : k \in DOMAIN eb /\ eb[k] = e[k]
      /\ \A k \in DOMAIN eb : k \in DOMAIN e \/ \E j \in DOMAIN b : eb[k] = b[j]
      /\ Passed(eb) <=> Passed(e) /\ Passed(b)
  <2>1. e \in Seq(Check) /\ b \in Seq(Check)
    BY <1>5, <1>6
  <2> QED
    BY <1>8, <2>1, Concatenated
<1>10. PICK all : all = eb \o c
  OBVIOUS
<1>11. /\ all \in Seq(Check)
       /\ \A k \in DOMAIN eb : k \in DOMAIN all /\ all[k] = eb[k]
       /\ \A k \in DOMAIN all : k \in DOMAIN eb \/ \E j \in DOMAIN c : all[k] = c[j]
       /\ Passed(all) <=> Passed(eb) /\ Passed(c)
  BY <1>4, <1>9, <1>10, Concatenated
<1>12. {1, 2, 3} \subseteq DOMAIN e
  BY <1>5
<1>13. /\ {1, 2, 3} \subseteq DOMAIN all
       /\ all[1] = e[1] /\ all[2] = e[2] /\ all[3] = e[3]
  BY <1>9, <1>11, <1>12
<1>14. \A k \in DOMAIN all : k # 2 => all[k][2] # 403
  <2>1. \A k \in DOMAIN eb : k # 2 => eb[k][2] # 403
    <3>1. /\ \A k \in DOMAIN e : k # 2 => e[k][2] # 403
          /\ \A k \in DOMAIN b : b[k][2] # 403
      BY <1>5, <1>6
    <3> QED
      BY <1>9, <3>1
  <2>2. \A k \in DOMAIN c : c[k][2] # 403
    BY <1>4
  <2> QED
    BY <1>11, <2>1, <2>2
<1>15. Passed(all) <=> Admitted(q, h)
  BY <1>4, <1>5, <1>6, <1>9, <1>11 DEF Admitted
<1>16. PostChecks(q, h) = all
  BY <1>7, <1>8, <1>10
<1>17. FirstChecks(all, q, h)
  BY <1>5, <1>13 DEF FirstChecks
<1>18. OnlyOriginsAreForbidden(all)
  BY <1>14 DEF OnlyOriginsAreForbidden
<1> QED
  BY <1>11, <1>15, <1>16, <1>17, <1>18

(* A POST is served, or answered by its first failing check.               *)
LEMMA PostAnswered ==
  ASSUME NEW q, q.client_metadata \in BOOLEAN, q.arguments_fit \in BOOLEAN, NEW h
  PROVE  LET checks == PostChecks(q, h)
         IN \/ Passed(checks) /\ HandlePost(q, h) = Served(q, h)
            \/ /\ ~Passed(checks)
               /\ \E k \in DOMAIN checks :
                    /\ ~checks[k][1] /\ \A j \in DOMAIN checks : ~checks[j][1] => k <= j
                    /\ HandlePost(q, h) = Response(checks[k][2], checks[k][3])
<1>1. PICK checks : checks = PostChecks(q, h)
  OBVIOUS
<1>2. checks \in Seq(Check)
  BY <1>1, PostFacts
<1>3. PICK failed : failed = {k \in DOMAIN checks : ~checks[k][1]}
  OBVIOUS
<1>4. HandlePost(q, h) = IF failed = {} THEN Served(q, h)
                         ELSE Response(checks[Min(failed)][2], checks[Min(failed)][3])
  BY <1>1, <1>3 DEF HandlePost, PostChecks
<1>5. failed \in SUBSET Nat
  BY <1>2, <1>3
<1>6. Passed(checks) <=> failed = {}
  BY <1>3 DEF Passed
<1>7. CASE failed = {}
  BY <1>1, <1>4, <1>6, <1>7
<1>8. CASE failed # {}
  <2>1. Min(failed) \in failed /\ \A k \in failed : Min(failed) <= k
    BY <1>5, <1>8, MinOfNaturals
  <2> QED
    BY <1>1, <1>3, <1>4, <1>6, <1>8, <2>1
<1> QED
  BY <1>7, <1>8

LEMMA CheckNumbers ==
  ASSUME NEW q, q.client_metadata \in BOOLEAN, q.arguments_fit \in BOOLEAN, NEW h
  PROVE  DOMAIN PostChecks(q, h) \subseteq Nat \ {0}
<1>1. PICK checks : checks = PostChecks(q, h) /\ checks \in Seq(Check)
  BY PostFacts
<1>2. DOMAIN checks = 1..Len(checks) /\ Len(checks) \in Nat
  BY <1>1
<1> QED
  BY <1>1, <1>2

LEMMA Flags ==
  ASSUME NEW q \in HttpRequest
  PROVE  q.client_metadata \in BOOLEAN /\ q.arguments_fit \in BOOLEAN
  BY DEF HttpRequest

LEMMA StrippedFields ==
  ASSUME NEW q \in HttpRequest
  PROVE  /\ Stripped(q).path = q.path /\ Stripped(q).verb = q.verb
         /\ Stripped(q).origin = q.origin /\ Stripped(q).bearer = q.bearer
         /\ Stripped(q).client_metadata \in BOOLEAN /\ Stripped(q).arguments_fit \in BOOLEAN
  BY DEF Stripped, HttpRequest

LEMMA CallFields ==
  ASSUME NEW q \in HttpRequest, NEW tool
  PROVE  LET call == [CallOf(q, tool) EXCEPT !.arguments_fit = TRUE]
         IN /\ call.path = q.path /\ call.verb = q.verb /\ call.origin = q.origin
            /\ call.bearer = q.bearer /\ call.content_type = q.content_type
            /\ call.accept = q.accept /\ call.body = q.body
            /\ call.version_header = q.version_header /\ call.meta_version = q.meta_version
            /\ call.client_metadata = q.client_metadata
            /\ call.method = "tools/call" /\ call.method_header = "tools/call"
            /\ call.name = tool /\ call.name_header = tool /\ call.arguments_fit = TRUE
  BY DEF CallOf, HttpRequest

LEMMA PostedFields ==
  ASSUME NEW q \in HttpRequest
  PROVE  LET post == [q EXCEPT !.verb = "POST"]
         IN /\ post.path = q.path /\ post.verb = "POST" /\ post.origin = q.origin
            /\ post.client_metadata \in BOOLEAN /\ post.arguments_fit \in BOOLEAN
  BY DEF HttpRequest

LEMMA SameClient ==
  ASSUME NEW q, NEW r, NEW h, r.bearer = q.bearer
  PROVE  /\ AuthenticatedClient(r, h) = AuthenticatedClient(q, h)
         /\ AllowedTools(r, h) = AllowedTools(q, h)
  BY DEF AuthenticatedClient, AllowedTools

LEMMA ToolsHaveNames == Nothing \notin Tools
  BY DEF Nothing, Tools, ListChatsTool, GetMessagesTool, PrepareTool, ExecuteTool

LEMMA ResponseFields ==
  ASSUME NEW status, NEW code
  PROVE  /\ Response(status, code).tool = Nothing /\ Response(status, code).listed = {}
         /\ Response(status, code).status = status
  BY DEF Response

LEMMA ServedFields ==
  ASSUME NEW q, NEW h
  PROVE  /\ Served(q, h).tool = IF q.method = "tools/call" THEN q.name ELSE Nothing
         /\ Served(q, h).listed = IF q.method = "tools/list" THEN AllowedTools(q, h) ELSE {}
         /\ Served(q, h).status = 200
  BY DEF Served, ListedTools, Response

(* What a request gets that is not admitted, and what one that is.         *)
LEMMA NotAdmitted ==
  ASSUME NEW q, q.client_metadata \in BOOLEAN, q.arguments_fit \in BOOLEAN, NEW h,
         q.path # "/mcp" \/ q.verb = "OPTIONS" \/ ~Admitted(q, h)
  PROVE  Handle(q, h).tool = Nothing /\ Handle(q, h).listed = {}
<1>1. CASE q.path # "/mcp"
  BY <1>1, ResponseFields DEF Handle
<1>2. CASE q.path = "/mcp" /\ q.verb = "OPTIONS"
  BY <1>2, ResponseFields DEF Handle, Preflight
<1>3. CASE q.path = "/mcp" /\ q.verb # "OPTIONS" /\ ~Admitted(q, h)
  <2>1. Handle(q, h) = HandlePost(q, h)
    BY <1>3 DEF Handle
  <2>2. \E k \in DOMAIN PostChecks(q, h) :
          HandlePost(q, h) = Response(PostChecks(q, h)[k][2], PostChecks(q, h)[k][3])
    BY <1>3, PostFacts, PostAnswered
  <2> QED
    BY <2>1, <2>2, ResponseFields
<1> QED
  BY <1>1, <1>2, <1>3

LEMMA AdmittedIsServed ==
  ASSUME NEW q, q.client_metadata \in BOOLEAN, q.arguments_fit \in BOOLEAN, NEW h,
         q.path = "/mcp", Admitted(q, h)
  PROVE  Handle(q, h) = Served(q, h)
<1>1. q.verb # "OPTIONS"
  BY DEF Admitted
<1>2. Handle(q, h) = HandlePost(q, h)
  BY <1>1 DEF Handle
<1> QED
  BY <1>2, PostFacts, PostAnswered

(* Without a token only path, method and origin decide.                    *)
LEMMA StrangersSeeNothing ==
  ASSUME NEW q \in HttpRequest, NEW h, AuthenticatedClient(q, h) = {}
  PROVE  Handle(q, h) = Handle(Stripped(q), h)
<1>1. PICK r : r = Stripped(q)
  OBVIOUS
<1>2. /\ r.path = q.path /\ r.verb = q.verb /\ r.origin = q.origin /\ r.bearer = q.bearer
      /\ r.client_metadata \in BOOLEAN /\ r.arguments_fit \in BOOLEAN
  BY <1>1, StrippedFields
<1>3. q.client_metadata \in BOOLEAN /\ q.arguments_fit \in BOOLEAN
  BY Flags
<1>4. PICK c : c = PostChecks(q, h)
  OBVIOUS
<1>5. PICK d : d = PostChecks(r, h)
  OBVIOUS
<1>6. /\ {1, 2, 3} \subseteq DOMAIN c /\ {1, 2, 3} \subseteq DOMAIN d
      /\ DOMAIN c \subseteq Nat \ {0} /\ DOMAIN d \subseteq Nat \ {0}
      /\ c[1] = d[1] /\ c[2] = d[2] /\ c[3] = d[3] /\ ~c[3][1]
  <2>1. DOMAIN c \subseteq Nat \ {0} /\ FirstChecks(c, q, h)
    BY <1>3, <1>4, PostFacts, CheckNumbers
  <2>2. DOMAIN d \subseteq Nat \ {0} /\ FirstChecks(d, r, h)
    BY <1>2, <1>5, PostFacts, CheckNumbers
  <2>3. AuthenticatedClient(r, h) = {}
    BY <1>2, SameClient
  <2>4. /\ c[1] = <<q.verb = "POST", 405, 0>> /\ d[1] = <<r.verb = "POST", 405, 0>>
        /\ c[2] = <<q.origin \in h.allowed_origins \cup {NoOrigin}, 403, 0>>
        /\ d[2] = <<r.origin \in h.allowed_origins \cup {NoOrigin}, 403, 0>>
        /\ c[3] = <<AuthenticatedClient(q, h) # {}, 401, 0>>
        /\ d[3] = <<AuthenticatedClient(r, h) # {}, 401, 0>>
    BY <2>1, <2>2 DEF FirstChecks
  <2>5. c[1] = d[1] /\ c[2] = d[2]
    BY <1>2, <2>4
  <2>6. c[3] = <<FALSE, 401, 0>> /\ d[3] = <<FALSE, 401, 0>>
    BY <2>3, <2>4
  <2>7. ~c[3][1]
    BY <2>6
  <2>8. {1, 2, 3} \subseteq DOMAIN c /\ {1, 2, 3} \subseteq DOMAIN d
    BY <2>1, <2>2 DEF FirstChecks
  <2> QED
    BY <2>1, <2>2, <2>5, <2>6, <2>7, <2>8
<1>7. PICK k \in DOMAIN c : /\ ~c[k][1] /\ \A j \in DOMAIN c : ~c[j][1] => k <= j
                            /\ HandlePost(q, h) = Response(c[k][2], c[k][3])
  <2>1. ~Passed(c)
    BY <1>6 DEF Passed
  <2> QED
    BY <1>3, <1>4, <2>1, PostAnswered
<1>8. PICK m \in DOMAIN d : /\ ~d[m][1] /\ \A j \in DOMAIN d : ~d[j][1] => m <= j
                            /\ HandlePost(r, h) = Response(d[m][2], d[m][3])
  <2>1. ~Passed(d)
    BY <1>6 DEF Passed
  <2> QED
    BY <1>2, <1>5, <2>1, PostAnswered
<1>9. k <= 3 /\ m <= 3
  BY <1>6, <1>7, <1>8
<1>10. k \in Nat \ {0} /\ m \in Nat \ {0}
  BY <1>6
<1>11. k \in {1, 2, 3} /\ m \in {1, 2, 3}
  BY <1>9, <1>10
<1>12. k <= m /\ m <= k
  BY <1>6, <1>7, <1>8, <1>11
<1>13. k = m /\ c[k] = d[m]
  BY <1>6, <1>10, <1>11, <1>12
<1>14. HandlePost(q, h) = HandlePost(r, h)
  BY <1>7, <1>8, <1>13
<1>15. Handle(q, h) = Handle(r, h)
  BY <1>2, <1>14 DEF Handle, Preflight
<1> QED
  BY <1>1, <1>15

(* A preflight succeeds exactly when a POST from there is not forbidden.   *)
LEMMA PreflightTellsThePost ==
  ASSUME NEW q \in HttpRequest, NEW h, h.allowed_origins \subseteq Origins,
         q.path = "/mcp", q.verb = "OPTIONS"
  PROVE  Handle(q, h).status = 200 <=>
           /\ Handle([q EXCEPT !.verb = "POST"], h).status # 403
           /\ q.origin # NoOrigin
<1>1. PICK r : r = [q EXCEPT !.verb = "POST"]
  OBVIOUS
<1>2. /\ r.path = "/mcp" /\ r.verb = "POST" /\ r.origin = q.origin
      /\ r.client_metadata \in BOOLEAN /\ r.arguments_fit \in BOOLEAN
  BY <1>1, PostedFields
<1>3. Handle(q, h).status = IF q.origin \in h.allowed_origins THEN 200 ELSE 403
  BY DEF Handle, Preflight, Response
<1>4. Handle(r, h) = HandlePost(r, h)
  BY <1>2 DEF Handle
<1>5. PICK c : c = PostChecks(r, h)
  OBVIOUS
<1>6. /\ DOMAIN c \subseteq Nat \ {0} /\ FirstChecks(c, r, h)
      /\ OnlyOriginsAreForbidden(c)
  BY <1>2, <1>5, PostFacts, CheckNumbers
<1>7. /\ {1, 2, 3} \subseteq DOMAIN c
      /\ c[1] = <<TRUE, 405, 0>>
      /\ c[2] = <<r.origin \in h.allowed_origins \cup {NoOrigin}, 403, 0>>
  BY <1>2, <1>6 DEF FirstChecks
<1>8. CASE r.origin \in h.allowed_origins \cup {NoOrigin}
  <2>1. HandlePost(r, h).status # 403
    <3>1. CASE HandlePost(r, h) = Served(r, h)
      BY <3>1, ServedFields
    <3>2. ASSUME NEW k \in DOMAIN c, ~c[k][1], HandlePost(r, h) = Response(c[k][2], c[k][3])
          PROVE  HandlePost(r, h).status # 403
      <4>1. k # 2
        <5>1. c[2] = <<TRUE, 403, 0>>
          BY <1>7, <1>8
        <5>2. c[2][1]
          BY <5>1
        <5> QED
          BY <3>2, <5>2
      <4> QED
        BY <1>6, <3>2, <4>1, ResponseFields DEF OnlyOriginsAreForbidden
    <3> QED
      BY <1>2, <1>5, <3>1, <3>2, PostAnswered
  <2>2. q.origin \in h.allowed_origins <=> q.origin # NoOrigin
    BY <1>2, <1>8, McpRequestAssumption
  <2> QED
    BY <1>1, <1>3, <1>4, <2>1, <2>2
<1>9. CASE r.origin \notin h.allowed_origins \cup {NoOrigin}
  <2>1. HandlePost(r, h).status = 403
    <3>0. c[1][1] /\ ~c[2][1]
      <4>1. c[2] = <<FALSE, 403, 0>>
        <5>1. (r.origin \in h.allowed_origins \cup {NoOrigin}) = FALSE
          BY <1>9
        <5> QED
          BY <1>7, <5>1
      <4>2. ~c[2][1]
        BY <4>1
      <4>3. c[1][1]
        BY <1>7
      <4> QED
        BY <4>2, <4>3
    <3>1. ~Passed(c)
      BY <1>7, <3>0 DEF Passed
    <3>2. PICK k \in DOMAIN c : /\ ~c[k][1] /\ \A j \in DOMAIN c : ~c[j][1] => k <= j
                                /\ HandlePost(r, h) = Response(c[k][2], c[k][3])
      BY <1>2, <1>5, <3>1, PostAnswered
    <3>3. k # 1 /\ k <= 2
      BY <1>7, <3>0, <3>2
    <3>4. k \in Nat \ {0}
      BY <1>6
    <3>5. k = 2
      BY <3>3, <3>4
    <3>6. c[k][2] = 403
      BY <1>7, <3>5
    <3> QED
      BY <3>2, <3>6, ResponseFields
  <2> QED
    BY <1>1, <1>2, <1>3, <1>4, <1>9, <2>1
<1> QED
  BY <1>8, <1>9

(* The list of tools, when it is served, holds what a call would reach.    *)
LEMMA ListTellsTheCalls ==
  ASSUME NEW q \in HttpRequest, NEW h, q.method = "tools/list", Handle(q, h) = Served(q, h)
  PROVE  Handle(q, h).listed =
           {tool \in Tools : Handle([CallOf(q, tool) EXCEPT !.arguments_fit = TRUE], h).tool = tool}
<1>1. q.client_metadata \in BOOLEAN /\ q.arguments_fit \in BOOLEAN
  BY Flags
<1>2. Handle(q, h).listed = AllowedTools(q, h) /\ AllowedTools(q, h) \subseteq Tools
  <2>1. Served(q, h).listed = AllowedTools(q, h)
    BY ServedFields
  <2>2. AllowedTools(q, h) \subseteq Tools
    BY DEF AllowedTools
  <2> QED
    BY <2>1, <2>2
<1> SUFFICES ASSUME NEW tool \in Tools
             PROVE  tool \in AllowedTools(q, h) <=>
                      Handle([CallOf(q, tool) EXCEPT !.arguments_fit = TRUE], h).tool = tool
  BY <1>2
<1>3. PICK call : call = [CallOf(q, tool) EXCEPT !.arguments_fit = TRUE]
  OBVIOUS
<1>4. /\ call.path = q.path /\ call.verb = q.verb /\ call.origin = q.origin
      /\ call.bearer = q.bearer /\ call.content_type = q.content_type
      /\ call.accept = q.accept /\ call.body = q.body
      /\ call.version_header = q.version_header /\ call.meta_version = q.meta_version
      /\ call.client_metadata = q.client_metadata
      /\ call.method = "tools/call" /\ call.method_header = "tools/call"
      /\ call.name = tool /\ call.name_header = tool /\ call.arguments_fit = TRUE
  BY <1>3, CallFields
<1>5. call.client_metadata \in BOOLEAN /\ call.arguments_fit \in BOOLEAN
  BY <1>1, <1>4
<1>6. /\ AuthenticatedClient(call, h) = AuthenticatedClient(q, h)
      /\ AllowedTools(call, h) = AllowedTools(q, h)
  BY <1>4, SameClient
<1>7. tool # Nothing
  BY ToolsHaveNames
<1>8. ASSUME Handle(call, h).tool = tool PROVE tool \in AllowedTools(q, h)
  <2>1. Admitted(call, h)
    BY <1>5, <1>7, <1>8, NotAdmitted
  <2> QED
    BY <1>4, <1>6, <2>1 DEF Admitted
<1>9. ASSUME tool \in AllowedTools(q, h) PROVE Handle(call, h).tool = tool
  <2>1. q.path = "/mcp" /\ Admitted(q, h)
    <3>1. Handle(q, h).listed # {}
      BY <1>2, <1>9
    <3> QED
      BY <1>1, <3>1, NotAdmitted
  <2>2. Admitted(call, h)
    BY <1>4, <1>6, <1>7, <1>9, <2>1 DEF Admitted, Methods
  <2>3. Handle(call, h) = Served(call, h)
    BY <1>4, <1>5, <2>1, <2>2, AdmittedIsServed
  <2> QED
    BY <1>4, <2>3, ServedFields
<1> QED
  BY <1>3, <1>8, <1>9

-----------------------------------------------------------------------------
(* The last exchange is what the host, as it still is, makes of a request. *)
ExchangeProper ==
  \/ exchange = Quiet
  \/ /\ host.listening
     /\ exchange.request \in Requests
     /\ exchange.tool = Handle(exchange.request, host).tool
     /\ exchange.tool = Nothing => /\ exchange.outcome = "none"
                                   /\ exchange.response = Handle(exchange.request, host)

LEMMA ExchangeStep ==
  ASSUME DesktopInv, ExchangeProper, [Next]_vars
  PROVE  ExchangeProper'
<1>1. CASE UNCHANGED <<host, exchange>>
  BY <1>1 DEF ExchangeProper
<1>2. CASE exchange' = Quiet
  BY <1>2 DEF ExchangeProper
<1>3. ASSUME NEW q \in Requests, Exchange(q) PROVE ExchangeProper'
  <2>1. host.listening /\ host' = host
    BY <1>3 DEF Exchange, memoryVars
  <2>2. CASE Handle(q, host).tool = Nothing
    <3>1. exchange' = [request |-> q, tool |-> Nothing, outcome |-> "none", response |-> Handle(q, host)]
      BY <1>3, <2>2 DEF Exchange
    <3>2. /\ exchange'.request = q /\ exchange'.tool = Nothing
          /\ exchange'.outcome = "none" /\ exchange'.response = Handle(q, host)
      BY <3>1
    <3> QED
      BY <2>1, <2>2, <3>2 DEF ExchangeProper
  <2>3. CASE Handle(q, host).tool # Nothing
    <3>1. PICK outcome, response :
            exchange' = [request |-> q, tool |-> Handle(q, host).tool, outcome |-> outcome,
                         response |-> response]
      BY <1>3, <2>3 DEF Exchange
    <3>2. exchange'.request = q /\ exchange'.tool = Handle(q, host).tool
      BY <3>1
    <3> QED
      BY <2>1, <2>3, <3>2 DEF ExchangeProper
  <2> QED
    BY <2>2, <2>3
<1>4. CASE LoadConfiguration
  <2>1. ~host.listening
    BY <1>4 DEF DesktopInv, LoadConfiguration, NothingInMemory, Off
  <2>2. exchange' = Quiet
    BY <1>4, <2>1 DEF LoadConfiguration, ExchangeProper
  <2> QED
    BY <1>2, <2>2
<1>5. CASE UNCHANGED vars
  BY <1>1, <1>5 DEF vars, memoryVars
<1>6. CASE ProgramStep
  <2>1. CASE Launch \/ Quit
    BY <1>2, <2>1 DEF Launch, Quit
  <2>2. CASE LookForFile \/ CopyBegins \/ CopyEnds \/ EnsureFails
    BY <1>1, <2>2 DEF LookForFile, CopyBegins, CopyEnds, EnsureFails, Staging, memoryVars
  <2>3. ASSUME NEW k, NEW typed, NEW ensured, StartAuthorization(k, typed, ensured)
        PROVE  ExchangeProper'
    BY <1>2, <2>3 DEF StartAuthorization
  <2>4. ASSUME NEW c, RegenerateToken(c) PROVE ExchangeProper'
    BY <1>2, <2>4 DEF RegenerateToken
  <2> QED
    BY <1>4, <1>6, <2>1, <2>2, <2>3, <2>4 DEF ProgramStep
<1>7. ASSUME NEW file, NEW document, OperatorEdits(file, document) PROVE ExchangeProper'
  BY <1>2, <1>7 DEF OperatorEdits
<1> QED
  BY <1>3, <1>5, <1>6, <1>7 DEF Next

THEOREM ExchangeInvariant == Spec => []ExchangeProper
<1>1. Init => ExchangeProper
  BY DEF Init, ExchangeProper
<1> QED
  BY <1>1, DesktopInvariant, ExchangeStep, PTL DEF Spec

LEMMA HostFollowsProfiles ==
  ASSUME DesktopInv, host.listening
  PROVE  host.clients = profiles.value /\ host.allowed_origins \subseteq Origins
<1>1. HostServes(host, profiles.value)
  BY DEF DesktopInv, HostProper, Off
<1>2. /\ host.clients = profiles.value
      /\ host.allowed_origins = host.configuration.allowed_origins
  BY <1>1 DEF HostServes, Listening
<1>3. host.configuration.allowed_origins \subseteq Origins
  BY <1>1 DEF HostServes, HostFits, HostConfigurations
<1> QED
  BY <1>2, <1>3

(* BoundaryHolds, for all requests, profiles and settings of the host:     *)
(* strangers learn nothing, and a use case is reached with a token only    *)
(* whose profile lists the tool the headers name.                          *)
THEOREM BoundaryHoldsAlways == Spec => []BoundaryHolds
<1>1. ASSUME DesktopInv, ExchangeProper PROVE BoundaryHolds
  <2> SUFFICES ASSUME exchange # Quiet PROVE BoundaryHolds
    BY DEF BoundaryHolds, Exchanged
  <2>1. PICK q : q = exchange.request
    OBVIOUS
  <2>2. /\ host.listening /\ q \in HttpRequest
        /\ exchange.tool = Handle(q, host).tool
        /\ exchange.tool = Nothing => exchange.outcome = "none" /\ exchange.response = Handle(q, host)
    BY <1>1, <2>1, DesktopAssumption DEF ExchangeProper
  <2>3. q.client_metadata \in BOOLEAN /\ q.arguments_fit \in BOOLEAN
    BY <2>2, Flags
  <2>4. ASSUME AuthenticatedClient(q, host) = {}
        PROVE  exchange.outcome = "none" /\ exchange.response = Handle(Stripped(q), host)
    <3>1. ~Admitted(q, host)
      BY <2>4 DEF Admitted
    <3>2. Handle(q, host).tool = Nothing
      BY <2>3, <3>1, NotAdmitted
    <3> QED
      BY <2>2, <2>4, <3>2, StrangersSeeNothing
  <2>5. ASSUME exchange.outcome # "none"
        PROVE  /\ \E profile \in profiles.value :
                    /\ profile.id = q.bearer /\ profile.enabled
                    /\ exchange.tool \in profile.allowed_tools
               /\ q.method_header = "tools/call" /\ q.name_header = exchange.tool
               /\ q.origin \in host.allowed_origins \cup {NoOrigin}
    <3>1. Handle(q, host).tool # Nothing
      BY <2>2, <2>5
    <3>2. q.path = "/mcp" /\ Admitted(q, host)
      BY <2>3, <3>1, NotAdmitted
    <3>3. Handle(q, host) = Served(q, host)
      BY <2>3, <3>2, AdmittedIsServed
    <3>4. q.method = "tools/call" /\ exchange.tool = q.name
      BY <2>2, <3>1, <3>3, ServedFields
    <3>5. /\ q.method_header = "tools/call" /\ q.name_header = q.name
          /\ q.origin \in host.allowed_origins \cup {NoOrigin}
          /\ q.name \in AllowedTools(q, host)
      BY <3>2, <3>4 DEF Admitted
    <3>6. \E profile \in host.clients :
            profile.enabled /\ profile.id = q.bearer /\ q.name \in profile.allowed_tools
      BY <3>5 DEF AllowedTools, AuthenticatedClient
    <3>7. host.clients = profiles.value
      BY <1>1, <2>2, HostFollowsProfiles
    <3> QED
      BY <3>4, <3>5, <3>6, <3>7
  <2> QED
    BY <2>1, <2>4, <2>5 DEF BoundaryHolds
<1> QED
  BY <1>1, DesktopInvariant, ExchangeInvariant, PTL

(* AnnouncedIsGranted, for all requests and settings: the tools a client   *)
(* is told of are the ones it can call, and a preflight promises what the  *)
(* POST then gets.                                                         *)
THEOREM AnnouncedIsGrantedHolds == Spec => []AnnouncedIsGranted
<1>1. ASSUME DesktopInv, ExchangeProper PROVE AnnouncedIsGranted
  <2> SUFFICES ASSUME exchange # Quiet PROVE AnnouncedIsGranted
    BY DEF AnnouncedIsGranted, Exchanged
  <2>1. PICK q : q = exchange.request
    OBVIOUS
  <2>2. /\ host.listening /\ q \in HttpRequest
        /\ exchange.tool = Handle(q, host).tool
        /\ exchange.tool = Nothing => exchange.response = Handle(q, host)
    BY <1>1, <2>1, DesktopAssumption DEF ExchangeProper
  <2>3. q.client_metadata \in BOOLEAN /\ q.arguments_fit \in BOOLEAN
    BY <2>2, Flags
  <2>4. ASSUME q.method = "tools/list", exchange.response = Served(q, host)
        PROVE  exchange.response.listed =
                 {tool \in Tools : Handle([CallOf(q, tool) EXCEPT !.arguments_fit = TRUE], host).tool = tool}
    <3>1. Handle(q, host).tool = Nothing
      <4>1. CASE q.path = "/mcp" /\ Admitted(q, host)
        BY <2>3, <2>4, <4>1, AdmittedIsServed, ServedFields
      <4>2. CASE q.path # "/mcp" \/ ~Admitted(q, host)
        BY <2>3, <4>2, NotAdmitted
      <4> QED
        BY <4>1, <4>2
    <3>2. Handle(q, host) = Served(q, host) /\ exchange.response = Handle(q, host)
      BY <2>2, <2>4, <3>1
    <3> QED
      BY <2>2, <2>4, <3>2, ListTellsTheCalls
  <2>5. ASSUME q.verb = "OPTIONS", q.path = "/mcp"
        PROVE  exchange.response.status = 200 <=>
                 Handle([q EXCEPT !.verb = "POST"], host).status # 403 /\ q.origin # NoOrigin
    <3>1. exchange.response = Handle(q, host)
      BY <2>2, <2>3, <2>5, NotAdmitted
    <3>2. host.allowed_origins \subseteq Origins
      BY <1>1, <2>2, HostFollowsProfiles
    <3> QED
      BY <2>2, <2>5, <3>1, <3>2, PreflightTellsThePost
  <2> QED
    BY <2>1, <2>4, <2>5 DEF AnnouncedIsGranted
<1> QED
  BY <1>1, DesktopInvariant, ExchangeInvariant, PTL
=============================================================================
