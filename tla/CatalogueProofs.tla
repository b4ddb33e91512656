-------------------------- MODULE CatalogueProofs --------------------------
(***************************************************************************)
(* The archive for every set of names, days, admins and port maps, every   *)
(* size of the port space and any number of CTFs, categories and           *)
(* challenges.                                                             *)
(*                                                                         *)
(* Three facts are added to the types.  Browsable needs the foreign keys   *)
(* (KeysHold), because a challenge is found through rows that other        *)
(* requests wrote.  StartsAsConfigured needs to know that the columns come *)
(* from one enumeration of the port map (ColumnsEncode): the two arrays    *)
(* are decoded position by position.  Repeatable needs images to differ    *)
(* between challenges (ImagesDiffer).                                      *)
(***************************************************************************)
EXTENDS Catalogue, FiniteSetTheorems, TLAPS

\* A port survives being stored as an i16 and read as a u16, and the stored number
\* is an i16.
LEMMA PortRoundTrip ==
  ASSUME NEW n \in Ports
  PROVE  AsI16(n) \in SignedPorts /\ AsU16(AsI16(n)) = n
<1> USE CatalogueAssumption
<1>1. n \in 0..(PortSpace - 1) /\ PortSpace \in Nat \ {0} /\ PortSpace % 2 = 0
  BY DEF Ports
<1>2. n % PortSpace = n
  BY <1>1
<1>3. (n - PortSpace) % PortSpace = n
  BY <1>1
<1>4. CASE n < PortSpace \div 2
  <2>1. n \in (-(PortSpace \div 2))..((PortSpace \div 2) - 1)
    BY <1>1, <1>4
  <2> QED BY <1>2, <1>4, <2>1 DEF AsI16, AsU16, SignedPorts
<1>5. CASE ~(n < PortSpace \div 2)
  <2>1. n - PortSpace \in (-(PortSpace \div 2))..((PortSpace \div 2) - 1)
    BY <1>1, <1>5
  <2> QED BY <1>3, <1>5, <2>1 DEF AsI16, AsU16, SignedPorts
<1> QED BY <1>4, <1>5

\* The keys of a port map are ports, and its values port types.
LEMMA PortMapTypes ==
  ASSUME NEW ports \in PortMaps
  PROVE  /\ DOMAIN ports \subseteq Ports
         /\ IsFiniteSet(DOMAIN ports)
         /\ \A n \in DOMAIN ports : ports[n] \in PortTypes
<1>1. DOMAIN ports \subseteq Ports /\ Range(ports) \subseteq PortTypes
  BY CatalogueAssumption DEF Ports
<1>2. IsFiniteSet(Ports)
  BY CatalogueAssumption, FS_Interval DEF Ports
<1>3. IsFiniteSet(DOMAIN ports)
  BY <1>1, <1>2, FS_Subset
<1> QED BY <1>1, <1>3 DEF Range

\* An order of a port map's keys lists each of them, so its two columns have the
\* same length, the column types, and together say the whole map.
LEMMA ColumnsOfOrder ==
  ASSUME NEW ports \in PortMaps, NEW order \in SetToSeqs(DOMAIN ports)
  PROVE  /\ Numbers(order) \in Seq(SignedPorts)
         /\ Types(order, ports) \in Seq(PortTypes)
         /\ Len(Numbers(order)) = Len(Types(order, ports))
         /\ DOMAIN Numbers(order) = DOMAIN order
         /\ {order[k] : k \in DOMAIN order} = DOMAIN ports
<1> DEFINE n == Cardinality(DOMAIN ports)
<1>1. n \in Nat
  BY PortMapTypes, FS_CardinalityType
<1>2. order \in [1..n -> DOMAIN ports] /\ \A i, j \in 1..n : i # j => order[i] # order[j]
  BY DEF SetToSeqs
<1>3. order \in Injection(1..n, DOMAIN ports)
  BY <1>2 DEF Injection, IsInjective
<1>4. Cardinality(1..n) = n
  BY <1>1, FS_Interval
<1>5. order \in Surjection(1..n, DOMAIN ports)
  BY <1>3, <1>4, PortMapTypes, FS_Injection
<1>6. {order[k] : k \in DOMAIN order} = DOMAIN ports
  BY <1>2, <1>5 DEF Surjection
<1>7. Numbers(order) \in [1..n -> SignedPorts]
  <2>1. \A k \in 1..n : AsI16(order[k]) \in SignedPorts
    BY <1>2, PortMapTypes, PortRoundTrip
  <2> QED BY <1>2, <2>1 DEF Numbers
<1>8. Types(order, ports) \in [1..n -> PortTypes]
  <2>1. \A k \in 1..n : ports[order[k]] \in PortTypes
    BY <1>2, PortMapTypes
  <2> QED BY <1>2, <2>1 DEF Types
<1> HIDE DEF n
<1>9. /\ Numbers(order) \in Seq(SignedPorts) /\ Len(Numbers(order)) = n
      /\ Types(order, ports) \in Seq(PortTypes) /\ Len(Types(order, ports)) = n
  BY <1>1, <1>7, <1>8
<1> QED BY <1>2, <1>6, <1>7, <1>9

\* array_length of dimension 0 is NULL, so the two CHECKs never refuse a row.
LEMMA ChecksNeverRefuse == \A nums, types : ChecksHold(nums, types)
  BY DEF ChecksHold, ArrayLength

\* Drawing an id moves the sequence of that table up by at most one, by one if the
\* row is inserted, and leaves the others.
LEMMA SerialGrows ==
  ASSUME serial \in [DOMAIN MaxSerial -> Nat], NEW t \in DOMAIN MaxSerial, NEW status,
         DrawSerial(t, status)
  PROVE  /\ serial' \in [DOMAIN MaxSerial -> Nat]
         /\ \A u \in DOMAIN MaxSerial : serial[u] <= serial'[u]
         /\ status = "CREATED" => serial[t] < serial'[t]
  BY DEF DrawSerial
-----------------------------------------------------------------------------
(* Each handler keeps the inductive invariant.                             *)

\* The empty archive satisfies it.
LEMMA InitIInv == Init => IInv
  BY CatalogueAssumption DEF Init, IInv, TypeOK, KeysHold, ImagesDiffer, ColumnsEncode

\* ctfs::create.
LEMMA CreateCtfKeeps ==
  ASSUME IInv, NEW admin \in Admins, NEW name \in Names \cup {LONG},
         NEW start \in Days \cup {NODAY}, NEW end \in Days \cup {NODAY},
         CreateCtf(admin, name, start, end)
  PROVE  IInv'
<1> DEFINE status == CreateCtfStatus(admin, name, start, end)
           row    == [name |-> name, start_date |-> start, end_date |-> end]
           id     == serial["ctfs"]
<1>1. "ctfs" \in DOMAIN MaxSerial /\ DOMAIN MaxSerial = {"ctfs", "categories", "challenges"}
  BY CatalogueAssumption
<1>2. DrawSerial("ctfs", status) /\ UNCHANGED <<categories, challenges, meant>>
  BY DEF CreateCtf
<1>3. /\ serial' \in [DOMAIN MaxSerial -> Nat]
      /\ \A u \in DOMAIN MaxSerial : serial[u] <= serial'[u]
      /\ status = "CREATED" => id < serial'["ctfs"]
  BY <1>1, <1>2, SerialGrows DEF IInv, TypeOK
<1>4. \/ ctfs' = ctfs
      \/ status = "CREATED" /\ row \in CtfRows /\ ctfs' = With(ctfs, id, row)
  <2>1. CASE status = "CREATED"
    <3>1. name \in Names /\ start \in Days /\ end \in Days
      BY <2>1 DEF CreateCtfStatus
    <3> QED BY <2>1, <3>1 DEF CreateCtf, CtfRows
  <2> QED BY <2>1 DEF CreateCtf
<1>5. id \in Nat
  BY <1>1 DEF IInv, TypeOK
<1> HIDE DEF status, row
<1>6. /\ DOMAIN ctfs \subseteq DOMAIN ctfs'
      /\ \A i \in DOMAIN ctfs' : i \in Nat /\ i < serial'["ctfs"] /\ ctfs'[i] \in CtfRows
  <2>1. CASE ctfs' = ctfs
    BY <1>1, <1>3, <2>1 DEF IInv, TypeOK
  <2>2. CASE status = "CREATED" /\ row \in CtfRows /\ ctfs' = With(ctfs, id, row)
    <3>1. /\ DOMAIN ctfs' = DOMAIN ctfs \cup {id} /\ ctfs'[id] = row
          /\ \A j \in DOMAIN ctfs : j # id => ctfs'[j] = ctfs[j]
      BY <2>2 DEF With
    <3> QED BY <1>1, <1>3, <1>5, <2>2, <3>1 DEF IInv, TypeOK
  <2> QED BY <1>4, <2>1, <2>2
<1>7. TypeOK'
  BY <1>1, <1>2, <1>3, <1>6 DEF IInv, TypeOK
<1>8. KeysHold' /\ ImagesDiffer' /\ ColumnsEncode'
  BY <1>2, <1>6 DEF IInv, KeysHold, ImagesDiffer, ColumnsEncode
<1> QED BY <1>7, <1>8 DEF IInv

\* categories::create: the foreign key was checked, and each type has a column value.
LEMMA CreateCategoryKeeps ==
  ASSUME IInv, NEW admin \in Admins, NEW name \in Names \cup {LONG}, NEW ctf \in Nat,
         NEW type \in CategoryTypes, CreateCategory(admin, name, ctf, type)
  PROVE  IInv'
<1> DEFINE status == CreateCategoryStatus(admin, name, ctf, type)
           row    == [name |-> name, ctf_id |-> ctf, category_type |-> AsStr[type]]
           id     == serial["categories"]
<1>1. "categories" \in DOMAIN MaxSerial /\ DOMAIN MaxSerial = {"ctfs", "categories", "challenges"}
  BY CatalogueAssumption
<1>2. DrawSerial("categories", status) /\ UNCHANGED <<ctfs, challenges, meant>>
  BY DEF CreateCategory
<1>3. /\ serial' \in [DOMAIN MaxSerial -> Nat]
      /\ \A u \in DOMAIN MaxSerial : serial[u] <= serial'[u]
      /\ status = "CREATED" => id < serial'["categories"]
  BY <1>1, <1>2, SerialGrows DEF IInv, TypeOK
<1>4. \/ categories' = categories
      \/ /\ status = "CREATED" /\ row \in CategoryRows /\ row.ctf_id \in DOMAIN ctfs
         /\ categories' = With(categories, id, row)
  <2>1. CASE status = "CREATED"
    <3>1. name \in Names /\ ctf \in DOMAIN ctfs /\ AsStr[type] \in ValidCategoryType
      BY <2>1 DEF CreateCategoryStatus
    <3>2. row \in CategoryRows /\ row.ctf_id = ctf
      BY <3>1 DEF CategoryRows
    <3> QED BY <2>1, <3>1, <3>2 DEF CreateCategory
  <2> QED BY <2>1 DEF CreateCategory
<1>5. id \in Nat
  BY <1>1 DEF IInv, TypeOK
<1> HIDE DEF status, row
<1>6. /\ DOMAIN categories \subseteq DOMAIN categories'
      /\ \A i \in DOMAIN categories' :
            /\ i \in Nat /\ i < serial'["categories"] /\ categories'[i] \in CategoryRows
            /\ categories'[i].ctf_id \in DOMAIN ctfs
  <2>1. CASE categories' = categories
    BY <1>1, <1>3, <2>1 DEF IInv, TypeOK, KeysHold
  <2>2. CASE categories' # categories
    <3>1. /\ DOMAIN categories' = DOMAIN categories \cup {id} /\ categories'[id] = row
          /\ \A j \in DOMAIN categories : j # id => categories'[j] = categories[j]
      BY <1>4, <2>2 DEF With
    <3> QED BY <1>1, <1>3, <1>4, <1>5, <2>2, <3>1 DEF IInv, TypeOK, KeysHold
  <2> QED BY <2>1, <2>2
<1>7. TypeOK'
  BY <1>1, <1>2, <1>3, <1>6 DEF IInv, TypeOK
<1>8. KeysHold'
  BY <1>2, <1>6 DEF IInv, KeysHold
<1>9. ImagesDiffer' /\ ColumnsEncode'
  BY <1>2 DEF IInv, ImagesDiffer, ColumnsEncode
<1> QED BY <1>7, <1>8, <1>9 DEF IInv

\* challenges::create: a new challenge has neither image nor ports.
LEMMA CreateChallengeKeeps ==
  ASSUME IInv, NEW admin \in Admins, NEW name \in Names \cup {LONG}, NEW category \in Nat,
         NEW flag \in BOOLEAN, NEW instructions \in BOOLEAN, NEW upload \in Uploads,
         CreateChallenge(admin, name, category, flag, instructions, upload)
  PROVE  IInv'
<1> DEFINE status == CreateChallengeStatus(admin, name, category, upload)
           row    == NewChallenge(name, category, flag, instructions, upload)
           id     == serial["challenges"]
<1>1. "challenges" \in DOMAIN MaxSerial /\ DOMAIN MaxSerial = {"ctfs", "categories", "challenges"}
  BY CatalogueAssumption
<1>2. DrawSerial("challenges", status) /\ UNCHANGED <<ctfs, categories>>
  BY DEF CreateChallenge
<1>3. /\ serial' \in [DOMAIN MaxSerial -> Nat]
      /\ \A u \in DOMAIN MaxSerial : serial[u] <= serial'[u]
      /\ status = "CREATED" => id < serial'["challenges"]
  BY <1>1, <1>2, SerialGrows DEF IInv, TypeOK
<1>4. id \in Nat /\ id \notin DOMAIN challenges
  BY <1>1 DEF IInv, TypeOK
<1>5. CASE status # "CREATED"
  <2>1. UNCHANGED <<challenges, meant>>
    BY <1>5 DEF CreateChallenge
  <2>2. TypeOK'
    BY <1>1, <1>2, <1>3, <2>1 DEF IInv, TypeOK
  <2>3. KeysHold' /\ ImagesDiffer' /\ ColumnsEncode'
    BY <1>2, <2>1 DEF IInv, KeysHold, ImagesDiffer, ColumnsEncode
  <2> QED BY <2>2, <2>3 DEF IInv
<1>6. CASE status = "CREATED"
  <2>1. name \in Names /\ category \in DOMAIN categories
    BY <1>6 DEF CreateChallengeStatus
  <2>2. /\ row \in ChallengeRows /\ row.category_id = category
        /\ row.docker_image = NULL /\ row.port_numbers = << >> /\ row.port_types = << >>
    BY <2>1 DEF NewChallenge, ChallengeRows
  <2>3. challenges' = With(challenges, id, row) /\ meant' = With(meant, id, NULL)
    BY <1>6 DEF CreateChallenge
  <2> HIDE DEF status, row
  <2>4. /\ DOMAIN challenges' = DOMAIN challenges \cup {id}
        /\ challenges'[id] = row
        /\ \A j \in DOMAIN challenges : j # id => challenges'[j] = challenges[j]
    BY <2>3 DEF With
  <2>5. /\ DOMAIN meant' = DOMAIN meant \cup {id}
        /\ meant'[id] = NULL
        /\ \A j \in DOMAIN meant : j # id => meant'[j] = meant[j]
    BY <2>3 DEF With
  <2> HIDE DEF id
  <2>6. \A i \in DOMAIN challenges' :
           i \in Nat /\ i < serial'["challenges"] /\ challenges'[i] \in ChallengeRows
    BY <1>1, <1>3, <1>4, <1>6, <2>2, <2>4 DEF IInv, TypeOK, id
  <2>7. /\ DOMAIN meant' = DOMAIN challenges'
        /\ \A i \in DOMAIN meant' : meant'[i] \in Configurations \cup {NULL}
    BY <2>4, <2>5 DEF IInv, TypeOK
  <2>8. TypeOK'
    BY <1>1, <1>2, <1>3, <2>6, <2>7 DEF IInv, TypeOK
  <2>9. KeysHold'
    BY <1>2, <2>1, <2>2, <2>4 DEF IInv, KeysHold
  <2>10. ImagesDiffer'
    BY <1>4, <2>2, <2>4 DEF IInv, ImagesDiffer
  <2>11. ColumnsEncode'
    BY <1>4, <2>2, <2>4, <2>5 DEF IInv, TypeOK, ColumnsEncode
  <2> QED BY <2>8, <2>9, <2>10, <2>11 DEF IInv
<1> QED BY <1>5, <1>6

\* set_connection_instructions and set_archive: an UPDATE that leaves the name, the
\* category and the docker columns keeps the invariant.
LEMMA UpdateKeeps ==
  ASSUME IInv, NEW id \in Nat, NEW row, Update(id, row), UNCHANGED meant,
         id \in DOMAIN challenges =>
            /\ row \in ChallengeRows
            /\ row.category_id = challenges[id].category_id
            /\ row.docker_image = challenges[id].docker_image
            /\ row.port_numbers = challenges[id].port_numbers
            /\ row.port_types = challenges[id].port_types
  PROVE  IInv'
<1>1. UNCHANGED <<ctfs, categories, serial, meant>>
  BY DEF Update
<1>2. /\ DOMAIN challenges' = DOMAIN challenges
      /\ \A i \in DOMAIN challenges : i # id => challenges'[i] = challenges[i]
      /\ id \in DOMAIN challenges => challenges'[id] = row
  BY DEF Update
<1>3. TypeOK'
  BY <1>1, <1>2 DEF IInv, TypeOK
<1>4. \A i \in DOMAIN challenges :
         /\ challenges'[i].category_id = challenges[i].category_id
         /\ challenges'[i].docker_image = challenges[i].docker_image
         /\ challenges'[i].port_numbers = challenges[i].port_numbers
         /\ challenges'[i].port_types = challenges[i].port_types
  BY <1>2
<1>5. KeysHold' /\ ImagesDiffer'
  BY <1>1, <1>2, <1>4 DEF IInv, KeysHold, ImagesDiffer
<1>6. ColumnsEncode'
  BY <1>1, <1>2, <1>4 DEF IInv, ColumnsEncode
<1> QED BY <1>3, <1>5, <1>6 DEF IInv

\* configure_docker: the image is no other challenge's, and the three columns come
\* from one order of the ports.
LEMMA ConfigureDockerKeeps ==
  ASSUME IInv, NEW admin \in Admins, NEW id \in Nat, NEW image \in Names \cup {LONG},
         NEW ports \in PortMaps, ConfigureDocker(admin, id, image, ports)
  PROVE  IInv'
<1>1. PICK order \in SetToSeqs(DOMAIN ports) :
        /\ ConfigureDockerStatus(admin, id, image, Numbers(order), Types(order, ports)) = "OK"
        /\ Update(id, [challenges[id] EXCEPT !.docker_image = image,
                                             !.port_numbers = Numbers(order),
                                             !.port_types = Types(order, ports)])
        /\ meant' = IF id \in DOMAIN challenges
                      THEN [meant EXCEPT ![id] = [image |-> image, ports |-> ports, by |-> admin]]
                      ELSE meant
  BY DEF ConfigureDocker
<1> DEFINE row  == [challenges[id] EXCEPT !.docker_image = image,
                                          !.port_numbers = Numbers(order),
                                          !.port_types = Types(order, ports)]
           conf == [image |-> image, ports |-> ports, by |-> admin]
<1>2. UNCHANGED <<ctfs, categories, serial>>
  BY <1>1 DEF Update
<1>3. CASE id \notin DOMAIN challenges
  <2>1. UNCHANGED <<challenges, meant>>
    BY <1>1, <1>3 DEF Update
  <2>2. TypeOK'
    BY <1>2, <2>1 DEF IInv, TypeOK
  <2>3. KeysHold' /\ ImagesDiffer' /\ ColumnsEncode'
    BY <1>2, <2>1 DEF IInv, KeysHold, ImagesDiffer, ColumnsEncode
  <2> QED BY <2>2, <2>3 DEF IInv
<1>4. CASE id \in DOMAIN challenges
  <2>1. MayConfigure(admin) /\ image \in Names /\ ~ImageTaken(id, image)
    BY <1>1, <1>4 DEF ConfigureDockerStatus
  <2>2. Numbers(order) \in Seq(SignedPorts) /\ Types(order, ports) \in Seq(PortTypes)
    BY ColumnsOfOrder
  <2>3. /\ row \in ChallengeRows /\ row.category_id = challenges[id].category_id
        /\ row.docker_image = image /\ row.port_numbers = Numbers(order)
        /\ row.port_types = Types(order, ports)
    BY <1>4, <2>1, <2>2 DEF IInv, TypeOK, ChallengeRows
  <2>4. conf \in Configurations /\ conf.image = image /\ conf.ports = ports /\ conf.by = admin
    BY <2>1 DEF Configurations
  <2>5. /\ challenges' = [challenges EXCEPT ![id] = row]
        /\ meant' = [meant EXCEPT ![id] = conf]
    BY <1>1, <1>4 DEF Update
  <2> HIDE DEF row, conf
  <2>6. /\ DOMAIN challenges' = DOMAIN challenges /\ DOMAIN meant' = DOMAIN challenges
        /\ challenges'[id] = row /\ meant'[id] = conf
        /\ \A i \in DOMAIN challenges : i # id => challenges'[i] = challenges[i] /\ meant'[i] = meant[i]
    BY <1>4, <2>5 DEF IInv, TypeOK
  <2>7. TypeOK'
    BY <1>2, <2>3, <2>4, <2>6 DEF IInv, TypeOK
  <2>8. KeysHold'
    BY <1>2, <1>4, <2>3, <2>6 DEF IInv, KeysHold
  <2>9. ImagesDiffer'
    BY <2>1, <2>3, <2>6 DEF IInv, ImagesDiffer, ImageTaken
  <2>10. conf # NULL
    BY <2>4, NullAssumption
  <2>11. ColumnsEncode'
    <3> SUFFICES ASSUME NEW i \in DOMAIN challenges
                 PROVE  IF meant'[i] = NULL
                          THEN /\ challenges'[i].docker_image = NULL
                               /\ challenges'[i].port_numbers = << >>
                               /\ challenges'[i].port_types = << >>
                          ELSE /\ MayConfigure(meant'[i].by)
                               /\ challenges'[i].docker_image = meant'[i].image
                               /\ \E o \in SetToSeqs(DOMAIN meant'[i].ports) :
                                     /\ challenges'[i].port_numbers = Numbers(o)
                                     /\ challenges'[i].port_types = Types(o, meant'[i].ports)
      BY <2>6 DEF ColumnsEncode
    <3>1. CASE i = id
      BY <2>1, <2>3, <2>4, <2>6, <2>10, <3>1
    <3>2. CASE i # id
      BY <2>6, <3>2 DEF IInv, ColumnsEncode
    <3> QED BY <3>1, <3>2
  <2> QED BY <2>7, <2>8, <2>9, <2>11 DEF IInv
<1> QED BY <1>3, <1>4

\* set_connection_instructions.
LEMMA SetInstructionsKeeps ==
  ASSUME IInv, NEW admin, NEW id \in Nat, NEW present \in BOOLEAN,
         SetInstructions(admin, id, present)
  PROVE  IInv'
<1> DEFINE row == [challenges[id] EXCEPT !.instructions = present]
<1>1. id \in DOMAIN challenges =>
        /\ row \in ChallengeRows
        /\ row.category_id = challenges[id].category_id
        /\ row.docker_image = challenges[id].docker_image
        /\ row.port_numbers = challenges[id].port_numbers
        /\ row.port_types = challenges[id].port_types
  BY DEF IInv, TypeOK, ChallengeRows
<1>2. Update(id, row) /\ UNCHANGED meant
  BY DEF SetInstructions
<1> QED BY <1>1, <1>2, UpdateKeeps

\* set_archive.
LEMMA SetArchiveKeeps ==
  ASSUME IInv, NEW admin, NEW id \in Nat, NEW upload, SetArchive(admin, id, upload)
  PROVE  IInv'
<1> DEFINE row == [challenges[id] EXCEPT !.archive = (upload = "zip")]
<1>1. id \in DOMAIN challenges =>
        /\ row \in ChallengeRows
        /\ row.category_id = challenges[id].category_id
        /\ row.docker_image = challenges[id].docker_image
        /\ row.port_numbers = challenges[id].port_numbers
        /\ row.port_types = challenges[id].port_types
  BY DEF IInv, TypeOK, ChallengeRows
<1>2. Update(id, row) /\ UNCHANGED meant
  BY DEF SetArchive
<1> QED BY <1>1, <1>2, UpdateKeeps

\* The ids a request may name are natural numbers.
LEMMA IdsAreNat == \A t : Ids(t) \subseteq Nat
<1>1. \A a : \A i \in 1..a : i \in Nat
  OBVIOUS
<1> QED BY <1>1 DEF Ids

\* Every request keeps the inductive invariant.
LEMMA NextIInv == IInv /\ [Next]_vars => IInv'
<1> SUFFICES ASSUME IInv, [Next]_vars PROVE IInv'
  OBVIOUS
<1>1. CASE UNCHANGED vars
  <2>1. UNCHANGED <<ctfs, categories, challenges, serial, meant>>
    BY <1>1 DEF vars, tables
  <2> QED BY <2>1 DEF IInv, TypeOK, KeysHold, ImagesDiffer, ColumnsEncode
<1>2. CASE Next
  <2>1. PICK admin \in Admins :
          \/ \E name \in Names \cup {LONG}, start, end \in Days \cup {NODAY} :
                CreateCtf(admin, name, start, end)
          \/ \E name \in Names \cup {LONG}, ctf \in Ids("ctfs"), type \in CategoryTypes :
                CreateCategory(admin, name, ctf, type)
          \/ \E name \in Names \cup {LONG}, category \in Ids("categories"),
                flag, instructions \in BOOLEAN, upload \in Uploads :
                   CreateChallenge(admin, name, category, flag, instructions, upload)
          \/ \E id \in Ids("challenges") :
                \/ \E present \in BOOLEAN : SetInstructions(admin, id, present)
                \/ \E upload \in Uploads : SetArchive(admin, id, upload)
                \/ \E image \in Names \cup {LONG}, ports \in PortMaps :
                      ConfigureDocker(admin, id, image, ports)
    BY <1>2 DEF Next
  <2> QED BY <2>1, IdsAreNat, CreateCtfKeeps, CreateCategoryKeeps, CreateChallengeKeeps,
             SetInstructionsKeeps, SetArchiveKeeps, ConfigureDockerKeeps
<1> QED BY <1>1, <1>2 DEF Next
-----------------------------------------------------------------------------
(* The theorems.                                                           *)

\* The tables are well typed, every foreign key points to a row, images are unique,
\* and the docker columns encode the configuration last accepted.
THEOREM SpecIInv == Spec => []IInv
  BY InitIInv, NextIInv, PTL DEF Spec

\* Every category type the database accepts is parsed back.
LEMMA ValidTypesParse == \A s \in ValidCategoryType : Parse(s) # NULL
<1>1. \A s \in ValidCategoryType : Parse(s) \in CategoryNames
  BY DEF ValidCategoryType, Parse, CategoryNames
<1> QED BY <1>1, NullAssumption

\* Every stored challenge is reachable from the list of CTFs, without a panic.
THEOREM SpecBrowsable == Spec => []Browsable
<1>1. IInv => Browsable
  <2> SUFFICES ASSUME IInv, NEW id \in DOMAIN challenges
               PROVE  \E ctf \in CtfsList : \E category \in DOMAIN CategoriesGet(ctf) :
                        /\ CategoriesGet(ctf)[category] # NULL
                        /\ id \in ChallengesList(category)
                        /\ GetMetadata(id) # NULL /\ GetMetadata(id).has_archive = GetArchive(id)
    BY DEF Browsable
  <2> DEFINE category == challenges[id].category_id
             ctf      == categories[category].ctf_id
  <2>1. category \in DOMAIN categories /\ ctf \in DOMAIN ctfs
    BY DEF IInv, KeysHold
  <2>2. categories[category].category_type \in ValidCategoryType
    BY <2>1 DEF IInv, TypeOK, CategoryRows
  <2>3. category \in DOMAIN CategoriesGet(ctf) /\ CategoriesGet(ctf)[category] # NULL
    BY <2>1, <2>2, ValidTypesParse DEF CategoriesGet
  <2>4. id \in ChallengesList(category)
    BY DEF ChallengesList
  <2>5. GetMetadata(id) \in Metadata /\ GetMetadata(id).has_archive = GetArchive(id)
    BY DEF GetMetadata, GetArchive, IInv, TypeOK, ChallengeRows, Metadata
  <2>6. GetMetadata(id) # NULL
    BY <2>5, NullAssumption
  <2> QED BY <2>1, <2>3, <2>4, <2>5, <2>6 DEF CtfsList
<1> QED BY <1>1, SpecIInv, PTL

\* start and host_demo send challd the configuration last accepted, and their
\* assertion on the two arrays holds.
THEOREM SpecStartsAsConfigured == Spec => []StartsAsConfigured
<1>1. IInv => StartsAsConfigured
  <2> SUFFICES ASSUME IInv, NEW id \in DOMAIN challenges
               PROVE  /\ ArraysMatch(id)
                      /\ IF meant[id] = NULL
                           THEN challenges[id].docker_image = NULL
                           ELSE /\ challenges[id].docker_image = meant[id].image
                                /\ Range(Mappings(id)) =
                                     {<<n, n, meant[id].ports[n]>> : n \in DOMAIN meant[id].ports}
    BY DEF StartsAsConfigured
  <2>1. CASE meant[id] = NULL
    BY <2>1 DEF IInv, ColumnsEncode, ArraysMatch
  <2>2. CASE meant[id] # NULL
    <3> DEFINE ports == meant[id].ports
               nums  == challenges[id].port_numbers
    <3>1. ports \in PortMaps
      BY <2>2 DEF IInv, TypeOK, Configurations
    <3>2. PICK order \in SetToSeqs(DOMAIN ports) :
            nums = Numbers(order) /\ challenges[id].port_types = Types(order, ports)
      BY <2>2 DEF IInv, ColumnsEncode
    <3>3. challenges[id].docker_image = meant[id].image
      BY <2>2 DEF IInv, ColumnsEncode
    <3> HIDE DEF ports, nums
    <3>4. /\ Len(Numbers(order)) = Len(Types(order, ports))
          /\ DOMAIN nums = DOMAIN order
          /\ {order[k] : k \in DOMAIN order} = DOMAIN ports
      BY <3>1, <3>2, ColumnsOfOrder
    <3>5. ArraysMatch(id)
      BY <3>2, <3>4 DEF ArraysMatch, nums
    <3>6. \A k \in DOMAIN order : order[k] \in Ports
      BY <3>1, <3>4, PortMapTypes
    <3>7. \A k \in DOMAIN order : AsU16(nums[k]) = order[k]
      BY <3>2, <3>6, PortRoundTrip DEF Numbers
    <3>8. \A k \in DOMAIN order : challenges[id].port_types[k] = ports[order[k]]
      BY <3>2 DEF Types
    <3>9. Mappings(id) = [k \in DOMAIN order |-> <<order[k], order[k], ports[order[k]]>>]
      BY <3>4, <3>7, <3>8 DEF Mappings, nums
    <3>10. Range(Mappings(id)) = {<<order[k], order[k], ports[order[k]]>> : k \in DOMAIN order}
      BY <3>9 DEF Range
    <3>11. Range(Mappings(id)) = {<<n, n, ports[n]>> : n \in DOMAIN ports}
      BY <3>4, <3>10
    <3> QED BY <2>2, <3>3, <3>5, <3>11 DEF ports
  <2> QED BY <2>1, <2>2
<1> QED BY <1>1, SpecIInv, PTL

\* configure_docker stays idempotent: the request last accepted would be accepted.
THEOREM SpecRepeatable == Spec => []Repeatable
<1>1. IInv => Repeatable
  <2> SUFFICES ASSUME IInv, NEW id \in DOMAIN challenges, meant[id] # NULL,
                      NEW order \in SetToSeqs(DOMAIN meant[id].ports)
               PROVE  ConfigureDockerStatus(meant[id].by, id, meant[id].image, Numbers(order),
                                            Types(order, meant[id].ports)) = "OK"
    BY DEF Repeatable
  <2>1. MayConfigure(meant[id].by) /\ challenges[id].docker_image = meant[id].image
    BY DEF IInv, ColumnsEncode
  <2>2. meant[id].image \in Names
    BY DEF IInv, TypeOK, Configurations
  <2>3. meant[id].image # LONG /\ meant[id].image # NULL
    BY <2>2, CatalogueAssumption, NullAssumption
  <2>4. ~ImageTaken(id, meant[id].image)
    BY <2>1, <2>3 DEF IInv, ImagesDiffer, ImageTaken
  <2> QED BY <2>1, <2>3, <2>4, ChecksNeverRefuse DEF ConfigureDockerStatus
<1> QED BY <1>1, SpecIInv, PTL

\* No request removes or replaces a CTF or a category, or changes the name, the
\* category or the flag of a challenge: an id is drawn once, and no UPDATE names
\* those columns.
THEOREM SpecIdentityKept == Spec => IdentityKept
<1> DEFINE Kept(row, new) == /\ new.name = row.name /\ new.category_id = row.category_id
                             /\ new.flag = row.flag
           CtfsKept == \A i \in DOMAIN ctfs : i \in DOMAIN ctfs' /\ ctfs'[i] = ctfs[i]
           CategoriesKept ==
               \A i \in DOMAIN categories : i \in DOMAIN categories' /\ categories'[i] = categories[i]
           ChallengesKept ==
               \A i \in DOMAIN challenges :
                   i \in DOMAIN challenges' /\ Kept(challenges[i], challenges'[i])
<1>1. ASSUME IInv, NEW admin, NEW name, NEW start, NEW end, CreateCtf(admin, name, start, end)
      PROVE  CtfsKept /\ CategoriesKept /\ ChallengesKept
  <2>1. serial["ctfs"] \notin DOMAIN ctfs
    BY <1>1, CatalogueAssumption DEF IInv, TypeOK
  <2>2. UNCHANGED <<categories, challenges>>
    BY <1>1 DEF CreateCtf
  <2>3. CtfsKept
    BY <1>1, <2>1 DEF CreateCtf, With
  <2> QED BY <2>2, <2>3
<1>2. ASSUME IInv, NEW admin, NEW name, NEW ctf, NEW type, CreateCategory(admin, name, ctf, type)
      PROVE  CtfsKept /\ CategoriesKept /\ ChallengesKept
  <2>1. serial["categories"] \notin DOMAIN categories
    BY <1>2, CatalogueAssumption DEF IInv, TypeOK
  <2>2. UNCHANGED <<ctfs, challenges>>
    BY <1>2 DEF CreateCategory
  <2>3. CategoriesKept
    BY <1>2, <2>1 DEF CreateCategory, With
  <2> QED BY <2>2, <2>3
<1>3. ASSUME IInv, NEW admin, NEW name, NEW category, NEW flag, NEW instructions, NEW upload,
             CreateChallenge(admin, name, category, flag, instructions, upload)
      PROVE  CtfsKept /\ CategoriesKept /\ ChallengesKept
  <2>1. serial["challenges"] \notin DOMAIN challenges
    BY <1>3, CatalogueAssumption DEF IInv, TypeOK
  <2>2. UNCHANGED <<ctfs, categories>>
    BY <1>3 DEF CreateChallenge
  <2>3. \A i \in DOMAIN challenges : i \in DOMAIN challenges' /\ challenges'[i] = challenges[i]
    BY <1>3, <2>1 DEF CreateChallenge, With
  <2> QED BY <2>2, <2>3
<1>4. ASSUME NEW id, NEW row, Update(id, row),
             id \in DOMAIN challenges => Kept(challenges[id], row)
      PROVE  CtfsKept /\ CategoriesKept /\ ChallengesKept
  <2>1. UNCHANGED <<ctfs, categories>>
    BY <1>4 DEF Update
  <2>2. ChallengesKept
    BY <1>4 DEF Update
  <2> QED BY <2>1, <2>2
<1>5. ASSUME IInv, NEW admin, NEW id, NEW present, SetInstructions(admin, id, present)
      PROVE  CtfsKept /\ CategoriesKept /\ ChallengesKept
  <2> DEFINE row == [challenges[id] EXCEPT !.instructions = present]
  <2>1. id \in DOMAIN challenges => Kept(challenges[id], row)
    BY <1>5 DEF IInv, TypeOK, ChallengeRows
  <2>2. Update(id, row)
    BY <1>5 DEF SetInstructions
  <2> HIDE DEF row, Kept, CtfsKept, CategoriesKept, ChallengesKept
  <2> QED BY <1>4, <2>1, <2>2
<1>6. ASSUME IInv, NEW admin, NEW id, NEW upload, SetArchive(admin, id, upload)
      PROVE  CtfsKept /\ CategoriesKept /\ ChallengesKept
  <2> DEFINE row == [challenges[id] EXCEPT !.archive = (upload = "zip")]
  <2>1. id \in DOMAIN challenges => Kept(challenges[id], row)
    BY <1>6 DEF IInv, TypeOK, ChallengeRows
  <2>2. Update(id, row)
    BY <1>6 DEF SetArchive
  <2> HIDE DEF row, Kept, CtfsKept, CategoriesKept, ChallengesKept
  <2> QED BY <1>4, <2>1, <2>2
<1>7. ASSUME IInv, NEW admin, NEW id, NEW image, NEW ports, ConfigureDocker(admin, id, image, ports)
      PROVE  CtfsKept /\ CategoriesKept /\ ChallengesKept
  <2>1. PICK order : Update(id, [challenges[id] EXCEPT !.docker_image = image,
                                                       !.port_numbers = Numbers(order),
                                                       !.port_types = Types(order, ports)])
    BY <1>7 DEF ConfigureDocker
  <2> DEFINE row == [challenges[id] EXCEPT !.docker_image = image,
                                           !.port_numbers = Numbers(order),
                                           !.port_types = Types(order, ports)]
  <2>2. id \in DOMAIN challenges => Kept(challenges[id], row)
    BY <1>7 DEF IInv, TypeOK, ChallengeRows
  <2>3. Update(id, row)
    BY <2>1
  <2> HIDE DEF row, Kept, CtfsKept, CategoriesKept, ChallengesKept
  <2> QED BY <1>4, <2>2, <2>3
<1>8. ASSUME IInv, Next PROVE CtfsKept /\ CategoriesKept /\ ChallengesKept
  <2> HIDE DEF CtfsKept, CategoriesKept, ChallengesKept
  <2> QED BY <1>8, <1>1, <1>2, <1>3, <1>5, <1>6, <1>7 DEF Next
<1>9. IInv /\ Next =>
        /\ \A i \in DOMAIN ctfs : i \in DOMAIN ctfs' /\ ctfs'[i] = ctfs[i]
        /\ \A i \in DOMAIN categories : i \in DOMAIN categories' /\ categories'[i] = categories[i]
        /\ \A i \in DOMAIN challenges :
              /\ i \in DOMAIN challenges'
              /\ challenges'[i].name = challenges[i].name
              /\ challenges'[i].category_id = challenges[i].category_id
              /\ GetFlag(i)' = GetFlag(i)
  BY <1>8 DEF GetFlag
<1> QED BY <1>9, SpecIInv, PTL DEF Spec, IdentityKept
=============================================================================
