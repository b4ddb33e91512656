------------------------------ MODULE Catalogue ------------------------------
(***************************************************************************)
(* The archive itself: CTFs, their categories and their challenges, as the *)
(* routes of ctfs.rs, categories.rs and challenges.rs write and read them  *)
(* and as the migrations constrain them.                                   *)
(*                                                                         *)
(* Every handler executes one SQL statement, which PostgreSQL makes        *)
(* atomic, so a handler is one action; X..Status is the status with which  *)
(* it answers, and a status other than OK or CREATED leaves the tables as  *)
(* they are.  A handler that only reads is an operator: what it answers in *)
(* a state.  A name or an image name fits its column (Names) or does not   *)
(* (LONG); archive, flag and instructions are present or NULL, and fit;    *)
(* the description and the difficulty are left out.                        *)
(***************************************************************************)
EXTENDS Integers, FiniteSets, SequencesExt

CONSTANTS Names,          \* names and image names that fit their columns
          LONG,           \* one that does not
          Days,           \* calendar days, ordered; NODAY is a date that is none
          NODAY,
          Admins,         \* the permissions of an admin token
          CategoryTypes,  \* the types of category asked for
          PortMaps,       \* what ExposePorts may hold: port -> "tcp" or "udp"
          PortSpace,      \* 2^16, the number of ports
          PortLimit,      \* the 10 of limited_port_number
          MaxSerial,      \* bounds on the ids drawn, per table
          MaxDrawn,       \* and of all tables together
          NULL

Permissions == {"can_docker", "can_create", "can_invite", "can_host_demo"}
PortTypes == {"tcp", "udp"}
\* The variants of CategoryType, and valid_category_type on the column that stores them.
CategoryNames == {"Reversing", "Exploitation", "Web", "Cryptography", "Stegonography", "Forensics",
                  "Miscellaneous"}
ValidCategoryType == {"rev", "pwn", "web", "crypto", "stego", "forensics", "misc"}

ASSUME CatalogueAssumption ==
    /\ Days \subseteq Nat /\ NODAY \notin Days
    /\ LONG \notin Names
    /\ Admins \subseteq SUBSET Permissions
    /\ CategoryTypes \subseteq CategoryNames
    /\ PortSpace \in Nat \ {0} /\ PortSpace % 2 = 0 /\ PortLimit \in Nat
    /\ \A p \in PortMaps : DOMAIN p \subseteq 0..(PortSpace - 1) /\ Range(p) \subseteq PortTypes
    /\ MaxSerial \in [{"ctfs", "categories", "challenges"} -> Nat] /\ MaxDrawn \in Nat

\* The rows of the tables (schema.rs), what the history keeps of a configuration and
\* what get_metadata answers.
CtfRows == [name : Names, start_date : Days, end_date : Days]
CategoryRows == [name : Names, ctf_id : Nat, category_type : ValidCategoryType]
SignedPorts == (-(PortSpace \div 2))..((PortSpace \div 2) - 1)
ChallengeRows ==
    [name : Names, category_id : Nat, flag : BOOLEAN, archive : BOOLEAN, instructions : BOOLEAN,
     docker_image : Names \cup {NULL}, port_numbers : Seq(SignedPorts), port_types : Seq(PortTypes)]
Configurations == [image : Names, ports : PortMaps, by : Admins]
Metadata == [id : Nat, name : Names, category_id : Nat, connection_instructions : BOOLEAN,
             has_archive : BOOLEAN]

\* NULL is none of the values it is told apart from.
ASSUME NullAssumption ==
    NULL \notin Names /\ NULL \notin CategoryNames /\ NULL \notin Configurations /\ NULL \notin Metadata

VARIABLES ctfs, categories, challenges,  \* the tables: id -> row
          serial,                        \* the next id of each table
          meant                          \* history: the last docker configuration
                                         \* that was answered OK, per challenge
tables == <<ctfs, categories, challenges>>
vars   == <<tables, serial, meant>>

With(table, i, row) == [j \in DOMAIN table \cup {i} |-> IF j = i THEN row ELSE table[j]]

\* The bounds leave another id of table t.
WithinBounds(t) ==
    /\ serial[t] <= MaxSerial[t]
    /\ (serial["ctfs"] - 1) + (serial["categories"] - 1) + (serial["challenges"] - 1) < MaxDrawn

\* INSERT ... RETURNING id, where status is what the handler makes of the result.
\* A failing insert may have drawn an id from the sequence.
SerialReused(t, status) ==                       \* seeded fault: the lowest free id
    serial' = IF status = "CREATED" THEN [serial EXCEPT ![t] = 1] ELSE serial
DrawSerial(t, status) ==
    \/ serial' = [serial EXCEPT ![t] = @ + 1]
    \/ status # "CREATED" /\ UNCHANGED serial

Init ==
    /\ ctfs = << >> /\ categories = << >> /\ challenges = << >>
    /\ serial = [t \in DOMAIN MaxSerial |-> 1]
    /\ meant = << >>
-----------------------------------------------------------------------------
(* CTFs.                                                                   *)

\* Date::try_into().unwrap() panics on a date that is no day, ends_after_start is
\* a CHECK, name is UNIQUE.
CreateCtfStatus(admin, name, start, end) ==
    IF "can_create" \notin admin THEN "FORBIDDEN"
    ELSE IF NODAY \in {start, end} THEN "reset"
    ELSE IF name = LONG \/ end < start THEN "INTERNAL_SERVER_ERROR"
    ELSE IF \E i \in DOMAIN ctfs : ctfs[i].name = name THEN "CONFLICT"
    ELSE "CREATED"

CreateCtf(admin, name, start, end) ==
    LET status == CreateCtfStatus(admin, name, start, end) IN
    /\ WithinBounds("ctfs")
    /\ status \notin {"FORBIDDEN", "reset"}
    /\ DrawSerial("ctfs", status)
    /\ ctfs' = IF status = "CREATED"
                 THEN With(ctfs, serial["ctfs"], [name |-> name, start_date |-> start, end_date |-> end])
                 ELSE ctfs
    /\ UNCHANGED <<categories, challenges, meant>>

\* ctfs::list.
CtfsList == DOMAIN ctfs
-----------------------------------------------------------------------------
(* Categories.                                                             *)

\* CategoryType::as_str and CategoryType::parse.
AsStr == [Reversing |-> "rev", Exploitation |-> "pwn", Web |-> "web", Cryptography |-> "crypto",
          Stegonography |-> "stego", Forensics |-> "forensics", Miscellaneous |-> "misc"]

ParseWithoutStego(s) ==                          \* seeded fault: an arm is missing
    CASE s = "rev" -> "Reversing" [] s = "pwn" -> "Exploitation" [] s = "web" -> "Web"
      [] s = "crypto" -> "Cryptography" [] s = "forensics" -> "Forensics"
      [] s = "misc" -> "Miscellaneous" [] OTHER -> NULL

Parse(s) ==
    CASE s = "rev" -> "Reversing" [] s = "pwn" -> "Exploitation" [] s = "web" -> "Web"
      [] s = "crypto" -> "Cryptography" [] s = "stego" -> "Stegonography"
      [] s = "forensics" -> "Forensics" [] s = "misc" -> "Miscellaneous" [] OTHER -> NULL

\* The column constraint makes name UNIQUE over all CTFs; the uniqueness is checked
\* before the foreign key.
CreateCategoryStatus(admin, name, ctf, type) ==
    IF "can_create" \notin admin THEN "FORBIDDEN"
    ELSE IF name = LONG \/ AsStr[type] \notin ValidCategoryType THEN "INTERNAL_SERVER_ERROR"
    ELSE IF \E i \in DOMAIN categories : categories[i].name = name THEN "CONFLICT"
    ELSE IF ctf \notin DOMAIN ctfs THEN "NOT_FOUND"
    ELSE "CREATED"

CreateCategory(admin, name, ctf, type) ==
    LET status == CreateCategoryStatus(admin, name, ctf, type) IN
    /\ WithinBounds("categories")
    /\ status # "FORBIDDEN"
    /\ DrawSerial("categories", status)
    /\ categories' = IF status = "CREATED"
                       THEN With(categories, serial["categories"],
                                 [name |-> name, ctf_id |-> ctf, category_type |-> AsStr[type]])
                       ELSE categories
    /\ UNCHANGED <<ctfs, challenges, meant>>

\* categories::get; a type that does not parse would be a panic (NULL here).
CategoriesGet(ctf) ==
    LET found == {i \in DOMAIN categories : categories[i].ctf_id = ctf}
    IN  [i \in found |-> Parse(categories[i].category_type)]
-----------------------------------------------------------------------------
(* Challenges.                                                             *)

\* Seeded fault: a category that does not exist is not noticed.
CreateChallengeStatusNoKey(admin, name, category, upload) ==
    IF "can_create" \notin admin THEN "FORBIDDEN" ELSE IF upload = "bad" THEN "BAD_REQUEST"
    ELSE IF name = LONG THEN "INTERNAL_SERVER_ERROR" ELSE "CREATED"

\* upload is what the multipart body holds.
CreateChallengeStatus(admin, name, category, upload) ==
    IF "can_create" \notin admin THEN "FORBIDDEN"
    ELSE IF upload = "bad" THEN "BAD_REQUEST"
    ELSE IF name = LONG THEN "INTERNAL_SERVER_ERROR"
    ELSE IF \E i \in DOMAIN challenges :
               challenges[i].name = name /\ challenges[i].category_id = category THEN "CONFLICT"
    ELSE IF category \notin DOMAIN categories THEN "NOT_FOUND"
    ELSE "CREATED"

\* NewChallenge: no image and no ports.
NewChallenge(name, category, flag, instructions, upload) ==
    [name |-> name, category_id |-> category, flag |-> flag, archive |-> upload = "zip",
     instructions |-> instructions, docker_image |-> NULL, port_numbers |-> << >>, port_types |-> << >>]

CreateChallenge(admin, name, category, flag, instructions, upload) ==
    LET status == CreateChallengeStatus(admin, name, category, upload)
        id     == serial["challenges"]
    IN
    /\ WithinBounds("challenges")
    /\ status \notin {"FORBIDDEN", "BAD_REQUEST"}
    /\ DrawSerial("challenges", status)
    /\ \/ /\ status = "CREATED"
          /\ challenges' = With(challenges, id, NewChallenge(name, category, flag, instructions, upload))
          /\ meant' = With(meant, id, NULL)
       \/ status # "CREATED" /\ UNCHANGED <<challenges, meant>>
    /\ UNCHANGED <<ctfs, categories>>

\* An UPDATE of an id without a row succeeds and changes nothing.
Update(id, row) ==
    /\ challenges' = IF id \in DOMAIN challenges THEN [challenges EXCEPT ![id] = row] ELSE challenges
    /\ UNCHANGED <<ctfs, categories, serial>>

\* set_connection_instructions and set_archive.
SetInstructions(admin, id, present) ==
    /\ "can_create" \in admin
    /\ Update(id, [challenges[id] EXCEPT !.instructions = present])
    /\ UNCHANGED meant

SetArchive(admin, id, upload) ==
    /\ "can_create" \in admin
    /\ upload # "bad"
    /\ Update(id, [challenges[id] EXCEPT !.archive = (upload = "zip")])
    /\ UNCHANGED meant
-----------------------------------------------------------------------------
(* The docker configuration of a challenge, and how start uses it.         *)

\* `n as i16` and `n as u16`.
AsI16Unsigned(n) == n                            \* seeded fault: not converted
AsI16(n) == IF n < PortSpace \div 2 THEN n ELSE n - PortSpace
AsU16Clamped(n) == IF n < 0 THEN 0 ELSE n        \* seeded fault: a checked conversion
AsU16(n) == n % PortSpace

\* PostgreSQL's array_length: arrays have dimensions from 1, and none if empty.
ArrayLength(a, dim) == IF dim = 1 /\ a # << >> THEN Len(a) ELSE NULL

\* limited_port_number and has_port_types; a CHECK that is NULL is not violated.
ChecksHold(nums, types) ==
    LET n == ArrayLength(nums, 0)
        t == ArrayLength(types, 0)
    IN  /\ n = NULL \/ n < PortLimit
        /\ n = NULL \/ t = NULL \/ n = t

\* Seeded fault: the image is looked for in every row, the challenge's own too.
ImageTakenByAny(id, image) == \E i \in DOMAIN challenges : challenges[i].docker_image = image
\* docker_image is UNIQUE.
ImageTaken(id, image) == \E i \in DOMAIN challenges \ {id} : challenges[i].docker_image = image

MayConfigure(admin) == "can_docker" \in admin

\* (For an id without a row it depends on PostgreSQL's plan whether an image name
\* that does not fit is noticed; nothing is stored either way.)
ConfigureDockerStatus(admin, id, image, nums, types) ==
    IF ~MayConfigure(admin) THEN "FORBIDDEN"
    ELSE IF id \notin DOMAIN challenges THEN "OK"
    ELSE IF image = LONG THEN "INTERNAL_SERVER_ERROR"
    ELSE IF ~ChecksHold(nums, types) THEN "BAD_REQUEST"
    ELSE IF ImageTaken(id, image) THEN "CONFLICT"
    ELSE "OK"

\* The two columns made of a port map, whose iteration order is arbitrary.
Numbers(order) == [k \in DOMAIN order |-> AsI16(order[k])]
Types(order, ports) == [k \in DOMAIN order |-> ports[order[k]]]

ConfigureDocker(admin, id, image, ports) ==
    \E order \in SetToSeqs(DOMAIN ports) :
        /\ ConfigureDockerStatus(admin, id, image, Numbers(order), Types(order, ports)) = "OK"
        /\ Update(id, [challenges[id] EXCEPT !.docker_image = image,
                                             !.port_numbers = Numbers(order),
                                             !.port_types = Types(order, ports)])
        /\ meant' = IF id \in DOMAIN challenges
                      THEN [meant EXCEPT ![id] = [image |-> image, ports |-> ports, by |-> admin]]
                      ELSE meant

\* The port mappings start and host_demo send to challd: (from, to, type).
Mappings(id) ==
    LET row == challenges[id]
    IN  [k \in DOMAIN row.port_numbers |->
            <<AsU16(row.port_numbers[k]), AsU16(row.port_numbers[k]), row.port_types[k]>>]

\* The assertions of start and host_demo before they zip the two arrays.
ArraysMatch(id) == Len(challenges[id].port_numbers) = Len(challenges[id].port_types)
-----------------------------------------------------------------------------
(* What the reading routes of challenges.rs answer.                        *)

ChallengesList(category) == {i \in DOMAIN challenges : challenges[i].category_id = category}

GetMetadata(id) ==
    IF id \notin DOMAIN challenges THEN NULL     \* NOT_FOUND
    ELSE [id |-> id, name |-> challenges[id].name, category_id |-> id,
          connection_instructions |-> challenges[id].instructions,
          has_archive |-> challenges[id].archive]

\* An archive that is NULL is an empty body, a flag that is NULL is NOT_FOUND.
GetArchive(id) == IF id \notin DOMAIN challenges THEN NULL ELSE challenges[id].archive
GetFlag(id) == IF id \notin DOMAIN challenges \/ ~challenges[id].flag THEN NULL ELSE TRUE
-----------------------------------------------------------------------------
\* Ids a request may name: those drawn and one that was not.
Ids(t) == 1..MaxSerial[t]
Uploads == {"none", "zip", "bad"}

\* The requests that write, by admins of any permissions.
Next == \E admin \in Admins :
    \/ \E name \in Names \cup {LONG}, start, end \in Days \cup {NODAY} :
          CreateCtf(admin, name, start, end)
    \/ \E name \in Names \cup {LONG}, ctf \in Ids("ctfs"), type \in CategoryTypes :
          CreateCategory(admin, name, ctf, type)
    \/ \E name \in Names \cup {LONG}, category \in Ids("categories"),
          flag, instructions \in BOOLEAN, upload \in Uploads :
             CreateChallenge(admin, name, category, flag, instructions, upload)
    \/ \E id \in Ids("challenges") :
          \/ \E present \in BOOLEAN : SetInstructions(admin, id, present)
          \/ \E upload \in Uploads : SetArchive(admin, id, upload)
          \/ \E image \in Names \cup {LONG}, ports \in PortMaps :
                ConfigureDocker(admin, id, image, ports)

Spec == Init /\ [][Next]_vars
-----------------------------------------------------------------------------
Ports == 0..(PortSpace - 1)

\* Rows have the types of schema.rs, and ids have been drawn.
TypeOK ==
    /\ serial \in [DOMAIN MaxSerial -> Nat]
    /\ \A i \in DOMAIN ctfs : i \in Nat /\ i < serial["ctfs"] /\ ctfs[i] \in CtfRows
    /\ \A i \in DOMAIN categories :
          i \in Nat /\ i < serial["categories"] /\ categories[i] \in CategoryRows
    /\ \A i \in DOMAIN challenges :
          i \in Nat /\ i < serial["challenges"] /\ challenges[i] \in ChallengeRows
    /\ DOMAIN meant = DOMAIN challenges
    /\ \A i \in DOMAIN meant : meant[i] \in Configurations \cup {NULL}

\* Every challenge can be found the way a visitor looks for it: CTFs, then the
\* categories of one of them, then its challenges, its metadata and, if these say
\* so, its archive; and no step of that search panics on what is stored ("db
\* constraints should guarentee this never panics").
Browsable ==
    \A id \in DOMAIN challenges :
        \E ctf \in CtfsList : \E category \in DOMAIN CategoriesGet(ctf) :
            /\ CategoriesGet(ctf)[category] # NULL
            /\ id \in ChallengesList(category)
            /\ GetMetadata(id) # NULL /\ GetMetadata(id).has_archive = GetArchive(id)

\* start and host_demo pass challd the image and the ports that were last accepted
\* for the challenge, each port with its own protocol, although ports are stored
\* as signed numbers in two arrays; and their assertions never fail.
StartsAsConfigured ==
    \A id \in DOMAIN challenges :
        /\ ArraysMatch(id)
        /\ IF meant[id] = NULL
             THEN challenges[id].docker_image = NULL
             ELSE /\ challenges[id].docker_image = meant[id].image
                  /\ Range(Mappings(id)) = {<<n, n, meant[id].ports[n]>> : n \in DOMAIN meant[id].ports}

\* configure_docker is idempotent, as its comment says: the last request that was
\* accepted for a challenge would be accepted again, whatever was done to other
\* challenges since.
Repeatable ==
    \A id \in DOMAIN challenges : meant[id] # NULL =>
        \A order \in SetToSeqs(DOMAIN meant[id].ports) :
            ConfigureDockerStatus(meant[id].by, id, meant[id].image, Numbers(order),
                                  Types(order, meant[id].ports)) = "OK"

\* An id that was answered CREATED means the same CTF, category or challenge for
\* ever: no request removes or replaces one, or changes its name, its place or its flag.
IdentityKept ==
    [][ /\ \A i \in DOMAIN ctfs : i \in DOMAIN ctfs' /\ ctfs'[i] = ctfs[i]
        /\ \A i \in DOMAIN categories : i \in DOMAIN categories' /\ categories'[i] = categories[i]
        /\ \A i \in DOMAIN challenges :
              /\ i \in DOMAIN challenges'
              /\ challenges'[i].name = challenges[i].name
              /\ challenges'[i].category_id = challenges[i].category_id
              /\ GetFlag(i)' = GetFlag(i) ]_vars
-----------------------------------------------------------------------------
(* The inductive invariant behind the theorems of CatalogueProofs.         *)

\* The foreign keys.
KeysHold ==
    /\ \A i \in DOMAIN categories : categories[i].ctf_id \in DOMAIN ctfs
    /\ \A i \in DOMAIN challenges : challenges[i].category_id \in DOMAIN categories

\* docker_image is UNIQUE, NULL apart.
ImagesDiffer ==
    \A i, j \in DOMAIN challenges :
        challenges[i].docker_image = challenges[j].docker_image /\ challenges[i].docker_image # NULL
            => i = j

\* The three columns of a challenge are what configure_docker made of the last
\* configuration it accepted, in some order of its ports.
ColumnsEncode ==
    \A id \in DOMAIN challenges :
        IF meant[id] = NULL
          THEN /\ challenges[id].docker_image = NULL
               /\ challenges[id].port_numbers = << >> /\ challenges[id].port_types = << >>
          ELSE /\ MayConfigure(meant[id].by)
               /\ challenges[id].docker_image = meant[id].image
               /\ \E order \in SetToSeqs(DOMAIN meant[id].ports) :
                     /\ challenges[id].port_numbers = Numbers(order)
                     /\ challenges[id].port_types = Types(order, meant[id].ports)

IInv == TypeOK /\ KeysHold /\ ImagesDiffer /\ ColumnsEncode
-----------------------------------------------------------------------------
(* What the documentation of the routes says and the code does not keep.   *)

\* challenges.rs, configure_docker: BAD_REQUEST, "too many port mappings supplied",
\* after limited_port_number CHECK (array_length(port_numbers, 0) < 10).
TooManyPortsRefused ==
    \A id \in DOMAIN challenges : Len(challenges[id].port_numbers) < PortLimit

\* challenges.rs, configure_docker: NOT_FOUND, "challenge with requested id doesn't
\* exist".
MissingIsNotFound ==
    \A admin \in Admins, id \in Ids("challenges"), image \in Names, n \in Ports :
        /\ MayConfigure(admin)
        /\ id \notin DOMAIN challenges
        => ConfigureDockerStatus(admin, id, image, <<AsI16(n)>>, <<"tcp">>) = "NOT_FOUND"
=============================================================================
