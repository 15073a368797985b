------------------------- MODULE MigrationScriptProofs -------------------------
(***************************************************************************)
(* What the scripts of SchemaMigrations do, in lemmas about constants:     *)
(* the statements of each script, and how the tables depend on each other. *)
(***************************************************************************)
EXTENDS SchemaMigrations, SequenceTheorems, TLAPS

\* A concatenation has the elements of the first sequence, then those of the
\* second.
LEMMA Concatenated ==
    ASSUME NEW S, NEW s \in Seq(S), NEW t \in Seq(S)
    PROVE  /\ s \o t \in Seq(S) /\ Len(s \o t) = Len(s) + Len(t)
           /\ \A i \in 1 .. Len(s) : (s \o t)[i] = s[i]
           /\ \A i \in 1 .. Len(t) : (s \o t)[Len(s) + i] = t[i]
BY ConcatProperties

\* One more element at the end, or in front.
LEMMA Extended ==
    ASSUME NEW S, NEW s \in Seq(S), NEW x \in S
    PROVE  /\ s \o <<x>> \in Seq(S) /\ Len(s \o <<x>>) = Len(s) + 1
           /\ \A i \in 1 .. Len(s) : (s \o <<x>>)[i] = s[i]
           /\ (s \o <<x>>)[Len(s) + 1] = x
<1>1. <<x>> \in Seq(S) /\ Len(<<x>>) = 1 /\ <<x>>[1] = x
  OBVIOUS
<1>2. s \o <<x>> \in Seq(S)
  BY <1>1, ConcatProperties
<1> QED BY <1>1, <1>2, ConcatProperties

\* One more element in front.
LEMMA Prefixed ==
    ASSUME NEW S, NEW s \in Seq(S), NEW x \in S
    PROVE  /\ <<x>> \o s \in Seq(S) /\ Len(<<x>> \o s) = 1 + Len(s)
           /\ \A i \in 1 .. Len(s) : (<<x>> \o s)[1 + i] = s[i]
           /\ (<<x>> \o s)[1] = x
<1>1. <<x>> \in Seq(S) /\ Len(<<x>>) = 1 /\ <<x>>[1] = x
  OBVIOUS
<1>2. <<x>> \o s \in Seq(S)
  BY <1>1, ConcatProperties
<1> QED BY <1>1, <1>2, ConcatProperties

\* A sequence of two elements.
LEMMA Paired ==
    ASSUME NEW S, NEW x \in S, NEW y \in S
    PROVE  /\ <<x>> \o <<y>> \in Seq(S)
           /\ Len(<<x>> \o <<y>>) > 1 /\ Len(<<x>> \o <<y>>) < 3
           /\ (<<x>> \o <<y>>)[1] = x /\ (<<x>> \o <<y>>)[2] = y
<1>1. /\ <<x>> \o <<y>> \in Seq(S) /\ Len(<<x>> \o <<y>>) = 1 + Len(<<y>>)
      /\ (<<x>> \o <<y>>)[1] = x
      /\ \A i \in 1 .. Len(<<y>>) : (<<x>> \o <<y>>)[1 + i] = <<y>>[i]
  <2>1. <<y>> \in Seq(S) OBVIOUS
  <2> QED BY <2>1, Prefixed
<1>2. Len(<<y>>) = 1 /\ <<y>>[1] = y
  OBVIOUS
<1>3. (<<x>> \o <<y>>)[2] = y
  BY <1>1, <1>2
<1>4. Len(<<x>> \o <<y>>) > 1 /\ Len(<<x>> \o <<y>>) < 3
  BY <1>1
<1> QED BY <1>1, <1>3, <1>4

\* The tables in the order of their creation.
LEMMA TablesAre ==
    /\ Tables \in Seq(Range(CreatedCore) \cup Range(CreatedStudent) \cup Range(CreatedCredit))
    /\ Len(Tables) = Len(CreatedCore) + Len(CreatedStudent) + Len(CreatedCredit)
    /\ \A i \in 1 .. Len(CreatedCore) : Tables[i] = CreatedCore[i]
    /\ \A i \in 1 .. Len(CreatedStudent) :
          Tables[Len(CreatedCore) + i] = CreatedStudent[i]
    /\ \A i \in 1 .. Len(CreatedCredit) :
          Tables[Len(CreatedCore) + Len(CreatedStudent) + i] = CreatedCredit[i]
<1> DEFINE A == CreatedCore
           B == CreatedStudent
           C == CreatedCredit
           U == Range(A) \cup Range(B) \cup Range(C)
<1>1. A \in Seq(Range(A)) /\ B \in Seq(Range(B)) /\ C \in Seq(Range(C))
  BY DEF CreatedCore, CreatedStudent, CreatedCredit, Range
<1>2. A \in Seq(U) /\ B \in Seq(U) /\ C \in Seq(U)
  BY <1>1, SeqMonotonic
<1> HIDE DEF A, B, C, U
<1>4. /\ A \o B \in Seq(U) /\ Len(A \o B) = Len(A) + Len(B)
      /\ \A i \in 1 .. Len(A) : (A \o B)[i] = A[i]
      /\ \A i \in 1 .. Len(B) : (A \o B)[Len(A) + i] = B[i]
  BY <1>2, Concatenated
<1> DEFINE D == A \o B
<1> HIDE DEF D
<1>5. /\ D \o C \in Seq(U) /\ Len(D \o C) = Len(D) + Len(C)
      /\ \A i \in 1 .. Len(D) : (D \o C)[i] = D[i]
      /\ \A i \in 1 .. Len(C) : (D \o C)[Len(D) + i] = C[i]
  BY <1>2, <1>4, Concatenated DEF D
<1>6. Tables = D \o C
  BY DEF Tables, A, B, C, D
<1>7. Len(A) \in Nat /\ Len(B) \in Nat /\ Len(C) \in Nat
  BY <1>2
<1> QED BY <1>4, <1>5, <1>6, <1>7 DEF D, A, B, C, U

CoreNames == {"countries", "users", "roles", "institutions", "user_roles", "programs",
              "courses"}

StudentNames == {"students", "student_profiles", "enrolment_applications",
                 "previous_educations", "previous_courses", "qualifications",
                 "external_profile_links", "student_documents"}

CreditNames == {"credit_mapping_requests", "credit_mapping_evidence",
                "credit_mapping_decisions", "historical_credit_mappings"}

TableNames == CoreNames \cup StudentNames \cup CreditNames

TypeNames == {"role_name", "institution_type", "student_status", "credit_system",
              "enrolment_application_status", "external_profile_type",
              "student_document_type", "student_document_status",
              "credit_mapping_request_status", "credit_mapping_decision_value"}

Domain == TableNames \cup TypeNames

\* Tables, types, the column and the table of Alembic have names of their own.
LEMMA NamesDiffer ==
    /\ CoreNames \cap StudentNames = {} /\ CoreNames \cap CreditNames = {}
    /\ StudentNames \cap CreditNames = {} /\ TableNames \cap TypeNames = {}
    /\ Hash \notin Domain /\ VersionTable \notin Domain /\ Hash # VersionTable
    /\ "users" \in TableNames /\ "countries" \in TableNames /\ "roles" \in TableNames
BY DEF CoreNames, StudentNames, CreditNames, TableNames, TypeNames, Domain, Hash,
       VersionTable

\* Each of the three parts of revision 0002 creates tables of different names.
LEMMA CoreAre ==
    /\ DOMAIN CreatedCore = 1 .. Len(CreatedCore) /\ Len(CreatedCore) \in Nat
    /\ \A i, j \in 1 .. Len(CreatedCore) :
          CreatedCore[i].name = CreatedCore[j].name => i = j
    /\ {CreatedCore[i].name : i \in 1 .. Len(CreatedCore)} = CoreNames
BY DEF CreatedCore, CoreNames, Table

\* The second part: students and what they hand in.
LEMMA StudentAre ==
    /\ DOMAIN CreatedStudent = 1 .. Len(CreatedStudent) /\ Len(CreatedStudent) \in Nat
    /\ \A i, j \in 1 .. Len(CreatedStudent) :
          CreatedStudent[i].name = CreatedStudent[j].name => i = j
    /\ {CreatedStudent[i].name : i \in 1 .. Len(CreatedStudent)} = StudentNames
BY DEF CreatedStudent, StudentNames, Table

\* The third part: credit mapping.
LEMMA CreditAre ==
    /\ DOMAIN CreatedCredit = 1 .. Len(CreatedCredit) /\ Len(CreatedCredit) \in Nat
    /\ \A i, j \in 1 .. Len(CreatedCredit) :
          CreatedCredit[i].name = CreatedCredit[j].name => i = j
    /\ {CreatedCredit[i].name : i \in 1 .. Len(CreatedCredit)} = CreditNames
BY DEF CreatedCredit, CreditNames, Table

\* The enum types, likewise.
LEMMA TypesAre ==
    /\ CreatedTypes \in Seq(Range(CreatedTypes)) /\ Len(CreatedTypes) > 0
    /\ \A i, j \in 1 .. Len(CreatedTypes) :
          CreatedTypes[i].name = CreatedTypes[j].name => i = j
    /\ {CreatedTypes[i].name : i \in 1 .. Len(CreatedTypes)} = TypeNames
<1>1. CreatedTypes \in Seq(Range(CreatedTypes)) /\ Len(CreatedTypes) = 10
  BY DEF CreatedTypes, Range
<1>2. /\ CreatedTypes[1].name = "role_name"
      /\ CreatedTypes[2].name = "institution_type"
      /\ CreatedTypes[3].name = "student_status"
      /\ CreatedTypes[4].name = "credit_system"
      /\ CreatedTypes[5].name = "enrolment_application_status"
      /\ CreatedTypes[6].name = "external_profile_type"
      /\ CreatedTypes[7].name = "student_document_type"
      /\ CreatedTypes[8].name = "student_document_status"
      /\ CreatedTypes[9].name = "credit_mapping_request_status"
      /\ CreatedTypes[10].name = "credit_mapping_decision_value"
  BY DEF CreatedTypes, Type
<1> QED BY <1>1, <1>2 DEF TypeNames

\* A table is created by one of the three parts.
LEMMA TablePositions ==
    LET a == Len(CreatedCore)
        b == Len(CreatedStudent)
        c == Len(CreatedCredit)
    IN  \A k \in 1 .. Len(Tables) : \/ k \in 1 .. a
                                    \/ \E i \in 1 .. b : k = a + i
                                    \/ \E i \in 1 .. c : k = a + b + i
<1> DEFINE a == Len(CreatedCore)
           b == Len(CreatedStudent)
           c == Len(CreatedCredit)
<1>1. a \in Nat /\ b \in Nat /\ c \in Nat /\ Len(Tables) = a + b + c
  BY CoreAre, StudentAre, CreditAre, TablesAre
<1> HIDE DEF a, b, c
<1>2. ASSUME NEW k \in 1 .. Len(Tables)
      PROVE  \/ k \in 1 .. a
             \/ \E i \in 1 .. b : k = a + i
             \/ \E i \in 1 .. c : k = a + b + i
  <2>1. CASE k <= a BY <2>1, <1>1
  <2>2. CASE k > a /\ k <= a + b
    <3>1. k - a \in 1 .. b /\ k = a + (k - a) BY <2>2, <1>1
    <3> QED BY <3>1
  <2>3. CASE k > a + b
    <3>1. k - (a + b) \in 1 .. c /\ k = a + b + (k - (a + b)) BY <2>3, <1>1
    <3> QED BY <3>1
  <2> QED BY <2>1, <2>2, <2>3, <1>1
<1> QED BY <1>2 DEF a, b, c

\* Distinct positions in Tables hold distinct names, those of TableNames.
LEMMA TableNamesDiffer ==
    /\ Len(Tables) \in Nat /\ DOMAIN Tables = 1 .. Len(Tables)
    /\ \A j, k \in 1 .. Len(Tables) : Tables[j].name = Tables[k].name => j = k
    /\ {Tables[k].name : k \in 1 .. Len(Tables)} = TableNames
<1> DEFINE a == Len(CreatedCore)
           b == Len(CreatedStudent)
           c == Len(CreatedCredit)
<1>1. a \in Nat /\ b \in Nat /\ c \in Nat
  BY CoreAre, StudentAre, CreditAre
<1>2. /\ \A i \in 1 .. a : Tables[i] = CreatedCore[i] /\ CreatedCore[i].name \in CoreNames
      /\ \A i \in 1 .. b :
            Tables[a + i] = CreatedStudent[i] /\ CreatedStudent[i].name \in StudentNames
      /\ \A i \in 1 .. c :
            Tables[a + b + i] = CreatedCredit[i] /\ CreatedCredit[i].name \in CreditNames
  BY TablesAre, CoreAre, StudentAre, CreditAre
<1>3. Len(Tables) = a + b + c /\ DOMAIN Tables = 1 .. Len(Tables)
  BY TablesAre
<1> HIDE DEF a, b, c
<1>4. ASSUME NEW k \in 1 .. Len(Tables)
      PROVE  \/ k \in 1 .. a
             \/ \E i \in 1 .. b : k = a + i
             \/ \E i \in 1 .. c : k = a + b + i
  BY TablePositions DEF a, b, c
<1>5. ASSUME NEW j \in 1 .. Len(Tables), NEW k \in 1 .. Len(Tables),
             Tables[j].name = Tables[k].name
      PROVE  j = k
  <2>1. CASE j \in 1 .. a
    <3>1. CreatedCore[j].name \in CoreNames /\ Tables[k].name = CreatedCore[j].name
      BY <2>1, <1>2, <1>5
    <3>2. k \in 1 .. a
      BY <3>1, <1>2, <1>4, NamesDiffer
    <3>3. CreatedCore[k].name = CreatedCore[j].name
      BY <3>1, <3>2, <1>2
    <3> QED BY <2>1, <3>2, <3>3, CoreAre DEF a
  <2>2. ASSUME NEW i \in 1 .. b, j = a + i
        PROVE  j = k
    <3>1. CreatedStudent[i].name \in StudentNames /\ Tables[k].name = CreatedStudent[i].name
      BY <2>2, <1>2, <1>5
    <3>2. PICK l \in 1 .. b : k = a + l
      BY <3>1, <1>2, <1>4, NamesDiffer
    <3>3. CreatedStudent[l].name = CreatedStudent[i].name
      BY <3>1, <3>2, <1>2
    <3>4. i = l
      BY <3>3, StudentAre DEF b
    <3> QED BY <2>2, <3>2, <3>4
  <2>3. ASSUME NEW i \in 1 .. c, j = a + b + i
        PROVE  j = k
    <3>1. CreatedCredit[i].name \in CreditNames /\ Tables[k].name = CreatedCredit[i].name
      BY <2>3, <1>2, <1>5
    <3>2. PICK l \in 1 .. c : k = a + b + l
      <4>1. Tables[k].name \notin CoreNames /\ Tables[k].name \notin StudentNames
        BY <3>1, NamesDiffer
      <4>2. k \notin 1 .. a
        BY <4>1, <1>2
      <4>3. ~\E l \in 1 .. b : k = a + l
        BY <4>1, <1>2
      <4> QED BY <4>2, <4>3, <1>4
    <3>3. CreatedCredit[l].name = CreatedCredit[i].name
      BY <3>1, <3>2, <1>2
    <3>4. i = l
      BY <3>3, CreditAre DEF c
    <3> QED BY <2>3, <3>2, <3>4
  <2> QED BY <2>1, <2>2, <2>3, <1>4
<1>6. ASSUME NEW n \in TableNames
      PROVE  \E k \in 1 .. Len(Tables) : n = Tables[k].name
  <2>1. CASE n \in CoreNames
    <3>1. PICK i \in 1 .. a : n = CreatedCore[i].name BY <2>1, CoreAre DEF a
    <3>2. i \in 1 .. Len(Tables) BY <1>1, <1>3
    <3> QED BY <3>1, <3>2, <1>2
  <2>2. CASE n \in StudentNames
    <3>1. PICK i \in 1 .. b : n = CreatedStudent[i].name BY <2>2, StudentAre DEF b
    <3>2. a + i \in 1 .. Len(Tables) BY <1>1, <1>3
    <3> QED BY <3>1, <3>2, <1>2
  <2>3. CASE n \in CreditNames
    <3>1. PICK i \in 1 .. c : n = CreatedCredit[i].name BY <2>3, CreditAre DEF c
    <3>2. a + b + i \in 1 .. Len(Tables) BY <1>1, <1>3
    <3> QED BY <3>1, <3>2, <1>2
  <2> QED BY <2>1, <2>2, <2>3 DEF TableNames
<1>7. ASSUME NEW k \in 1 .. Len(Tables)
      PROVE  Tables[k].name \in TableNames
  BY <1>4, <1>2 DEF TableNames
<1>8. Len(Tables) \in Nat /\ DOMAIN Tables = 1 .. Len(Tables)
  BY <1>1, <1>3
<1> QED BY <1>5, <1>6, <1>7, <1>8

\* A table references tables that are created before it, and has columns of
\* types of the schema.
LEMMA CoreOrdered ==
    \A i \in 1 .. Len(CreatedCore) :
        /\ \A n \in CreatedCore[i].references :
              \E j \in 1 .. Len(CreatedCore) : j < i /\ CreatedCore[j].name = n
        /\ CreatedCore[i].types \subseteq TypeNames
BY DEF CreatedCore, Table, TypeNames

\* A table of the second part is created after those it references.
LEMMA StudentOrdered ==
    \A i \in 1 .. Len(CreatedStudent) :
        /\ \A n \in CreatedStudent[i].references :
              \/ n \in CoreNames
              \/ \E j \in 1 .. Len(CreatedStudent) : j < i /\ CreatedStudent[j].name = n
        /\ CreatedStudent[i].types \subseteq TypeNames
BY DEF CreatedStudent, Table, TypeNames, CoreNames

\* A table of the third part is created after those it references.
LEMMA CreditOrdered ==
    \A i \in 1 .. Len(CreatedCredit) :
        /\ \A n \in CreatedCredit[i].references :
              \/ n \in CoreNames \cup StudentNames
              \/ \E j \in 1 .. Len(CreatedCredit) : j < i /\ CreatedCredit[j].name = n
        /\ CreatedCredit[i].types \subseteq TypeNames
BY DEF CreatedCredit, Table, TypeNames, CoreNames, StudentNames

\* The creation order of 0002 respects every foreign key.
LEMMA TablesOrdered ==
    \A k \in 1 .. Len(Tables) :
        /\ \A n \in Tables[k].references :
              \E j \in 1 .. Len(Tables) : j < k /\ Tables[j].name = n
        /\ Tables[k].types \subseteq TypeNames
<1> DEFINE a == Len(CreatedCore)
           b == Len(CreatedStudent)
           c == Len(CreatedCredit)
<1>1. a \in Nat /\ b \in Nat /\ c \in Nat /\ Len(Tables) = a + b + c
  BY CoreAre, StudentAre, CreditAre, TablesAre
<1>2. /\ \A i \in 1 .. a : Tables[i] = CreatedCore[i]
      /\ \A i \in 1 .. b : Tables[a + i] = CreatedStudent[i]
      /\ \A i \in 1 .. c : Tables[a + b + i] = CreatedCredit[i]
  BY TablesAre
<1> HIDE DEF a, b, c
<1>3. \A n \in CoreNames : \E j \in 1 .. a : Tables[j].name = n
  <2> SUFFICES ASSUME NEW n \in CoreNames
               PROVE  \E j \in 1 .. a : Tables[j].name = n
    OBVIOUS
  <2>1. PICK j \in 1 .. a : CreatedCore[j].name = n BY CoreAre DEF a
  <2> QED BY <2>1, <1>2
<1>4. \A n \in StudentNames : \E j \in 1 .. b : Tables[a + j].name = n
  <2> SUFFICES ASSUME NEW n \in StudentNames
               PROVE  \E j \in 1 .. b : Tables[a + j].name = n
    OBVIOUS
  <2>1. PICK j \in 1 .. b : CreatedStudent[j].name = n BY StudentAre DEF b
  <2> QED BY <2>1, <1>2
<1>5. ASSUME NEW i \in 1 .. a, NEW n \in Tables[i].references
      PROVE  \E j \in 1 .. Len(Tables) : j < i /\ Tables[j].name = n
  <2>1. PICK j \in 1 .. a : j < i /\ CreatedCore[j].name = n
    BY <1>2, CoreOrdered DEF a
  <2>2. j \in 1 .. Len(Tables) BY <1>1
  <2> QED BY <2>1, <2>2, <1>2
<1>6. ASSUME NEW i \in 1 .. b, NEW n \in Tables[a + i].references
      PROVE  \E j \in 1 .. Len(Tables) : j < a + i /\ Tables[j].name = n
  <2>1. \/ n \in CoreNames
        \/ \E j \in 1 .. b : j < i /\ CreatedStudent[j].name = n
    BY <1>2, StudentOrdered DEF b
  <2>2. CASE n \in CoreNames
    <3>1. PICK j \in 1 .. a : Tables[j].name = n BY <2>2, <1>3
    <3>2. j \in 1 .. Len(Tables) /\ j < a + i BY <1>1
    <3> QED BY <3>1, <3>2
  <2>3. ASSUME NEW j \in 1 .. b, j < i /\ CreatedStudent[j].name = n
        PROVE  \E l \in 1 .. Len(Tables) : l < a + i /\ Tables[l].name = n
    <3>1. a + j \in 1 .. Len(Tables) /\ a + j < a + i BY <2>3, <1>1
    <3> QED BY <3>1, <2>3, <1>2
  <2> QED BY <2>1, <2>2, <2>3
<1>7. ASSUME NEW i \in 1 .. c, NEW n \in Tables[a + b + i].references
      PROVE  \E j \in 1 .. Len(Tables) : j < a + b + i /\ Tables[j].name = n
  <2>1. \/ n \in CoreNames \cup StudentNames
        \/ \E j \in 1 .. c : j < i /\ CreatedCredit[j].name = n
    BY <1>2, CreditOrdered DEF c
  <2>2. CASE n \in CoreNames
    <3>1. PICK j \in 1 .. a : Tables[j].name = n BY <2>2, <1>3
    <3>2. j \in 1 .. Len(Tables) /\ j < a + b + i BY <1>1
    <3> QED BY <3>1, <3>2
  <2>3. CASE n \in StudentNames
    <3>1. PICK j \in 1 .. b : Tables[a + j].name = n BY <2>3, <1>4
    <3>2. a + j \in 1 .. Len(Tables) /\ a + j < a + b + i BY <1>1
    <3> QED BY <3>1, <3>2
  <2>4. ASSUME NEW j \in 1 .. c, j < i /\ CreatedCredit[j].name = n
        PROVE  \E l \in 1 .. Len(Tables) : l < a + b + i /\ Tables[l].name = n
    <3>1. a + b + j \in 1 .. Len(Tables) /\ a + b + j < a + b + i BY <2>4, <1>1
    <3> QED BY <3>1, <2>4, <1>2
  <2> QED BY <2>1, <2>2, <2>3, <2>4
<1>8. ASSUME NEW k \in 1 .. Len(Tables)
      PROVE  \/ k \in 1 .. a
             \/ \E i \in 1 .. b : k = a + i
             \/ \E i \in 1 .. c : k = a + b + i
  BY TablePositions DEF a, b, c
<1>9. /\ \A i \in 1 .. a : Tables[i].types \subseteq TypeNames
      /\ \A i \in 1 .. b : Tables[a + i].types \subseteq TypeNames
      /\ \A i \in 1 .. c : Tables[a + b + i].types \subseteq TypeNames
  BY <1>2, CoreOrdered, StudentOrdered, CreditOrdered DEF a, b, c
<1> QED BY <1>5, <1>6, <1>7, <1>8, <1>9

\* The tables are those of the three parts.
LEMMA TablesRange ==
    Range(Tables) = Range(CreatedCore) \cup Range(CreatedStudent) \cup Range(CreatedCredit)
<1>1. /\ CreatedCore \in Seq(Range(CreatedCore))
      /\ CreatedStudent \in Seq(Range(CreatedStudent))
      /\ CreatedCredit \in Seq(Range(CreatedCredit))
  BY DEF CreatedCore, CreatedStudent, CreatedCredit, Range
<1> DEFINE A == CreatedCore
           B == CreatedStudent
           C == CreatedCredit
           U == Range(A) \cup Range(B) \cup Range(C)
<1>2. A \in Seq(U) /\ B \in Seq(U) /\ C \in Seq(U)
  BY <1>1, SeqMonotonic
<1> HIDE DEF A, B, C, U
<1>3. A \o B \in Seq(U) /\ Range(A \o B) = Range(A) \cup Range(B)
  BY <1>2, ConcatProperties, RangeConcatenation
<1> DEFINE D == A \o B
<1> HIDE DEF D
<1>4. D \in Seq(U)
  BY <1>3 DEF D
<1>5. Range(D \o C) = Range(D) \cup Range(C)
  BY <1>2, <1>4, RangeConcatenation
<1> QED BY <1>3, <1>5 DEF Tables, A, B, C, D

\* The migrations create what the entities declare, and nothing else.
LEMMA EntitiesAre ==
    /\ Range(Tables) = Entities
    /\ Range(CreatedTypes) = EnumTypes
    /\ {e.name : e \in Entities \cup EnumTypes} = Domain
<1>1. Range(CreatedCore) = AccountEntities \cup PlaceEntities \cup CatalogueEntities
  BY DEF Range, CreatedCore, AccountEntities, PlaceEntities, CatalogueEntities
<1>2. Range(CreatedStudent) \cup Range(CreatedCredit)
        = StudentEntities \cup PriorLearningEntities \cup CreditEntities
  BY DEF Range, CreatedStudent, CreatedCredit, StudentEntities, PriorLearningEntities,
         CreditEntities
<1>3. Range(CreatedTypes) = EnumTypes
  BY DEF Range, CreatedTypes, EnumTypes
<1>4. Range(Tables) = Entities
  BY <1>1, <1>2, TablesRange DEF Entities
<1>5. {e.name : e \in Range(Tables)} = TableNames
  BY TableNamesDiffer DEF Range
<1>6. {e.name : e \in Range(CreatedTypes)} = TypeNames
  BY TypesAre DEF Range
<1> QED BY <1>3, <1>4, <1>5, <1>6 DEF Domain

\* No type is left without a table that uses it.
LEMMA TypesUsed == \A n \in TypeNames : \E t \in Range(Tables) : n \in t.types
<1> SUFFICES \A n \in TypeNames : \E t \in Entities : n \in t.types
  BY EntitiesAre
<1>1. \A n \in {"role_name", "institution_type", "credit_system", "student_status",
                "enrolment_application_status"} :
         \E t \in AccountEntities \cup PlaceEntities \cup CatalogueEntities
                  \cup StudentEntities : n \in t.types
  BY DEF AccountEntities, PlaceEntities, CatalogueEntities, StudentEntities, Table
<1>2. \A n \in {"external_profile_type", "student_document_type",
                "student_document_status", "credit_mapping_request_status",
                "credit_mapping_decision_value"} :
         \E t \in PriorLearningEntities \cup CreditEntities : n \in t.types
  BY DEF PriorLearningEntities, CreditEntities, Table
<1> QED BY <1>1, <1>2 DEF TypeNames, Entities

-----------------------------------------------------------------------------
(* The statements of the scripts, by their positions.                       *)

Kinds == {"ensure", "create", "add", "drop", "remove", "discard", "stamp", "refuse"}

Steps == [kind : Kinds, on : Domain \cup {Hash, VersionTable} \cup Range(Revisions)]

\* Revisions, their positions, and that no table or type is named like one.
LEMMA RevisionsAre ==
    /\ Range(Revisions) = {"base", "0001", "0002", "0003"}
    /\ Index("base") = 1 /\ Index("0001") = 2 /\ Index("0002") = 3 /\ Index("0003") = 4
    /\ Range(Revisions) \cap (Domain \cup {Hash, VersionTable}) = {}
BY DEF Revisions, Range, Index, Domain, TableNames, TypeNames, CoreNames, StudentNames,
       CreditNames, Hash, VersionTable

\* Each part of revision 0002 by position: what upgrade ensures and creates,
\* and, in the reverse order, what downgrade drops and removes.
LEMMA PartsAre ==
    LET T == Len(CreatedTypes)
        N == Len(Tables)
    IN  /\ T \in Nat /\ N \in Nat
        /\ Ensured \in Seq(Steps) /\ Len(Ensured) = T
        /\ Created \in Seq(Steps) /\ Len(Created) = N
        /\ Dropped \in Seq(Steps) /\ Len(Dropped) = N
        /\ Removed \in Seq(Steps) /\ Len(Removed) = T
        /\ \A k \in 1 .. T : Ensured[k] = Do("ensure", CreatedTypes[k].name)
        /\ \A k \in 1 .. N : Created[k] = Do("create", Tables[k].name)
        /\ \A k \in 1 .. N : Dropped[k] = Do("drop", Tables[N + 1 - k].name)
        /\ \A k \in 1 .. T : Removed[k] = Do("remove", CreatedTypes[T + 1 - k].name)
<1> DEFINE T == Len(CreatedTypes)
           N == Len(Tables)
<1>1. /\ T \in Nat /\ DOMAIN CreatedTypes = 1 .. T
      /\ \A k \in 1 .. T : CreatedTypes[k].name \in Domain
  BY TypesAre DEF Domain
<1>2. /\ N \in Nat /\ DOMAIN Tables = 1 .. N
      /\ \A k \in 1 .. N : Tables[k].name \in Domain
  BY TableNamesDiffer DEF Domain
<1> DEFINE tn(k) == CreatedTypes[k].name
           un(k) == Tables[k].name
<1> HIDE DEF T, N
<1>3. /\ Ensured = [k \in 1 .. T |-> Do("ensure", CreatedTypes[k].name)]
      /\ Created = [k \in 1 .. N |-> Do("create", Tables[k].name)]
  BY <1>1, <1>2 DEF Ensured, Created
<1>4. /\ Dropped = Reverse([k \in 1 .. N |-> Do("drop", Tables[k].name)])
      /\ Removed = Reverse([k \in 1 .. T |-> Do("remove", CreatedTypes[k].name)])
  BY <1>1, <1>2 DEF Dropped, Removed, Backwards
<1>5. /\ Dropped = [k \in 1 .. N |-> Do("drop", Tables[N + 1 - k].name)]
      /\ Removed = [k \in 1 .. T |-> Do("remove", CreatedTypes[T + 1 - k].name)]
  BY <1>1, <1>2, <1>4 DEF Reverse
<1>6. \A n \in Domain, k \in Kinds : Do(k, n) \in Steps
  BY DEF Do, Steps
<1> QED BY <1>1, <1>2, <1>3, <1>5, <1>6, IsASeq DEF Kinds, T, N

T == Len(CreatedTypes)

N == Len(Tables)

\* The part of an upgrade after the first o statements: revisions 0002 and 0003.
UpgradeAfter(S, o) ==
    /\ S \in Seq(Steps) /\ Len(S) = o + (T + N + 3)
    /\ \A k \in 1 .. T : S[o + k] = Do("ensure", CreatedTypes[k].name)
    /\ \A k \in 1 .. N : S[o + (T + k)] = Do("create", Tables[k].name)
    /\ S[o + (T + N + 1)] = Do("stamp", "0002")
    /\ S[o + (T + N + 2)] = Do("add", Hash)
    /\ S[o + (T + N + 3)] = Do("stamp", "0003")

\* What each script is put together from.
LEMMA UpgradeScripts ==
    /\ UpgradeFrom["base"] = <<Do("ensure", VersionTable)>> \o UpFrom[1]
    /\ UpgradeFrom["0001"] = <<>> \o UpFrom[2]
    /\ UpgradeFrom["0002"] = <<>> \o UpFrom[3]
    /\ UpgradeFrom["0003"] = <<>> \o UpFrom[4]
<1>1. /\ VersionTableMade(1) = <<Do("ensure", VersionTable)>>
      /\ \A i \in {2, 3, 4} : VersionTableMade(i) = <<>>
  BY DEF VersionTableMade
<1> QED BY <1>1, RevisionsAre DEF UpgradeFrom

\* A downgrade goes one revision down; from the base there is none.
LEMMA DowngradeScripts ==
    /\ DowngradeFrom["base"] = <<Do("ensure", VersionTable)>> \o <<Do("refuse", "base")>>
    /\ DowngradeFrom["0001"] = <<>> \o <<Do("stamp", "base")>>
    /\ DowngradeFrom["0002"] = (Dropped \o Removed) \o <<Do("stamp", "0001")>>
    /\ DowngradeFrom["0003"] = <<Do("discard", Hash)>> \o <<Do("stamp", "0002")>>
<1>1. VersionTableMade(1) = <<Do("ensure", VersionTable)>>
  BY DEF VersionTableMade
<1>2. Revisions[1] = "base" /\ Revisions[2] = "0001" /\ Revisions[3] = "0002"
  BY DEF Revisions
<1>3. /\ Downgrade[2] = <<>> /\ Downgrade[3] = Dropped \o Removed
      /\ Downgrade[4] = <<Do("discard", Hash)>>
  BY DEF Downgrade
<1>4. ASSUME NEW v \in Range(Revisions), v # "base", NEW i \in {2, 3, 4}, Index(v) = i
      PROVE  DowngradeFrom[v] = Downgrade[i] \o <<Do("stamp", Revisions[i - 1])>>
  BY <1>4 DEF DowngradeFrom
<1>5. DowngradeFrom["base"] = <<Do("ensure", VersionTable)>> \o <<Do("refuse", "base")>>
  BY <1>1, RevisionsAre DEF DowngradeFrom
<1>6. DowngradeFrom["0001"] = <<>> \o <<Do("stamp", "base")>>
  <2>1. DowngradeFrom["0001"] = Downgrade[2] \o <<Do("stamp", Revisions[2 - 1])>>
    BY <1>4, RevisionsAre
  <2> QED BY <2>1, <1>2, <1>3
<1>7. DowngradeFrom["0002"] = (Dropped \o Removed) \o <<Do("stamp", "0001")>>
  <2>1. DowngradeFrom["0002"] = Downgrade[3] \o <<Do("stamp", Revisions[3 - 1])>>
    BY <1>4, RevisionsAre
  <2> QED BY <2>1, <1>2, <1>3
<1>8. DowngradeFrom["0003"] = <<Do("discard", Hash)>> \o <<Do("stamp", "0002")>>
  <2>1. DowngradeFrom["0003"] = Downgrade[4] \o <<Do("stamp", Revisions[4 - 1])>>
    BY <1>4, RevisionsAre
  <2> QED BY <2>1, <1>2, <1>3
<1> QED BY <1>5, <1>6, <1>7, <1>8

\* An upgrade runs each missing revision and stamps it before the next.
LEMMA RevisedAre ==
    /\ Revised(2) = <<>> \o <<Do("stamp", "0001")>>
    /\ Revised(3) = (Ensured \o Created) \o <<Do("stamp", "0002")>>
    /\ Revised(4) = <<Do("add", Hash)>> \o <<Do("stamp", "0003")>>
    /\ UpFrom[1] = (Revised(2) \o Revised(3)) \o Revised(4)
    /\ UpFrom[2] = Revised(3) \o Revised(4)
    /\ UpFrom[3] = Revised(4)
    /\ UpFrom[4] = <<>>
<1>1. /\ Upgrade[2] = <<>> /\ Upgrade[3] = Ensured \o Created
      /\ Upgrade[4] = <<Do("add", Hash)>>
      /\ Revisions[2] = "0001" /\ Revisions[3] = "0002" /\ Revisions[4] = "0003"
  BY DEF Upgrade, Revisions
<1>2. /\ UpFrom[1] = (Revised(2) \o Revised(3)) \o Revised(4)
      /\ UpFrom[2] = Revised(3) \o Revised(4)
      /\ UpFrom[3] = Revised(4)
      /\ UpFrom[4] = <<>>
  BY DEF UpFrom
<1> QED BY <1>1, <1>2 DEF Revised

\* Revision 0002, statement by statement.
LEMMA RevisedTwo ==
    /\ T \in Nat /\ N \in Nat
    /\ Revised(3) \in Seq(Steps) /\ Len(Revised(3)) = T + N + 1
    /\ \A k \in 1 .. T : Revised(3)[k] = Do("ensure", CreatedTypes[k].name)
    /\ \A k \in 1 .. N : Revised(3)[T + k] = Do("create", Tables[k].name)
    /\ Revised(3)[T + N + 1] = Do("stamp", "0002")
<1> DEFINE D == Ensured \o Created
           x == Do("stamp", "0002")
<1>1. /\ T \in Nat /\ N \in Nat
      /\ Ensured \in Seq(Steps) /\ Len(Ensured) = T
      /\ Created \in Seq(Steps) /\ Len(Created) = N
      /\ \A k \in 1 .. T : Ensured[k] = Do("ensure", CreatedTypes[k].name)
      /\ \A k \in 1 .. N : Created[k] = Do("create", Tables[k].name)
  BY PartsAre DEF T, N
<1>2. x \in Steps
  BY RevisionsAre DEF Do, Steps, Kinds
<1>3. /\ D \in Seq(Steps) /\ Len(D) = Len(Ensured) + Len(Created)
      /\ \A k \in 1 .. Len(Ensured) : D[k] = Ensured[k]
      /\ \A k \in 1 .. Len(Created) : D[Len(Ensured) + k] = Created[k]
  <2>1. Ensured \in Seq(Steps) /\ Created \in Seq(Steps)
    BY <1>1
  <2> QED BY <2>1, Concatenated
<1> HIDE DEF D, x
<1>4. /\ D \o <<x>> \in Seq(Steps) /\ Len(D \o <<x>>) = Len(D) + 1
      /\ \A i \in 1 .. Len(D) : (D \o <<x>>)[i] = D[i]
      /\ (D \o <<x>>)[Len(D) + 1] = x
  BY <1>2, <1>3, Extended
<1>5. Revised(3) = D \o <<x>>
  BY RevisedAre DEF D, x
<1>6. \A k \in 1 .. T : Revised(3)[k] = Do("ensure", CreatedTypes[k].name)
  <2>1. \A k \in 1 .. T : k \in 1 .. Len(Ensured) /\ k \in 1 .. Len(D)
    BY <1>1, <1>3
  <2>2. \A k \in 1 .. T : Revised(3)[k] = Ensured[k]
    BY <2>1, <1>3, <1>4, <1>5
  <2> QED BY <2>2, <1>1
<1>7. \A k \in 1 .. N : Revised(3)[T + k] = Do("create", Tables[k].name)
  <2>1. \A k \in 1 .. N : k \in 1 .. Len(Created) /\ T + k \in 1 .. Len(D)
    BY <1>1, <1>3
  <2>2. \A k \in 1 .. N : D[T + k] = Created[k]
    BY <1>1, <1>3
  <2>3. \A k \in 1 .. N : Revised(3)[T + k] = D[T + k]
    BY <2>1, <1>4, <1>5
  <2>4. \A k \in 1 .. N : Revised(3)[T + k] = Created[k]
    BY <2>2, <2>3
  <2> QED BY <2>4, <1>1
<1>8. Len(D) = T + N
  BY <1>1, <1>3
<1> QED BY <1>1, <1>4, <1>5, <1>6, <1>7, <1>8 DEF x

\* Revision 0003 adds the column and is stamped.
LEMMA RevisedThree ==
    /\ Revised(4) \in Seq(Steps) /\ Len(Revised(4)) > 1 /\ Len(Revised(4)) < 3
    /\ Revised(4)[1] = Do("add", Hash) /\ Revised(4)[2] = Do("stamp", "0003")
<1> DEFINE x == Do("add", Hash)
           y == Do("stamp", "0003")
<1>1. x \in Steps /\ y \in Steps
  BY RevisionsAre DEF Do, Steps, Kinds
<1>2. Revised(4) = <<x>> \o <<y>>
  BY RevisedAre
<1> HIDE DEF x, y
<1>3. /\ <<x>> \o <<y>> \in Seq(Steps)
      /\ Len(<<x>> \o <<y>>) > 1 /\ Len(<<x>> \o <<y>>) < 3
      /\ (<<x>> \o <<y>>)[1] = x /\ (<<x>> \o <<y>>)[2] = y
  BY <1>1, Paired
<1> QED BY <1>2, <1>3 DEF x, y

\* The longest scripts end with both of them.
LEMMA UpgradeFollows ==
    ASSUME NEW o \in Nat, NEW S \in Seq(Steps),
           Len(S) = o + (Len(Revised(3)) + Len(Revised(4))),
           \A k \in 1 .. Len(Revised(3)) : S[o + k] = Revised(3)[k],
           \A k \in 1 .. Len(Revised(4)) : S[o + (Len(Revised(3)) + k)] = Revised(4)[k]
    PROVE  UpgradeAfter(S, o)
<1> DEFINE R == Revised(3)
           Q == Revised(4)
<1>1. T \in Nat /\ N \in Nat /\ Len(R) = T + N + 1
      /\ Len(Q) \in Nat /\ Len(Q) > 1 /\ Len(Q) < 3
  BY RevisedTwo, RevisedThree
<1>2. /\ \A k \in 1 .. T : S[o + k] = Do("ensure", CreatedTypes[k].name)
      /\ \A k \in 1 .. N : S[o + (T + k)] = Do("create", Tables[k].name)
      /\ S[o + (T + N + 1)] = Do("stamp", "0002")
  <2>1. \A k \in 1 .. T : k \in 1 .. Len(R) BY <1>1
  <2>2. \A k \in 1 .. N : T + k \in 1 .. Len(R) BY <1>1
  <2>3. T + N + 1 \in 1 .. Len(R) BY <1>1
  <2> QED BY <2>1, <2>2, <2>3, RevisedTwo
<1>3. /\ S[o + (T + N + 2)] = Do("add", Hash)
      /\ S[o + (T + N + 3)] = Do("stamp", "0003")
  <2>1. 1 \in 1 .. Len(Q) /\ 2 \in 1 .. Len(Q) BY <1>1
  <2>2. S[o + (Len(R) + 1)] = Q[1] /\ S[o + (Len(R) + 2)] = Q[2] BY <2>1
  <2>3. Len(R) + 1 = T + N + 2 /\ Len(R) + 2 = T + N + 3 BY <1>1
  <2> QED BY <2>2, <2>3, RevisedThree
<1>4. Len(S) = o + (T + N + 3)
  <2>1. Len(R) + Len(Q) = T + N + 3 BY <1>1
  <2> QED BY <2>1
<1> QED BY <1>2, <1>3, <1>4 DEF UpgradeAfter

\* From 0001 an upgrade runs 0002 and 0003.
LEMMA UpgradeOfOne == UpgradeAfter(UpgradeFrom["0001"], 0)
<1> DEFINE R == Revised(3)
           Q == Revised(4)
           S == UpgradeFrom["0001"]
<1>1. R \in Seq(Steps) /\ Q \in Seq(Steps)
  BY RevisedTwo, RevisedThree
<1>2. S = R \o Q
  BY <1>1, UpgradeScripts, RevisedAre, ConcatProperties, ConcatEmptySeq
<1> HIDE DEF R, Q, S
<1>3. /\ S \in Seq(Steps) /\ Len(S) = Len(R) + Len(Q)
      /\ \A i \in 1 .. Len(R) : S[i] = R[i]
      /\ \A i \in 1 .. Len(Q) : S[Len(R) + i] = Q[i]
  BY <1>1, <1>2, Concatenated
<1>4. Len(R) \in Nat /\ Len(Q) \in Nat
  BY <1>1
<1>5. /\ \A k \in 1 .. Len(R) : S[0 + k] = R[k]
      /\ \A k \in 1 .. Len(Q) : S[0 + (Len(R) + k)] = Q[k]
      /\ Len(S) = 0 + (Len(R) + Len(Q))
  BY <1>3, <1>4
<1> QED BY <1>3, <1>5, UpgradeFollows DEF R, Q, S

\* From the base an upgrade first makes alembic_version and stamps 0001.
LEMMA UpgradeOfBase ==
    /\ UpgradeAfter(UpgradeFrom["base"], 2)
    /\ UpgradeFrom["base"][1] = Do("ensure", VersionTable)
    /\ UpgradeFrom["base"][2] = Do("stamp", "0001")
<1> DEFINE R == Revised(3)
           Q == Revised(4)
           e == Do("ensure", VersionTable)
           x == Do("stamp", "0001")
           P == <<x>> \o R
           V == P \o Q
           S == UpgradeFrom["base"]
<1>1. R \in Seq(Steps) /\ Q \in Seq(Steps)
  BY RevisedTwo, RevisedThree
<1>2. e \in Steps /\ x \in Steps
  BY RevisionsAre DEF Do, Steps, Kinds
<1>3. S = <<e>> \o V
  <2>1. <<>> \o <<x>> = <<x>>
    BY <1>2
  <2>2. Revised(2) = <<x>>
    BY <2>1, RevisedAre
  <2> QED BY <2>2, UpgradeScripts, RevisedAre
<1> HIDE DEF R, Q, e, x, P, V, S
<1>4. /\ P \in Seq(Steps) /\ Len(P) = 1 + Len(R) /\ P[1] = x
      /\ \A i \in 1 .. Len(R) : P[1 + i] = R[i]
  BY <1>1, <1>2, Prefixed DEF P
<1>5. /\ V \in Seq(Steps) /\ Len(V) = Len(P) + Len(Q)
      /\ \A i \in 1 .. Len(P) : V[i] = P[i]
      /\ \A i \in 1 .. Len(Q) : V[Len(P) + i] = Q[i]
  <2>1. P \in Seq(Steps) BY <1>4
  <2> QED BY <2>1, <1>1, Concatenated DEF V
<1>6. /\ S \in Seq(Steps) /\ Len(S) = 1 + Len(V) /\ S[1] = e
      /\ \A i \in 1 .. Len(V) : S[1 + i] = V[i]
  <2>1. V \in Seq(Steps) BY <1>5
  <2> QED BY <2>1, <1>2, <1>3, Prefixed
<1>7. Len(R) \in Nat /\ Len(Q) \in Nat
  BY <1>1
<1>8. Len(S) = 2 + (Len(R) + Len(Q))
  BY <1>4, <1>5, <1>6, <1>7
<1>9. ASSUME NEW k \in 1 .. Len(R)
      PROVE  S[2 + k] = R[k]
  <2>1. 1 + k \in 1 .. Len(P) /\ 1 + k \in 1 .. Len(V)
    BY <1>4, <1>5, <1>7
  <2>2. S[1 + (1 + k)] = R[k]
    BY <2>1, <1>4, <1>5, <1>6
  <2> QED BY <2>2
<1>10. ASSUME NEW k \in 1 .. Len(Q)
       PROVE  S[2 + (Len(R) + k)] = Q[k]
  <2>1. Len(P) + k \in 1 .. Len(V)
    BY <1>4, <1>5, <1>7
  <2>2. S[1 + (Len(P) + k)] = Q[k]
    BY <2>1, <1>5, <1>6
  <2>3. 1 + (Len(P) + k) = 2 + (Len(R) + k)
    BY <1>4, <1>7
  <2> QED BY <2>2, <2>3
<1>11. S[2] = x
  <2>1. 1 \in 1 .. Len(P) /\ 1 \in 1 .. Len(V)
    BY <1>4, <1>5, <1>7
  <2>2. S[1 + 1] = x
    BY <2>1, <1>4, <1>5, <1>6
  <2> QED BY <2>2
<1>12. UpgradeAfter(S, 2)
  BY <1>6, <1>8, <1>9, <1>10, UpgradeFollows DEF R, Q
<1> QED BY <1>6, <1>11, <1>12 DEF S, e, x

\* The downgrade of 0002: all tables, then all types, then the stamp.
LEMMA DowngradeOfTwo ==
    LET S == DowngradeFrom["0002"]
    IN  /\ S \in Seq(Steps) /\ Len(S) = N + T + 1
        /\ \A k \in 1 .. N : S[k] = Do("drop", Tables[N + 1 - k].name)
        /\ \A k \in 1 .. T : S[N + k] = Do("remove", CreatedTypes[T + 1 - k].name)
        /\ S[N + T + 1] = Do("stamp", "0001")
<1> DEFINE S == DowngradeFrom["0002"]
           D == Dropped \o Removed
           x == Do("stamp", "0001")
<1>1. /\ T \in Nat /\ N \in Nat
      /\ Dropped \in Seq(Steps) /\ Len(Dropped) = N
      /\ Removed \in Seq(Steps) /\ Len(Removed) = T
      /\ \A k \in 1 .. N : Dropped[k] = Do("drop", Tables[N + 1 - k].name)
      /\ \A k \in 1 .. T : Removed[k] = Do("remove", CreatedTypes[T + 1 - k].name)
  BY PartsAre DEF T, N
<1>2. x \in Steps
  BY RevisionsAre DEF Do, Steps, Kinds
<1>3. /\ D \in Seq(Steps) /\ Len(D) = Len(Dropped) + Len(Removed)
      /\ \A k \in 1 .. Len(Dropped) : D[k] = Dropped[k]
      /\ \A k \in 1 .. Len(Removed) : D[Len(Dropped) + k] = Removed[k]
  <2>1. Dropped \in Seq(Steps) /\ Removed \in Seq(Steps)
    BY <1>1
  <2> QED BY <2>1, Concatenated
<1>4. S = D \o <<x>>
  BY DowngradeScripts
<1> HIDE DEF D, x, S
<1>5. /\ S \in Seq(Steps) /\ Len(S) = Len(D) + 1
      /\ \A i \in 1 .. Len(D) : S[i] = D[i]
      /\ S[Len(D) + 1] = x
  BY <1>2, <1>3, <1>4, Extended
<1>6. \A k \in 1 .. N : S[k] = Do("drop", Tables[N + 1 - k].name)
  <2>1. \A k \in 1 .. N : k \in 1 .. Len(Dropped) /\ k \in 1 .. Len(D)
    BY <1>1, <1>3
  <2> QED BY <2>1, <1>1, <1>3, <1>5
<1>7. \A k \in 1 .. T : S[N + k] = Do("remove", CreatedTypes[T + 1 - k].name)
  <2>1. \A k \in 1 .. T : k \in 1 .. Len(Removed) /\ N + k \in 1 .. Len(D)
    BY <1>1, <1>3
  <2>2. \A k \in 1 .. T : D[N + k] = Removed[k]
    BY <1>1, <1>3
  <2>3. \A k \in 1 .. T : S[N + k] = D[N + k]
    BY <2>1, <1>5
  <2>4. \A k \in 1 .. T : S[N + k] = Removed[k]
    BY <2>2, <2>3
  <2> QED BY <2>4, <1>1
<1>8. Len(D) = N + T
  BY <1>1, <1>3
<1>9. Len(S) = N + T + 1
  BY <1>1, <1>5, <1>8
<1> QED BY <1>5, <1>6, <1>7, <1>8, <1>9 DEF S, x

\* The scripts of one or two statements, and the empty one.
LEMMA ShortScripts ==
    /\ UpgradeFrom["0002"] = Revised(4) /\ UpgradeFrom["0003"] = <<>>
    /\ DowngradeFrom["0001"] = <<Do("stamp", "base")>>
    /\ LET S == DowngradeFrom["base"]
       IN  /\ S \in Seq(Steps) /\ Len(S) > 1 /\ Len(S) < 3
           /\ S[1] = Do("ensure", VersionTable) /\ S[2] = Do("refuse", "base")
    /\ LET S == DowngradeFrom["0003"]
       IN  /\ S \in Seq(Steps) /\ Len(S) > 1 /\ Len(S) < 3
           /\ S[1] = Do("discard", Hash) /\ S[2] = Do("stamp", "0002")
<1>1. UpgradeFrom["0002"] = Revised(4) /\ UpgradeFrom["0003"] = <<>>
  BY UpgradeScripts, RevisedAre, RevisedThree, ConcatEmptySeq
<1>2. DowngradeFrom["0001"] = <<Do("stamp", "base")>>
  BY DowngradeScripts
<1>3. /\ Do("ensure", VersionTable) \in Steps /\ Do("refuse", "base") \in Steps
      /\ Do("discard", Hash) \in Steps /\ Do("stamp", "0002") \in Steps
  BY RevisionsAre DEF Do, Steps, Kinds
<1> QED BY <1>1, <1>2, <1>3, Paired, DowngradeScripts

-----------------------------------------------------------------------------
(* What the proofs about runs need to know of the scripts.                  *)

\* There is one table of each name.
LEMMA TableOfName ==
    /\ \A k \in 1 .. N : TableOf(Tables[k].name) = Tables[k]
    /\ \A t \in Range(Tables) : TableOf(t.name) = t
    /\ \A n \in TableNames : TableOf(n) \in Range(Tables) /\ TableOf(n).name = n
    /\ {t.name : t \in Range(Tables)} = TableNames
<1>1. \A k \in 1 .. N : Tables[k] \in Range(Tables)
  BY TableNamesDiffer DEF Range, N
<1>2. \A t \in Range(Tables) : \E k \in 1 .. N : t = Tables[k]
  BY TableNamesDiffer DEF Range, N
<1>3. \A j, k \in 1 .. N : Tables[j].name = Tables[k].name => j = k
  BY TableNamesDiffer DEF N
<1>4. {Tables[k].name : k \in 1 .. N} = TableNames
  BY TableNamesDiffer DEF N
<1>5. \A t \in Range(Tables) : TableOf(t.name) = t
  <2> SUFFICES ASSUME NEW t \in Range(Tables)
               PROVE  TableOf(t.name) = t
    OBVIOUS
  <2>1. \A u \in Range(Tables) : u.name = t.name => u = t
    BY <1>2, <1>3
  <2> QED BY <2>1 DEF TableOf
<1> QED BY <1>1, <1>2, <1>4, <1>5

\* Where a statement of the end of an upgrade is.
LEMMA UpgradePositions ==
    ASSUME NEW S, NEW o \in Nat, UpgradeAfter(S, o), NEW j \in 1 .. Len(S), j > o
    PROVE  \/ \E k \in 1 .. T : j = o + k
           \/ \E k \in 1 .. N : j = o + (T + k)
           \/ j = o + (T + N + 1)
           \/ j = o + (T + N + 2)
           \/ j = o + (T + N + 3)
<1>1. T \in Nat /\ N \in Nat /\ Len(S) = o + (T + N + 3)
  BY PartsAre DEF T, N, UpgradeAfter
<1>2. CASE j <= o + T
  <2>1. j - o \in 1 .. T /\ j = o + (j - o)
    BY <1>1, <1>2
  <2> QED BY <2>1
<1>3. CASE j > o + T /\ j <= o + T + N
  <2>1. j - (o + T) \in 1 .. N /\ j = o + (T + (j - (o + T)))
    BY <1>1, <1>3
  <2> QED BY <2>1
<1>4. CASE j > o + T + N
  BY <1>1, <1>4
<1> QED BY <1>1, <1>2, <1>3, <1>4

\* The end of an upgrade: types, tables that only need what is there before
\* them, the column of users, two stamps.
LEMMA UpgradeEnd ==
    ASSUME NEW S, NEW o \in Nat, UpgradeAfter(S, o), NEW j \in 1 .. Len(S), j > o
    PROVE  \/ S[j].kind = "ensure" /\ S[j].on \in TypeNames
           \/ /\ S[j].kind = "create" /\ S[j].on \in TableNames
              /\ \A n \in TableOf(S[j].on).references :
                    \E i \in 1 .. j - 1 : S[i] = Do("create", n)
              /\ \A n \in TableOf(S[j].on).types :
                    \E i \in 1 .. j - 1 : S[i] = Do("ensure", n)
           \/ /\ S[j] = Do("add", Hash)
              /\ \E i \in 1 .. j - 1 : S[i] = Do("create", "users")
           \/ S[j] = Do("stamp", "0002") \/ S[j] = Do("stamp", "0003")
<1>1. /\ T \in Nat /\ N \in Nat /\ Len(S) = o + (T + N + 3)
      /\ \A k \in 1 .. T : S[o + k] = Do("ensure", CreatedTypes[k].name)
      /\ \A k \in 1 .. N : S[o + (T + k)] = Do("create", Tables[k].name)
      /\ S[o + (T + N + 1)] = Do("stamp", "0002")
      /\ S[o + (T + N + 2)] = Do("add", Hash)
      /\ S[o + (T + N + 3)] = Do("stamp", "0003")
  BY PartsAre DEF T, N, UpgradeAfter
<1>2. ASSUME NEW k \in 1 .. T, j = o + k
      PROVE  S[j].kind = "ensure" /\ S[j].on \in TypeNames
  <2>1. S[j] = Do("ensure", CreatedTypes[k].name)
    BY <1>1, <1>2
  <2>2. CreatedTypes[k].name \in TypeNames
    BY TypesAre DEF T
  <2> QED BY <2>1, <2>2 DEF Do
<1>3. ASSUME NEW k \in 1 .. N, j = o + (T + k)
      PROVE  /\ S[j].kind = "create" /\ S[j].on \in TableNames
             /\ \A n \in TableOf(S[j].on).references :
                   \E i \in 1 .. j - 1 : S[i] = Do("create", n)
             /\ \A n \in TableOf(S[j].on).types :
                   \E i \in 1 .. j - 1 : S[i] = Do("ensure", n)
  <2>1. S[j] = Do("create", Tables[k].name)
    BY <1>1, <1>3
  <2>2. Tables[k].name \in TableNames
    BY TableNamesDiffer DEF N
  <2>3. S[j].kind = "create" /\ S[j].on = Tables[k].name /\ TableOf(S[j].on) = Tables[k]
    BY <2>1, TableOfName DEF Do
  <2>4. ASSUME NEW n \in Tables[k].references
        PROVE  \E i \in 1 .. j - 1 : S[i] = Do("create", n)
    <3>1. PICK l \in 1 .. N : l < k /\ Tables[l].name = n
      BY TablesOrdered DEF N
    <3>2. o + (T + l) \in 1 .. j - 1 /\ S[o + (T + l)] = Do("create", n)
      BY <3>1, <1>1, <1>3
    <3> QED BY <3>2
  <2>5. ASSUME NEW n \in Tables[k].types
        PROVE  \E i \in 1 .. j - 1 : S[i] = Do("ensure", n)
    <3>1. n \in TypeNames
      BY TablesOrdered DEF N
    <3>2. PICK l \in 1 .. T : CreatedTypes[l].name = n
      BY <3>1, TypesAre DEF T
    <3>3. o + l \in 1 .. j - 1 /\ S[o + l] = Do("ensure", n)
      BY <3>2, <1>1, <1>3
    <3> QED BY <3>3
  <2> QED BY <2>2, <2>3, <2>4, <2>5
<1>4. CASE j = o + (T + N + 2)
  <2>1. PICK l \in 1 .. N : Tables[l].name = "users"
    BY TableNamesDiffer, NamesDiffer DEF N
  <2>2. o + (T + l) \in 1 .. j - 1 /\ S[o + (T + l)] = Do("create", "users")
    BY <2>1, <1>1, <1>4
  <2> QED BY <2>2, <1>1, <1>4
<1> QED BY <1>1, <1>2, <1>3, <1>4, UpgradePositions

\* No name comes twice in the statements of 0002 and 0003.
LEMMA UpgradeEndOnce ==
    ASSUME NEW S, NEW o \in Nat, UpgradeAfter(S, o),
           NEW i \in 1 .. Len(S), NEW j \in 1 .. Len(S), i > o, i < j
    PROVE  S[i].on # S[j].on
<1>1. /\ T \in Nat /\ N \in Nat /\ Len(S) = o + (T + N + 3)
      /\ \A k \in 1 .. T : S[o + k].on = CreatedTypes[k].name
      /\ \A k \in 1 .. N : S[o + (T + k)].on = Tables[k].name
      /\ S[o + (T + N + 1)].on = "0002"
      /\ S[o + (T + N + 2)].on = Hash
      /\ S[o + (T + N + 3)].on = "0003"
  <2>1. T \in Nat /\ N \in Nat
    BY PartsAre DEF T, N
  <2>2. /\ Len(S) = o + (T + N + 3)
        /\ \A k \in 1 .. T : S[o + k] = Do("ensure", CreatedTypes[k].name)
        /\ \A k \in 1 .. N : S[o + (T + k)] = Do("create", Tables[k].name)
        /\ S[o + (T + N + 1)] = Do("stamp", "0002")
        /\ S[o + (T + N + 2)] = Do("add", Hash)
        /\ S[o + (T + N + 3)] = Do("stamp", "0003")
    BY DEF UpgradeAfter
  <2>3. \A k, n : Do(k, n).on = n
    BY DEF Do
  <2>4. \A k \in 1 .. T : S[o + k].on = CreatedTypes[k].name
    <3>1. \A k \in 1 .. T : S[o + k] = Do("ensure", CreatedTypes[k].name)
      BY <2>2
    <3> QED BY <3>1, <2>3
  <2>5. \A k \in 1 .. N : S[o + (T + k)].on = Tables[k].name
    <3>1. \A k \in 1 .. N : S[o + (T + k)] = Do("create", Tables[k].name)
      BY <2>2
    <3> QED BY <3>1, <2>3
  <2>6. /\ S[o + (T + N + 1)].on = "0002"
        /\ S[o + (T + N + 2)].on = Hash
        /\ S[o + (T + N + 3)].on = "0003"
    <3>1. /\ S[o + (T + N + 1)] = Do("stamp", "0002")
          /\ S[o + (T + N + 2)] = Do("add", Hash)
          /\ S[o + (T + N + 3)] = Do("stamp", "0003")
      BY <2>2
    <3> QED BY <3>1, <2>3
  <2>7. Len(S) = o + (T + N + 3)
    BY <2>2
  <2> QED BY <2>1, <2>4, <2>5, <2>6, <2>7
<1>2. /\ \A k \in 1 .. T : CreatedTypes[k].name \in TypeNames
      /\ \A k, l \in 1 .. T : CreatedTypes[k].name = CreatedTypes[l].name => k = l
      /\ \A k \in 1 .. N : Tables[k].name \in TableNames
      /\ \A k, l \in 1 .. N : Tables[k].name = Tables[l].name => k = l
  BY TypesAre, TableNamesDiffer DEF T, N
<1>3. /\ TableNames \cap TypeNames = {}
      /\ \A n \in TableNames \cup TypeNames : n # Hash /\ n # "0002" /\ n # "0003"
      /\ Hash # "0002" /\ Hash # "0003"
  BY NamesDiffer, RevisionsAre DEF Domain
<1>4. ASSUME NEW k \in 1 .. T, i = o + k
      PROVE  S[i].on # S[j].on
  <2>1. S[i].on = CreatedTypes[k].name /\ CreatedTypes[k].name \in TypeNames
    BY <1>1, <1>2, <1>4
  <2>2. CASE \E l \in 1 .. T : j = o + l
    <3>1. PICK l \in 1 .. T : j = o + l BY <2>2
    <3>2. k # l BY <3>1, <1>4
    <3>3. S[j].on = CreatedTypes[l].name BY <3>1, <1>1
    <3> QED BY <3>2, <3>3, <2>1, <1>2
  <2>3. CASE \E l \in 1 .. N : j = o + (T + l)
    <3>1. PICK l \in 1 .. N : j = o + (T + l) BY <2>3
    <3>2. S[j].on = Tables[l].name BY <3>1, <1>1
    <3>3. S[j].on \in TableNames BY <3>2, <1>2
    <3> QED BY <3>3, <2>1, <1>3
  <2>4. CASE \/ j = o + (T + N + 1) \/ j = o + (T + N + 2) \/ j = o + (T + N + 3)
    <3>1. S[j].on \in {"0002", Hash, "0003"}
      BY <2>4, <1>1
    <3> QED BY <3>1, <2>1, <1>3
  <2>5. j > o /\ o \in Nat
    OBVIOUS
  <2> QED BY <2>2, <2>3, <2>4, <2>5, UpgradePositions
<1>5. ASSUME NEW k \in 1 .. N, i = o + (T + k)
      PROVE  S[i].on # S[j].on
  <2>1. S[i].on = Tables[k].name /\ Tables[k].name \in TableNames
    BY <1>1, <1>2, <1>5
  <2>2. CASE \E l \in 1 .. N : j = o + (T + l)
    <3>1. PICK l \in 1 .. N : j = o + (T + l) BY <2>2
    <3>2. k # l BY <3>1, <1>5
    <3>3. S[j].on = Tables[l].name BY <3>1, <1>1
    <3> QED BY <3>2, <3>3, <2>1, <1>2
  <2>3. CASE \E l \in 1 .. T : j = o + l
    <3>1. T \in Nat /\ N \in Nat /\ o \in Nat /\ k \in 1 .. N
      BY <1>1
    <3> QED BY <3>1, <2>3, <1>5
  <2>4. CASE \/ j = o + (T + N + 1) \/ j = o + (T + N + 2) \/ j = o + (T + N + 3)
    <3>1. S[j].on \in {"0002", Hash, "0003"}
      BY <2>4, <1>1
    <3> QED BY <3>1, <2>1, <1>3
  <2>5. j > o /\ o \in Nat
    OBVIOUS
  <2> QED BY <2>2, <2>3, <2>4, <2>5, UpgradePositions
<1>6. CASE i >= o + (T + N + 1)
  <2>1. \/ i = o + (T + N + 1) /\ j = o + (T + N + 2)
        \/ i = o + (T + N + 1) /\ j = o + (T + N + 3)
        \/ i = o + (T + N + 2) /\ j = o + (T + N + 3)
    <3>1. T \in Nat /\ N \in Nat /\ Len(S) = o + (T + N + 3)
      BY <1>1
    <3>2. i \in Nat /\ j \in Nat /\ j <= Len(S)
      BY <3>1
    <3> QED BY <3>1, <3>2, <1>6
  <2> QED BY <2>1, <1>1, <1>3
<1>7. \/ \E k \in 1 .. T : i = o + k
      \/ \E k \in 1 .. N : i = o + (T + k)
      \/ i = o + (T + N + 1) \/ i = o + (T + N + 2) \/ i = o + (T + N + 3)
  BY UpgradePositions
<1>8. CASE i = o + (T + N + 1) \/ i = o + (T + N + 2) \/ i = o + (T + N + 3)
  <2>1. T \in Nat /\ N \in Nat
    BY <1>1
  <2>2. i >= o + (T + N + 1)
    BY <2>1, <1>8
  <2> QED BY <2>2, <1>6
<1> QED BY <1>4, <1>5, <1>7, <1>8

\* Statements of an upgrade, from any revision.
UpgradeStatement(v, S, j) ==
    \/ /\ S[j] = Do("ensure", VersionTable) /\ v = "base" /\ j = 1
    \/ /\ S[j] = Do("stamp", "0001") /\ v = "base" /\ j = 2
    \/ /\ S[j].kind = "ensure" /\ S[j].on \in TypeNames /\ v \in {"base", "0001"}
    \/ /\ S[j].kind = "create" /\ S[j].on \in TableNames /\ v \in {"base", "0001"}
       /\ \A n \in TableOf(S[j].on).references :
             \E i \in 1 .. j - 1 : S[i] = Do("create", n)
       /\ \A n \in TableOf(S[j].on).types :
             \E i \in 1 .. j - 1 : S[i] = Do("ensure", n)
    \/ /\ S[j] = Do("add", Hash)
       /\ v = "0002" \/ \E i \in 1 .. j - 1 : S[i] = Do("create", "users")
    \/ /\ S[j] = Do("stamp", "0002") /\ v \in {"base", "0001"}
       /\ v = "base" => j > 2
    \/ /\ S[j] = Do("stamp", "0003")
       /\ v = "base" => j > 2

\* Every statement of every upgrade is as described, and none comes twice.
LEMMA UpgradeStatements ==
    ASSUME NEW v \in Range(Revisions)
    PROVE  LET S == UpgradeFrom[v]
           IN  /\ S \in Seq(Steps)
               /\ \A j \in 1 .. Len(S) :
                     /\ UpgradeStatement(v, S, j)
                     /\ \A i \in 1 .. j - 1 : S[i].on # S[j].on
<1>1. CASE v = "base"
  <2> DEFINE S == UpgradeFrom["base"]
  <2>1. UpgradeAfter(S, 2) /\ S[1] = Do("ensure", VersionTable) /\ S[2] = Do("stamp", "0001")
    BY UpgradeOfBase
  <2> HIDE DEF S
  <2>2. S \in Seq(Steps)
    BY <2>1 DEF UpgradeAfter
  <2>3. ASSUME NEW j \in 1 .. Len(S)
        PROVE  UpgradeStatement("base", S, j)
    <3>1. CASE j = 1 BY <3>1, <2>1 DEF UpgradeStatement
    <3>2. CASE j = 2 BY <3>2, <2>1 DEF UpgradeStatement
    <3>3. CASE j > 2 BY <3>3, <2>1, UpgradeEnd DEF UpgradeStatement
    <3> QED BY <3>1, <3>2, <3>3
  <2>4. ASSUME NEW j \in 1 .. Len(S), NEW i \in 1 .. j - 1
        PROVE  S[i].on # S[j].on
    <3>1. CASE i > 2 BY <3>1, <2>1, UpgradeEndOnce
    <3>2. ASSUME j > 2
          PROVE  S[j].on \in Domain \cup {Hash, "0002", "0003"}
      BY <3>2, <2>1, UpgradeEnd DEF Do, Domain
    <3>3. S[1].on = VersionTable /\ S[2].on = "0001"
      BY <2>1 DEF Do
    <3>4. /\ VersionTable \notin Domain \cup {Hash, "0001", "0002", "0003"}
          /\ "0001" \notin Domain \cup {Hash, "0002", "0003"}
      BY NamesDiffer, RevisionsAre
    <3>5. CASE i = 1 \/ i = 2
      <4>1. j = 2 \/ j > 2
        BY <3>5
      <4> QED BY <4>1, <3>2, <3>3, <3>4, <3>5
    <3> QED BY <3>1, <3>5
  <2> QED BY <1>1, <2>2, <2>3, <2>4 DEF S
<1>2. CASE v = "0001"
  <2> DEFINE S == UpgradeFrom["0001"]
  <2>1. UpgradeAfter(S, 0)
    BY UpgradeOfOne
  <2> HIDE DEF S
  <2>2. S \in Seq(Steps)
    BY <2>1 DEF UpgradeAfter
  <2>3. ASSUME NEW j \in 1 .. Len(S)
        PROVE  UpgradeStatement("0001", S, j)
    <3>1. \/ S[j].kind = "ensure" /\ S[j].on \in TypeNames
          \/ /\ S[j].kind = "create" /\ S[j].on \in TableNames
             /\ \A n \in TableOf(S[j].on).references :
                   \E i \in 1 .. j - 1 : S[i] = Do("create", n)
             /\ \A n \in TableOf(S[j].on).types :
                   \E i \in 1 .. j - 1 : S[i] = Do("ensure", n)
          \/ /\ S[j] = Do("add", Hash)
             /\ \E i \in 1 .. j - 1 : S[i] = Do("create", "users")
          \/ S[j] = Do("stamp", "0002") \/ S[j] = Do("stamp", "0003")
      <4>1. 0 \in Nat /\ j > 0
        OBVIOUS
      <4> QED BY <4>1, <2>1, UpgradeEnd
    <3> QED BY <3>1 DEF UpgradeStatement
  <2>4. ASSUME NEW j \in 1 .. Len(S), NEW i \in 1 .. j - 1
        PROVE  S[i].on # S[j].on
    BY <2>1, UpgradeEndOnce
  <2> QED BY <1>2, <2>2, <2>3, <2>4 DEF S
<1>3. CASE v = "0002"
  <2> DEFINE S == UpgradeFrom["0002"]
  <2>1. /\ S \in Seq(Steps) /\ Len(S) > 1 /\ Len(S) < 3
        /\ S[1] = Do("add", Hash) /\ S[2] = Do("stamp", "0003")
    BY ShortScripts, RevisedThree
  <2> HIDE DEF S
  <2>2. \A j \in 1 .. Len(S) : j = 1 \/ j = 2
    BY <2>1
  <2>3. \A j \in 1 .. Len(S) : UpgradeStatement("0002", S, j)
    BY <2>1, <2>2 DEF UpgradeStatement
  <2>4. ASSUME NEW j \in 1 .. Len(S), NEW i \in 1 .. j - 1
        PROVE  S[i].on # S[j].on
    <3>1. i = 1 /\ j = 2
      BY <2>2
    <3>2. Hash # "0003"
      BY RevisionsAre
    <3> QED BY <3>1, <3>2, <2>1 DEF Do
  <2> QED BY <1>3, <2>1, <2>3, <2>4 DEF S
<1>4. CASE v = "0003"
  BY <1>4, ShortScripts
<1> QED BY <1>1, <1>2, <1>3, <1>4, RevisionsAre

\* What an upgrade has done when it is through.
LEMMA UpgradeThrough ==
    ASSUME NEW v \in Range(Revisions), v # "0003"
    PROVE  LET S == UpgradeFrom[v]
           IN  /\ Len(S) \in Nat \ {0} /\ S[Len(S)] = Do("stamp", "0003")
               /\ \E i \in 1 .. Len(S) : S[i] = Do("add", Hash)
               /\ v \in {"base", "0001"} =>
                     \A n \in TableNames : \E i \in 1 .. Len(S) : S[i] = Do("create", n)
<1>1. ASSUME NEW S, NEW o \in Nat, UpgradeAfter(S, o)
      PROVE  /\ Len(S) \in Nat \ {0} /\ S[Len(S)] = Do("stamp", "0003")
             /\ \E i \in 1 .. Len(S) : S[i] = Do("add", Hash)
             /\ \A n \in TableNames : \E i \in 1 .. Len(S) : S[i] = Do("create", n)
  <2>1. /\ T \in Nat /\ N \in Nat /\ Len(S) = o + (T + N + 3)
        /\ \A k \in 1 .. N : S[o + (T + k)] = Do("create", Tables[k].name)
        /\ S[o + (T + N + 2)] = Do("add", Hash)
        /\ S[o + (T + N + 3)] = Do("stamp", "0003")
    BY <1>1, PartsAre DEF T, N, UpgradeAfter
  <2>2. Len(S) \in Nat \ {0} /\ o + (T + N + 2) \in 1 .. Len(S)
    BY <2>1
  <2>3. ASSUME NEW n \in TableNames
        PROVE  \E i \in 1 .. Len(S) : S[i] = Do("create", n)
    <3>1. PICK k \in 1 .. N : Tables[k].name = n
      BY TableNamesDiffer DEF N
    <3>2. o + (T + k) \in 1 .. Len(S) /\ S[o + (T + k)] = Do("create", n)
      BY <3>1, <2>1
    <3> QED BY <3>2
  <2>4. S[Len(S)] = Do("stamp", "0003")
    BY <2>1
  <2> QED BY <2>1, <2>2, <2>3, <2>4
<1>2. CASE v = "base"
  BY <1>1, <1>2, UpgradeOfBase
<1>3. CASE v = "0001"
  BY <1>1, <1>3, UpgradeOfOne
<1>4. CASE v = "0002"
  <2> DEFINE S == UpgradeFrom["0002"]
  <2>1. /\ S \in Seq(Steps) /\ Len(S) > 1 /\ Len(S) < 3
        /\ S[1] = Do("add", Hash) /\ S[2] = Do("stamp", "0003")
    BY ShortScripts, RevisedThree
  <2> HIDE DEF S
  <2>2. Len(S) \in Nat
    BY <2>1
  <2>3. S[Len(S)] = S[2] /\ 1 \in 1 .. Len(S) /\ Len(S) # 0
    BY <2>1, <2>2
  <2> QED BY <1>4, <2>1, <2>2, <2>3 DEF S
<1> QED BY <1>2, <1>3, <1>4, RevisionsAre

\* Statements of a downgrade, from any revision: a table is dropped after those
\* that reference it, a type after all tables.
DowngradeStatement(v, S, j) ==
    \/ S[j] = Do("ensure", VersionTable) /\ v = "base" /\ j = 1
    \/ S[j] = Do("refuse", "base") /\ v = "base"
    \/ /\ S[j].kind = "drop" /\ S[j].on \in TableNames /\ v = "0002"
       /\ \A t \in Range(Tables) : S[j].on \in t.references =>
             \E i \in 1 .. j - 1 : S[i] = Do("drop", t.name)
    \/ /\ S[j].kind = "remove" /\ S[j].on \in TypeNames /\ v = "0002"
       /\ \A n \in TableNames : \E i \in 1 .. j - 1 : S[i] = Do("drop", n)
    \/ S[j] = Do("discard", Hash) /\ v = "0003"
    \/ S[j] = Do("stamp", "base") /\ v = "0001"
    \/ S[j] = Do("stamp", "0001") /\ v = "0002"
    \/ S[j] = Do("stamp", "0002") /\ v = "0003"

\* A statement of the downgrade of 0002 drops, removes or stamps.
LEMMA DowngradeOfTwoPositions ==
    ASSUME NEW j \in 1 .. N + T + 1
    PROVE  j \in 1 .. N \/ (\E k \in 1 .. T : j = N + k) \/ j = N + T + 1
<1>1. T \in Nat /\ N \in Nat
  BY PartsAre DEF T, N
<1>2. CASE j > N /\ j <= N + T
  <2>1. j - N \in 1 .. T /\ j = N + (j - N)
    BY <1>1, <1>2
  <2> QED BY <2>1
<1> QED BY <1>1, <1>2

\* Every statement of the downgrade of 0002 is as described.
LEMMA DowngradeOfTwoStatements ==
    LET S == DowngradeFrom["0002"]
    IN  \A j \in 1 .. Len(S) :
           /\ DowngradeStatement("0002", S, j)
           /\ \A i \in 1 .. j - 1 : S[i].on # S[j].on
<1> DEFINE S == DowngradeFrom["0002"]
<1>1. /\ S \in Seq(Steps) /\ Len(S) = N + T + 1
      /\ \A k \in 1 .. N : S[k] = Do("drop", Tables[N + 1 - k].name)
      /\ \A k \in 1 .. T : S[N + k] = Do("remove", CreatedTypes[T + 1 - k].name)
      /\ S[N + T + 1] = Do("stamp", "0001")
  BY DowngradeOfTwo
<1> HIDE DEF S
<1>2. T \in Nat /\ N \in Nat
  BY PartsAre DEF T, N
<1>3. /\ \A k \in 1 .. N : N + 1 - k \in 1 .. N
      /\ \A k \in 1 .. T : T + 1 - k \in 1 .. T
  BY <1>2
<1>4. /\ \A k \in 1 .. T : CreatedTypes[k].name \in TypeNames
      /\ \A k, l \in 1 .. T : CreatedTypes[k].name = CreatedTypes[l].name => k = l
      /\ \A k \in 1 .. N : Tables[k].name \in TableNames
      /\ \A k, l \in 1 .. N : Tables[k].name = Tables[l].name => k = l
  BY TypesAre, TableNamesDiffer DEF T, N
<1>5. ASSUME NEW n \in TableNames
      PROVE  \E i \in 1 .. N : S[i] = Do("drop", n)
  <2>1. PICK l \in 1 .. N : Tables[l].name = n
    BY TableNamesDiffer DEF N
  <2>2. N + 1 - l \in 1 .. N /\ N + 1 - (N + 1 - l) = l
    BY <1>2
  <2> QED BY <2>1, <2>2, <1>1
<1>6. ASSUME NEW j \in 1 .. N
      PROVE  /\ S[j].kind = "drop" /\ S[j].on \in TableNames
             /\ \A t \in Range(Tables) : S[j].on \in t.references =>
                   \E i \in 1 .. j - 1 : S[i] = Do("drop", t.name)
  <2>1. S[j] = Do("drop", Tables[N + 1 - j].name)
    BY <1>1
  <2>2. S[j].kind = "drop" /\ S[j].on = Tables[N + 1 - j].name
    BY <2>1 DEF Do
  <2>3. S[j].on \in TableNames
    BY <2>2, <1>3, <1>4
  <2>4. ASSUME NEW t \in Range(Tables), S[j].on \in t.references
        PROVE  \E i \in 1 .. j - 1 : S[i] = Do("drop", t.name)
    <3>1. PICK m \in 1 .. N : t = Tables[m]
      BY TableNamesDiffer DEF Range, N
    <3>2. PICK l \in 1 .. N : l < m /\ Tables[l].name = S[j].on
      BY <2>4, <3>1, TablesOrdered DEF N
    <3>3. l = N + 1 - j
      BY <3>2, <2>2, <1>3, <1>4
    <3>4. N + 1 - m \in 1 .. j - 1 /\ N + 1 - m \in 1 .. N /\ N + 1 - (N + 1 - m) = m
      BY <3>2, <3>3, <1>2
    <3>5. S[N + 1 - m] = Do("drop", t.name)
      BY <3>1, <3>4, <1>1
    <3> QED BY <3>4, <3>5
  <2> QED BY <2>2, <2>3, <2>4
<1>7. ASSUME NEW j \in 1 .. Len(S), NEW k \in 1 .. T, j = N + k
      PROVE  /\ S[j].kind = "remove" /\ S[j].on \in TypeNames
             /\ \A n \in TableNames : \E i \in 1 .. j - 1 : S[i] = Do("drop", n)
  <2>1. S[j] = Do("remove", CreatedTypes[T + 1 - k].name)
    BY <1>1, <1>7
  <2>2. S[j].kind = "remove" /\ S[j].on = CreatedTypes[T + 1 - k].name
    BY <2>1 DEF Do
  <2>3. \A i \in 1 .. N : i \in 1 .. j - 1
    BY <1>2, <1>7
  <2> QED BY <2>2, <2>3, <1>3, <1>4, <1>5
<1>8. ASSUME NEW j \in 1 .. Len(S)
      PROVE  j \in 1 .. N \/ (\E k \in 1 .. T : j = N + k) \/ j = N + T + 1
  BY <1>1, DowngradeOfTwoPositions
<1>9. ASSUME NEW j \in 1 .. Len(S)
      PROVE  DowngradeStatement("0002", S, j)
  BY <1>1, <1>6, <1>7, <1>8 DEF DowngradeStatement
<1>10. ASSUME NEW j \in 1 .. Len(S), NEW i \in 1 .. j - 1
       PROVE  S[i].on # S[j].on
  <2>1. /\ \A k \in 1 .. N : S[k].on = Tables[N + 1 - k].name
        /\ \A k \in 1 .. T : S[N + k].on = CreatedTypes[T + 1 - k].name
        /\ S[N + T + 1].on = "0001"
    <3>1. \A k, n : Do(k, n).on = n
      BY DEF Do
    <3> QED BY <3>1, <1>1
  <2>2. /\ TableNames \cap TypeNames = {}
        /\ \A n \in TableNames \cup TypeNames : n # "0001"
    BY NamesDiffer, RevisionsAre DEF Domain
  <2>3. j \in Nat /\ i \in Nat /\ i < j /\ i >= 1 /\ j <= N + T + 1 /\ i \in 1 .. Len(S)
    BY <1>1, <1>2
  <2>4. CASE j \in 1 .. N
    <3>1. i \in 1 .. N /\ N + 1 - i \in 1 .. N /\ N + 1 - j \in 1 .. N
          /\ N + 1 - i # N + 1 - j
      BY <2>3, <2>4, <1>2
    <3> QED BY <3>1, <2>1, <2>4, <1>4
  <2>5. ASSUME NEW k \in 1 .. T, j = N + k
        PROVE  S[i].on # S[j].on
    <3>1. S[j].on = CreatedTypes[T + 1 - k].name /\ T + 1 - k \in 1 .. T
      BY <2>1, <2>5, <1>3
    <3>2. CASE i \in 1 .. N
      BY <3>1, <3>2, <2>1, <2>2, <1>3, <1>4
    <3>3. ASSUME NEW l \in 1 .. T, i = N + l
          PROVE  S[i].on # S[j].on
      <4>1. T + 1 - l \in 1 .. T /\ T + 1 - l # T + 1 - k
        BY <3>3, <2>3, <2>5, <1>2
      <4> QED BY <3>1, <3>3, <4>1, <2>1, <1>4
    <3>4. i # N + T + 1
      BY <2>3, <2>5, <1>2
    <3> QED BY <3>2, <3>3, <3>4, <2>3, <1>8
  <2>6. CASE j = N + T + 1
    <3>1. i # N + T + 1
      BY <2>3, <2>6, <1>2
    <3>2. S[i].on \in TableNames \cup TypeNames
      BY <3>1, <2>3, <1>6, <1>7, <1>8
    <3> QED BY <3>2, <2>1, <2>2, <2>6
  <2> QED BY <2>4, <2>5, <2>6, <1>8
<1> QED BY <1>9, <1>10 DEF S

\* Every statement of every downgrade is as described, and none comes twice.
LEMMA DowngradeStatements ==
    ASSUME NEW v \in Range(Revisions)
    PROVE  LET S == DowngradeFrom[v]
           IN  /\ S \in Seq(Steps)
               /\ \A j \in 1 .. Len(S) :
                     /\ DowngradeStatement(v, S, j)
                     /\ \A i \in 1 .. j - 1 : S[i].on # S[j].on
<1>1. ASSUME NEW S \in Seq(Steps), Len(S) > 1, Len(S) < 3, S[1].on # S[2].on
      PROVE  /\ \A j \in 1 .. Len(S) : j = 1 \/ j = 2
             /\ \A j \in 1 .. Len(S) : \A i \in 1 .. j - 1 : S[i].on # S[j].on
  BY <1>1
<1>2. CASE v = "base"
  <2> DEFINE S == DowngradeFrom["base"]
  <2>1. /\ S \in Seq(Steps) /\ Len(S) > 1 /\ Len(S) < 3
        /\ S[1] = Do("ensure", VersionTable) /\ S[2] = Do("refuse", "base")
    BY ShortScripts
  <2> HIDE DEF S
  <2>2. S[1].on # S[2].on
    BY <2>1 DEF Do, VersionTable
  <2>3. \A j \in 1 .. Len(S) : DowngradeStatement("base", S, j)
    BY <2>1, <2>2, <1>1 DEF DowngradeStatement
  <2> QED BY <2>1, <2>2, <2>3, <1>1, <1>2 DEF S
<1>3. CASE v = "0001"
  <2> DEFINE S == DowngradeFrom["0001"]
             x == Do("stamp", "base")
  <2>1. S = <<x>>
    BY ShortScripts
  <2>2. x \in Steps
    BY RevisionsAre DEF Do, Steps, Kinds
  <2> HIDE DEF S, x
  <2>3. S \in Seq(Steps) /\ S[1] = x /\ \A j \in 1 .. Len(S) : j = 1
    BY <2>1, <2>2
  <2>4. \A j \in 1 .. Len(S) : DowngradeStatement("0001", S, j)
    BY <2>3 DEF DowngradeStatement, x
  <2> QED BY <2>3, <2>4, <1>3 DEF S
<1>4. CASE v = "0002"
  BY <1>4, DowngradeOfTwo, DowngradeOfTwoStatements
<1>5. CASE v = "0003"
  <2> DEFINE S == DowngradeFrom["0003"]
  <2>1. /\ S \in Seq(Steps) /\ Len(S) > 1 /\ Len(S) < 3
        /\ S[1] = Do("discard", Hash) /\ S[2] = Do("stamp", "0002")
    BY ShortScripts
  <2> HIDE DEF S
  <2>2. S[1].on # S[2].on
    BY <2>1 DEF Do, Hash
  <2>3. \A j \in 1 .. Len(S) : DowngradeStatement("0003", S, j)
    BY <2>1, <2>2, <1>1 DEF DowngradeStatement
  <2> QED BY <2>1, <2>2, <2>3, <1>1, <1>5 DEF S
<1> QED BY <1>2, <1>3, <1>4, <1>5, RevisionsAre

\* What a downgrade has done when it is through.
LEMMA DowngradeThrough ==
    /\ LET S == DowngradeFrom["0001"]
       IN  Len(S) \in Nat \ {0} /\ S[Len(S)] = Do("stamp", "base")
    /\ LET S == DowngradeFrom["0002"]
       IN  /\ Len(S) \in Nat \ {0} /\ S[Len(S)] = Do("stamp", "0001")
           /\ \A n \in TableNames : \E i \in 1 .. Len(S) : S[i] = Do("drop", n)
           /\ \A n \in TypeNames : \E i \in 1 .. Len(S) : S[i] = Do("remove", n)
    /\ LET S == DowngradeFrom["0003"]
       IN  /\ Len(S) \in Nat \ {0} /\ S[Len(S)] = Do("stamp", "0002")
           /\ \E i \in 1 .. Len(S) : S[i] = Do("discard", Hash)
    /\ LET S == DowngradeFrom["base"]
       IN  Len(S) \in Nat \ {0} /\ S[Len(S)] = Do("refuse", "base")
<1>1. ASSUME NEW S \in Seq(Steps), Len(S) > 1, Len(S) < 3
      PROVE  Len(S) \in Nat \ {0} /\ S[Len(S)] = S[2] /\ 1 \in 1 .. Len(S)
  BY <1>1
<1>2. LET S == DowngradeFrom["base"]
      IN  Len(S) \in Nat \ {0} /\ S[Len(S)] = Do("refuse", "base")
  BY <1>1, ShortScripts
<1>3. LET S == DowngradeFrom["0003"]
      IN  /\ Len(S) \in Nat \ {0} /\ S[Len(S)] = Do("stamp", "0002")
          /\ \E i \in 1 .. Len(S) : S[i] = Do("discard", Hash)
  BY <1>1, ShortScripts
<1>4. LET S == DowngradeFrom["0001"]
      IN  Len(S) \in Nat \ {0} /\ S[Len(S)] = Do("stamp", "base")
  <2> DEFINE x == Do("stamp", "base")
  <2> HIDE DEF x
  <2>1. Len(<<x>>) \in Nat \ {0} /\ <<x>>[Len(<<x>>)] = x
    OBVIOUS
  <2>2. DowngradeFrom["0001"] = <<x>>
    BY ShortScripts DEF x
  <2> QED BY <2>1, <2>2 DEF x
<1>5. LET S == DowngradeFrom["0002"]
      IN  /\ Len(S) \in Nat \ {0} /\ S[Len(S)] = Do("stamp", "0001")
          /\ \A n \in TableNames : \E i \in 1 .. Len(S) : S[i] = Do("drop", n)
          /\ \A n \in TypeNames : \E i \in 1 .. Len(S) : S[i] = Do("remove", n)
  <2> DEFINE S == DowngradeFrom["0002"]
  <2>1. /\ S \in Seq(Steps) /\ Len(S) = N + T + 1
        /\ \A k \in 1 .. N : S[k] = Do("drop", Tables[N + 1 - k].name)
        /\ \A k \in 1 .. T : S[N + k] = Do("remove", CreatedTypes[T + 1 - k].name)
        /\ S[N + T + 1] = Do("stamp", "0001")
    BY DowngradeOfTwo
  <2> HIDE DEF S
  <2>2. T \in Nat /\ N \in Nat
    BY PartsAre DEF T, N
  <2>3. Len(S) \in Nat \ {0}
    BY <2>1, <2>2
  <2>4. ASSUME NEW n \in TableNames
        PROVE  \E i \in 1 .. Len(S) : S[i] = Do("drop", n)
    <3>1. PICK l \in 1 .. N : Tables[l].name = n
      BY TableNamesDiffer DEF N
    <3>2. /\ N + 1 - l \in 1 .. N /\ N + 1 - (N + 1 - l) = l
          /\ N + 1 - l \in 1 .. N + T + 1
      BY <2>2
    <3> QED BY <3>1, <3>2, <2>1
  <2>5. ASSUME NEW n \in TypeNames
        PROVE  \E i \in 1 .. Len(S) : S[i] = Do("remove", n)
    <3>1. PICK l \in 1 .. T : CreatedTypes[l].name = n
      BY TypesAre DEF T
    <3>2. /\ T + 1 - l \in 1 .. T /\ T + 1 - (T + 1 - l) = l
          /\ N + (T + 1 - l) \in 1 .. N + T + 1
      BY <2>2
    <3>3. S[N + (T + 1 - l)] = Do("remove", n)
      BY <3>1, <3>2, <2>1
    <3> QED BY <3>2, <3>3, <2>1
  <2>6. S[Len(S)] = Do("stamp", "0001")
    BY <2>1
  <2> QED BY <2>3, <2>4, <2>5, <2>6 DEF S
<1> QED BY <1>2, <1>3, <1>4, <1>5

\* The plans of the sessions name tables, and a request begins with users.
LEMMA PlansAre ==
    /\ ClientPlan \in Seq(TableNames) /\ SeedPlan \in Seq(TableNames)
    /\ ClientPlan[1] = "users" /\ Len(ClientPlan) > 0
<1> DEFINE A == Authenticate
           B == <<"countries", "institutions", "programs", "enrolment_applications">>
<1>1. A \in Seq(TableNames) /\ B \in Seq(TableNames)
  BY DEF Authenticate, TableNames, CoreNames, StudentNames, CreditNames
<1>2. A[1] = "users" /\ Len(A) > 0
  BY DEF Authenticate
<1>3. ClientPlan = A \o B
  BY DEF ClientPlan
<1>4. SeedPlan \in Seq(TableNames)
  BY DEF SeedPlan, TableNames, CoreNames, StudentNames, CreditNames
<1> HIDE DEF A, B
<1>5. /\ A \o B \in Seq(TableNames) /\ Len(A \o B) = Len(A) + Len(B)
      /\ \A i \in 1 .. Len(A) : (A \o B)[i] = A[i]
  BY <1>1, Concatenated
<1> QED BY <1>1, <1>2, <1>3, <1>4, <1>5
=============================================================================
