----------------------------- MODULE DomainSchema -----------------------------
(***************************************************************************)
(* What the migrations make of the database, and what the ORM entities     *)
(* expect to find there: tables, the tables their foreign keys reference,  *)
(* the enum types of their columns, and the labels of those types.         *)
(* Other columns, indexes and checks are left out, but for the one column  *)
(* that has a revision of its own.                                         *)
(***************************************************************************)
EXTENDS FiniteSets, Sequences

Table(name, references, types) ==
    [name |-> name, references |-> references, types |-> types]

Type(name, labels) == [name |-> name, labels |-> labels]

Workflow == {"DRAFT", "SUBMITTED", "UNDER_REVIEW", "MORE_INFORMATION_REQUIRED",
             "APPROVED", "REJECTED"}

-----------------------------------------------------------------------------
(* Revision 0002, in the order of its upgrade().                            *)

CreatedTypes == <<
    Type("role_name", {"STUDENT", "LECTURER", "ENROLMENT_OFFICER",
                       "CREDIT_MAPPING_OFFICER", "ADMINISTRATOR"}),
    Type("institution_type", {"UNIVERSITY", "COLLEGE", "VOCATIONAL", "OTHER"}),
    Type("student_status", {"PROSPECTIVE", "ACTIVE", "INACTIVE", "COMPLETED",
                            "WITHDRAWN"}),
    Type("credit_system", {"AU_CREDIT_POINTS", "ECTS", "US_CREDIT_HOURS",
                           "UK_CREDITS"}),
    Type("enrolment_application_status", Workflow),
    Type("external_profile_type", {"LINKEDIN", "PORTFOLIO", "PROFESSIONAL_PROFILE",
                                   "OTHER"}),
    Type("student_document_type", {"TRANSCRIPT", "CERTIFICATE", "COURSE_OUTLINE",
        "ACADEMIC_RECORD", "IDENTIFICATION", "EMPLOYMENT_EVIDENCE",
        "PROFESSIONAL_CERTIFICATE", "OTHER"}),
    Type("student_document_status", {"PENDING", "QUARANTINED", "CLEAN", "REJECTED",
                                     "ARCHIVED"}),
    Type("credit_mapping_request_status", Workflow),
    Type("credit_mapping_decision_value", {"APPROVED", "REJECTED",
                                           "MORE_INFORMATION_REQUIRED"}) >>

CreatedCore == <<
    Table("countries", {}, {}),
    Table("users", {}, {}),
    Table("roles", {}, {"role_name"}),
    Table("institutions", {"countries"}, {"institution_type"}),
    Table("user_roles", {"users", "roles"}, {}),
    Table("programs", {"institutions"}, {"credit_system"}),
    Table("courses", {"institutions", "programs"}, {"credit_system"}) >>

CreatedStudent == <<
    Table("students", {"users", "countries", "institutions", "programs"},
          {"student_status"}),
    Table("student_profiles", {"students", "countries"}, {}),
    Table("enrolment_applications", {"students", "programs", "users"},
          {"enrolment_application_status"}),
    Table("previous_educations", {"students", "institutions", "countries"}, {}),
    Table("previous_courses", {"previous_educations"}, {"credit_system"}),
    Table("qualifications", {"students", "countries"}, {}),
    Table("external_profile_links", {"students"}, {"external_profile_type"}),
    Table("student_documents", {"students"},
          {"student_document_type", "student_document_status"}) >>

\* The next definition with a plausible bug in it, for the mutation runs: a
\* foreign key is forgotten.
CreditWithoutReviewer == <<
    Table("credit_mapping_requests",
          {"students", "previous_courses", "courses", "users"},
          {"credit_mapping_request_status"}),
    Table("credit_mapping_evidence",
          {"credit_mapping_requests", "student_documents"}, {}),
    Table("credit_mapping_decisions", {"credit_mapping_requests"},
          {"credit_mapping_decision_value"}),
    Table("historical_credit_mappings", {"institutions", "courses"},
          {"credit_mapping_decision_value"}) >>

CreatedCredit == <<
    Table("credit_mapping_requests",
          {"students", "previous_courses", "courses", "users"},
          {"credit_mapping_request_status"}),
    Table("credit_mapping_evidence",
          {"credit_mapping_requests", "student_documents"}, {}),
    Table("credit_mapping_decisions", {"credit_mapping_requests", "users"},
          {"credit_mapping_decision_value"}),
    Table("historical_credit_mappings", {"institutions", "courses"},
          {"credit_mapping_decision_value"}) >>

-----------------------------------------------------------------------------
(* The classes of the entities and of domain/enums.py.                      *)

EnumTypes == {
    Type("role_name", {"STUDENT", "LECTURER", "ENROLMENT_OFFICER",
                       "CREDIT_MAPPING_OFFICER", "ADMINISTRATOR"}),
    Type("institution_type", {"UNIVERSITY", "COLLEGE", "VOCATIONAL", "OTHER"}),
    Type("student_status", {"PROSPECTIVE", "ACTIVE", "INACTIVE", "COMPLETED",
                            "WITHDRAWN"}),
    Type("credit_system", {"AU_CREDIT_POINTS", "ECTS", "US_CREDIT_HOURS",
                           "UK_CREDITS"}),
    Type("enrolment_application_status", Workflow),
    Type("external_profile_type", {"LINKEDIN", "PORTFOLIO", "PROFESSIONAL_PROFILE",
                                   "OTHER"}),
    Type("student_document_type", {"TRANSCRIPT", "CERTIFICATE", "COURSE_OUTLINE",
        "ACADEMIC_RECORD", "IDENTIFICATION", "EMPLOYMENT_EVIDENCE",
        "PROFESSIONAL_CERTIFICATE", "OTHER"}),
    Type("student_document_status", {"PENDING", "QUARANTINED", "CLEAN", "REJECTED",
                                     "ARCHIVED"}),
    Type("credit_mapping_request_status", Workflow),
    Type("credit_mapping_decision_value", {"APPROVED", "REJECTED",
                                           "MORE_INFORMATION_REQUIRED"})}

AccountEntities == {
    Table("users", {}, {}),
    Table("roles", {}, {"role_name"}),
    Table("user_roles", {"users", "roles"}, {})}

PlaceEntities == {
    Table("countries", {}, {}),
    Table("institutions", {"countries"}, {"institution_type"})}

CatalogueEntities == {
    Table("programs", {"institutions"}, {"credit_system"}),
    Table("courses", {"institutions", "programs"}, {"credit_system"})}

StudentEntities == {
    Table("students", {"users", "countries", "institutions", "programs"},
          {"student_status"}),
    Table("student_profiles", {"students", "countries"}, {}),
    Table("enrolment_applications", {"students", "programs", "users"},
          {"enrolment_application_status"})}

PriorLearningEntities == {
    Table("previous_educations", {"students", "institutions", "countries"}, {}),
    Table("previous_courses", {"previous_educations"}, {"credit_system"}),
    Table("qualifications", {"students", "countries"}, {}),
    Table("external_profile_links", {"students"}, {"external_profile_type"}),
    Table("student_documents", {"students"},
          {"student_document_type", "student_document_status"})}

CreditEntities == {
    Table("credit_mapping_requests",
          {"students", "previous_courses", "courses", "users"},
          {"credit_mapping_request_status"}),
    Table("credit_mapping_evidence",
          {"credit_mapping_requests", "student_documents"}, {}),
    Table("credit_mapping_decisions", {"credit_mapping_requests", "users"},
          {"credit_mapping_decision_value"}),
    Table("historical_credit_mappings", {"institutions", "courses"},
          {"credit_mapping_decision_value"})}

Entities == AccountEntities \cup PlaceEntities \cup CatalogueEntities
            \cup StudentEntities \cup PriorLearningEntities \cup CreditEntities
=============================================================================
