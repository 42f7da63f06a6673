------------------------ MODULE UsNdCustomEnumParsers ------------------------
(***************************************************************************)
(* The US_ND custom enum parsers (us_nd_custom_enum_parsers.py) that must  *)
(* agree with one another on one raw text.  The ingest view manifest (not  *)
(* under src/) maps a row by calling every parser of its fields on the     *)
(* same column:                                                             *)
(*  - an incarceration period's "FACILITY-DATETIME" text gives both its    *)
(*    custodial authority and its specialized purpose for incarceration;   *)
(*  - a supervision contact's "CODE-CODE-..." text gives its type,         *)
(*    location, status and method.                                          *)
(* Each parser keeps its own code lists.  A result is an enum value's name *)
(* or the name of the exception the parser raises.                          *)
(*                                                                         *)
(* The parsers change no state: they are operators.  One step, MapView,    *)
(* applies them to every raw text the bounded inputs describe, as the      *)
(* manifest does to the rows of a view, and the properties are stated on   *)
(* what it produced.  A datetime string is one of a few strings, and       *)
(* parse_datetime (not under src/) is what it makes of them: a day         *)
(* relative to 2017-07-01, or None.  A period text with no "-" is          *)
(* "no_dash".  A facility is a listed code or "UNMAPPED"; a contact code   *)
(* outside every list is "OTHER".                                           *)
(***************************************************************************)
EXTENDS Integers, FiniteSets

\* OTHER_STATE_FACILITY
OtherStateFacility == {"OOS", "OS", "MINN", "SD"}

\* The codes both maps list under the same comment: ND judicial districts
\* and federal court, and the state facilities.
JudicialDistricts == {"NW", "SC", "SW", "SE", "EAST", "NE", "NEC", "NC", "FD"}
StateFacilities ==
    {"BTC", "BTCWTR", "CONT", "CPP", "DWCRC", "FTPFAR", "FTPMND", "GFC",
     "HACTC", "HRCC", "INACT", "JRCC", "LRRP", "MRCC", "MTPFAR", "MTPMDN",
     "MTPMND", "NCCRC", "NDSP", "OUT", "PREA", "PROB", "TABLET", "TRC",
     "TRCC", "TRN", "YCC", "JRMU", "DWCRC1"}

\* POST_JULY_2017_CUSTODIAL_AUTHORITY_ENUM_MAP as a sequence of its items.
PostJuly2017CustodialAuthorityEnumMap ==
    << <<"COUNTY", {"CJ", "DEFP"} \cup JudicialDistricts>>,
       <<"EXTERNAL_UNKNOWN", {"NTAD"}>>,
       <<"STATE_PRISON", StateFacilities>> >>

\* Mutant: NTAD left out of the temporary custody codes.
PostJuly2017PfiEnumMapWithoutNtad ==
    << <<"TEMPORARY_CUSTODY", {"CJ", "DEFP"} \cup JudicialDistricts>>,
       <<"GENERAL", StateFacilities>> >>

\* POST_JULY_2017_PFI_ENUM_MAP as a sequence of its items.
PostJuly2017PfiEnumMap ==
    << <<"TEMPORARY_CUSTODY", {"CJ", "DEFP", "NTAD"} \cup JudicialDistricts>>,
       <<"GENERAL", StateFacilities>> >>

\* The *_RAW_TEXT_TO_ENUM_MAP dict comprehensions: every listed code maps
\* to its enum; a code listed under two enums keeps the later item, whose
\* key overwrites the earlier one.
RawTextToEnumMap(items) ==
    LET codes == UNION {items[k][2] : k \in DOMAIN items}
        last(c) == CHOOSE k \in DOMAIN items :
                      /\ c \in items[k][2]
                      /\ \A m \in DOMAIN items : c \in items[m][2] => m <= k
    IN [c \in codes |-> items[last(c)][1]]

PostJuly2017CustodialAuthorityRawTextToEnumMap ==
    RawTextToEnumMap(PostJuly2017CustodialAuthorityEnumMap)

PostJuly2017PfiRawTextToEnumMap == RawTextToEnumMap(PostJuly2017PfiEnumMap)

-----------------------------------------------------------------------------
(* Incarceration period parsers                                            *)

\* parse_datetime on the date strings of the model: the day relative to
\* the cutoff; any other string does not parse.
ParsedDay == [d \in {"2017-06-30", "2017-07-01", "2017-07-02"} |->
                 CASE d = "2017-06-30" -> -1
                   [] d = "2017-07-01" -> 0
                   [] d = "2017-07-02" -> 1]

\* _datetime_str_is_before_2017_custodial_authority_cutoff: raises when the
\* string does not parse, else compares with 2017-07-01 00:00.
CutoffUnparseable(d) == d \notin DOMAIN ParsedDay
IsBeforeCutoff(d) == ParsedDay[d] < 0

\* custodial_authority_from_facility_and_dates and
\* pfi_from_facility_and_dates share this shape: split on the first "-",
\* the other-state result, the pre-cutoff result, then the post-July-2017
\* map or a raise.
FromFacilityAndDates(f, d, otherState, beforeCutoff, rawTextMap) ==
    CASE d = "no_dash" -> "ValueError"
      [] f \in OtherStateFacility -> otherState
      [] CutoffUnparseable(d) -> "EnumParsingError"
      [] IsBeforeCutoff(d) -> beforeCutoff
      [] f \notin DOMAIN rawTextMap -> "EnumParsingError"
      [] OTHER -> rawTextMap[f]

CustodialAuthorityFromFacilityAndDates(f, d) ==
    FromFacilityAndDates(f, d, "OTHER_STATE", "STATE_PRISON",
                         PostJuly2017CustodialAuthorityRawTextToEnumMap)

PfiFromFacilityAndDates(f, d) ==
    FromFacilityAndDates(f, d, "INTERNAL_UNKNOWN", "GENERAL",
                         PostJuly2017PfiRawTextToEnumMap)

-----------------------------------------------------------------------------
(* Supervision contact parsers; codes is the set raw_text.split("-") holds *)

\* The face-to-face code FF and its placeholders HV, OO and OV.
FaceToFace == {"FF", "HV", "OO", "OV"}

SupervisionContactTypeMapper(codes) ==
    CASE codes \cap FaceToFace # {} /\ "CC" \in codes -> "BOTH_COLLATERAL_AND_DIRECT"
      [] codes \cap FaceToFace # {} -> "DIRECT"
      [] "CC" \in codes -> "COLLATERAL"
      [] OTHER -> "INTERNAL_UNKNOWN"

\* Home visits first, then employment, then the supervising office.
SupervisionContactLocationMapper(codes) ==
    CASE "HV" \in codes -> "RESIDENCE"
      [] "OO" \in codes -> "PLACE_OF_EMPLOYMENT"
      [] "OV" \in codes -> "SUPERVISION_OFFICE"
      [] OTHER -> "INTERNAL_UNKNOWN"

SupervisionContactStatusMapper(codes) ==
    IF codes \cap {"AC", "NS"} # {} THEN "ATTEMPTED" ELSE "COMPLETED"

\* Mutant: OV missing from the in-person codes.
SupervisionContactMethodMapperWithoutOV(codes) ==
    CASE codes \cap {"FF", "HV", "OO"} # {} -> "IN_PERSON"
      [] "OC" \in codes -> "VIRTUAL"
      [] OTHER -> "INTERNAL_UNKNOWN"

SupervisionContactMethodMapper(codes) ==
    CASE codes \cap FaceToFace # {} -> "IN_PERSON"
      [] "OC" \in codes -> "VIRTUAL"
      [] OTHER -> "INTERNAL_UNKNOWN"

-----------------------------------------------------------------------------
(* Bounded inputs                                                          *)

Facilities ==
    OtherStateFacility \cup {"UNMAPPED"}
      \cup DOMAIN PostJuly2017CustodialAuthorityRawTextToEnumMap
      \cup DOMAIN PostJuly2017PfiRawTextToEnumMap
DateTexts == {"no_dash", "not a date"} \cup DOMAIN ParsedDay

\* Every non-empty set of codes a contact text can hold.
ContactCodeSets ==
    SUBSET {"FF", "HV", "OO", "OV", "CC", "AC", "NS", "OC", "OTHER"} \ {{}}

Errors == {"ValueError", "EnumParsingError"}

-----------------------------------------------------------------------------
(* Mapping the rows of a view                                              *)

Unmapped == <<>>

VARIABLE parsed  \* the fields the parsers gave every raw text, or Unmapped

\* The manifest's $custom_parser calls on every row of a view: each period
\* text goes to both period parsers, each contact text to the four
\* contact parsers.
MapView ==
    /\ parsed = Unmapped
    /\ parsed' =
         [periods |->
            [x \in Facilities \X DateTexts |->
               [custodial_authority |-> CustodialAuthorityFromFacilityAndDates(x[1], x[2]),
                specialized_purpose_for_incarceration |-> PfiFromFacilityAndDates(x[1], x[2])]],
          contacts |->
            [c \in ContactCodeSets |->
               [contact_type |-> SupervisionContactTypeMapper(c),
                location |-> SupervisionContactLocationMapper(c),
                status |-> SupervisionContactStatusMapper(c),
                contact_method |-> SupervisionContactMethodMapper(c)]]]

ParserInit == parsed = Unmapped

-----------------------------------------------------------------------------
(* Properties                                                              *)

\* The custodial authority and the purpose of one period, as the comments
\* of the two parsers pair them: other states with an unknown purpose,
\* DOCR (all of ND before July 2017) with general incarceration, county
\* and unknown external custody with temporary custody.
AuthorityPurposePairs ==
    {<<"OTHER_STATE", "INTERNAL_UNKNOWN">>, <<"STATE_PRISON", "GENERAL">>,
     <<"COUNTY", "TEMPORARY_CUSTODY">>,
     <<"EXTERNAL_UNKNOWN", "TEMPORARY_CUSTODY">>}

\* custodial_authority_from_facility_and_dates and
\* pfi_from_facility_and_dates parse the same period text against code
\* lists kept apart: for every facility and date they raise together, and
\* when they return, the authority and the purpose fit each other.  A code
\* added to one list and not the other fails a row half-way or gives a
\* county jail a general purpose.
FacilityParsersAgree ==
    parsed # Unmapped =>
    \A x \in DOMAIN parsed.periods :
        LET a == parsed.periods[x].custodial_authority
            p == parsed.periods[x].specialized_purpose_for_incarceration
        IN /\ (a \in Errors) <=> (p \in Errors)
           /\ a \notin Errors => <<a, p>> \in AuthorityPurposePairs

\* The contact type, location and method mappers keep their own code
\* lists; for every set of codes, a contact is in person exactly when it is
\* direct (face to face, with or without a collateral contact), and a
\* contact with a known location is in person.
ContactFieldsAgree ==
    parsed # Unmapped =>
    \A c \in DOMAIN parsed.contacts :
        LET r == parsed.contacts[c]
        IN /\ (r.contact_method = "IN_PERSON")
                 <=> (r.contact_type \in {"DIRECT", "BOTH_COLLATERAL_AND_DIRECT"})
           /\ r.location # "INTERNAL_UNKNOWN" => r.contact_method = "IN_PERSON"
=============================================================================
