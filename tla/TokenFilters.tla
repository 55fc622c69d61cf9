----------------------------- MODULE TokenFilters -----------------------------
(***************************************************************************)
(* The filters of the desktop client (tokenir_ui/src/filter.rs): which     *)
(* tokens a FilterSet lets through.                                        *)
(***************************************************************************)
EXTENDS Naturals

CONSTANTS None

Tag == {"AverageDevMarketCap", "MigrationPercentage", "TokenCount"}

\* A half-open range of the standard library.
Range == [start : Nat, end : Nat]
Contains(range, n) == range.start <= n /\ n < range.end

FilterSet == [Tag -> Range \cup {None}]
NoFilters == [tag \in Tag |-> None]
add_filter(fs, tag, range) == [fs EXCEPT ![tag] = range]

(***************************************************************************)
(* Of a token: the creator of its community; the median all-time high of   *)
(* its developer's tokens as the server sent it; what the history of its   *)
(* developer says, with the percentage as f32 arithmetic rounds it; whether *)
(* whitelist.txt names its developer.                                      *)
(***************************************************************************)
History == [count : Nat, percent : Nat]
Token(Creators) == [creator : Creators \cup {None}, perf : Nat \cup {None},
                    migrated : History \cup {None}, whitelisted : BOOLEAN]

\* An absent filter fails, and so does one whose input is absent, except that
\* a developer without a history has migrated 0 % of the tokens.
McapOk(fs, avg) ==
    LET range == fs["AverageDevMarketCap"]
    IN range # None /\ avg # None /\ Contains(range, avg)
MigrationOk(fs, t) ==
    LET range == fs["MigrationPercentage"]
    IN range # None /\ Contains(range, IF t.migrated = None THEN 0 ELSE t.migrated.percent)
TokenCountOk(fs, t) ==
    LET range == fs["TokenCount"]
    IN range # None /\ t.migrated # None /\ Contains(range, t.migrated.count)

matches(fs, t, avg) ==
    \/ McapOk(fs, avg)
    \/ MigrationOk(fs, t) /\ TokenCountOk(fs, t) /\ t.perf = None
=============================================================================
