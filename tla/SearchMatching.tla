--------------------------- MODULE SearchMatching ---------------------------
(***************************************************************************)
(* One listing, one query: how the extraction writes the listing           *)
(* (services/extraction.py), how the wizard, the free-text search and the  *)
(* API turn a query into criteria, and which listings and in which order   *)
(* the three implementations of the search return: the SQLAlchemy one the  *)
(* runtime uses, the asyncpg one, and announcement_matches, which decides  *)
(* whom a new listing is notified to.                                      *)
(***************************************************************************)
EXTENDS Integers, FiniteSets

CONSTANTS
  Null,      \* SQL null, Python None
  Prices,    \* prices written in listings
  Bounds     \* price bounds of queries

VARIABLES
  raw,       \* what the model extracted from the listing's text
  listing,   \* the canonical listing, Null before it is normalised
  query,     \* the query as the user gave it, Null before
  criteria   \* the SearchCriteria made of it, Null before

vars == <<raw, listing, query, criteria>>

\* Ways of writing a district, one for every way the extraction's table (line 253
\* of extraction.py), the wizard's and the free-text search's may know a word or
\* not; in Cyrillic where marked.
Written == {
  "yunusobod",          \* the name itself, in all three
  "yunusabad",          \* another word for it, in all three
  "mirzo ulug'bek",     \* in all three: the extraction's name
  "mirzo ulugbek",      \*   and the two others' name for it
  "cyr mirzo ulugbek",  \*   not in the wizard's
  "cyr chilonzor",      \* not in the wizard's
  "chilanazar",         \* not in the extraction's
  "cyr yashnabad",      \* in the free-text search's only
  "yashnabad",          \* in the extraction's only
  "yangihayot",         \*   which is the name itself
  "other"}              \* in none

\* The names the tables give them.  Names are compared without regard to case.
Names == {"yunusobod", "mirzo ulug'bek", "mirzo ulugbek", "chilonzor", "yashnobod", "yangihayot"}

\* Prices are whole numbers, and null is neither a number nor a district's name.
Constants ==
  /\ Prices \subseteq Nat /\ Bounds \subseteq Nat
  /\ Null \notin Int
  /\ Null \notin Written \cup Names

Sorts == {"newest", "cheapest", "price_desc"}

\* ListingExtractionRaw, by what the search tells apart; the district stands for
\* every field compared for equality.
RawListings ==
  [price: Prices \cup {Null}, period: {"daily", "monthly", "one_time", Null},
   basis: {"per_person", Null}, district: Written \cup {Null},
   tagged: BOOLEAN, excluded: BOOLEAN]

\* NlpSearchExtractionRaw and the query parameters of the two search routes.
Queries ==
  [from: {"wizard", "nlp", "api"}, min: Bounds \cup {Null}, max: Bounds \cup {Null},
   perPerson: BOOLEAN, district: Written \cup {Null}, tag: BOOLEAN]

Init ==
  /\ raw \in RawListings
  /\ listing = Null
  /\ query = Null
  /\ criteria = Null

-----------------------------------------------------------------------------
(* The listing                                                             *)

NormalizedMonthly(price, period) ==
  IF price = Null \/ period = "one_time" THEN Null
  ELSE IF period = "daily" THEN price * 30 ELSE price

\* _normalize_district: a word that is not in the table stays as it is written.
ListingDistrict(written) ==
  CASE written \in {"yunusobod", "yunusabad"} -> "yunusobod"
    [] written \in {"mirzo ulug'bek", "mirzo ulugbek", "cyr mirzo ulugbek"} -> "mirzo ulug'bek"
    [] written = "cyr chilonzor" -> "chilonzor"
    [] written = "yashnabad" -> "yashnobod"
    [] OTHER -> written

Or(value, default) == IF value = Null THEN default ELSE value

\* An admin may archive it and the dedup stage may give it a parent.
NormalizeListing ==
  /\ listing = Null
  /\ \E status \in {"active", "archived"}, child \in BOOLEAN :
       /\ status = "archived" => ~child
       /\ LET period == Or(raw.period, "monthly") IN
          listing' = [period |-> period, basis |-> Or(raw.basis, "total"),
                      monthly |-> NormalizedMonthly(raw.price, period),
                      district |-> ListingDistrict(raw.district),
                      tags |-> IF raw.tagged THEN {"family"} ELSE {},
                      excludedTags |-> IF raw.excluded THEN {"family"} ELSE {},
                      status |-> status, child |-> child]
  /\ UNCHANGED <<raw, query, criteria>>

-----------------------------------------------------------------------------
(* The query                                                               *)

\* The wizard's KNOWN_DISTRICTS.
WizardDistrict(written) ==
  CASE written \in {"yunusobod", "yunusabad"} -> "yunusobod"
    [] written \in {"mirzo ulug'bek", "mirzo ulugbek"} -> "mirzo ulugbek"
    [] written = "chilanazar" -> "chilonzor"
    [] OTHER -> Null

\* The free-text search's _DISTRICT_ALIASES: the wizard's and some in Cyrillic.
NlpDistrict(written) ==
  CASE written = "cyr mirzo ulugbek" -> "mirzo ulugbek"
    [] written = "cyr chilonzor" -> "chilonzor"
    [] written = "cyr yashnabad" -> "yashnobod"
    [] OTHER -> WizardDistrict(written)

\* The wizard refuses a district it does not know, the free-text search leaves
\* it out of the criteria, the API takes the word it is given.
WizardAccepts(q) == q.min = Null /\ (q.district = Null \/ WizardDistrict(q.district) # Null)

NlpAccepts(q) == q.min = Null

ApiAccepts(q) == TRUE

Accepts(q) ==
  CASE q.from = "wizard" -> WizardAccepts(q)
    [] q.from = "nlp" -> NlpAccepts(q)
    [] OTHER -> ApiAccepts(q)

\* SearchCriteria.validate_price_range.
ValidRange(q) == (q.min # Null /\ q.max # Null) => q.min <= q.max

HasPriceFilter(c) == c.min # Null \/ c.max # Null

Districts(q) ==
  LET name == CASE q.from = "wizard" -> WizardDistrict(q.district)
                [] q.from = "nlp" -> NlpDistrict(q.district)
                [] OTHER -> q.district
  IN  {name} \ {Null}

MakeCriteria ==
  /\ listing # Null /\ query = Null
  /\ \E q \in Queries :
       /\ Accepts(q) /\ ValidRange(q)
       /\ query' = q
       /\ criteria' = [min |-> q.min, max |-> q.max, perPerson |-> q.perPerson,
                       districts |-> Districts(q),
                       tags |-> IF q.tag THEN {"family"} ELSE {}]
  /\ UNCHANGED <<raw, listing>>

Next == NormalizeListing \/ MakeCriteria

Spec == Init /\ [][Next]_vars

-----------------------------------------------------------------------------
(* The three searches                                                      *)

\* A comparison with null holds in neither SQL nor Python.
AtLeast(value, bound) == value # Null /\ value >= bound
AtMost(value, bound)  == value # Null /\ value <= bound

Canonical(l) == l.status = "active" /\ ~l.child /\ l.period # "one_time"

SameFields(l, c) ==
  /\ c.districts # {} => l.district \in c.districts
  /\ c.tags \subseteq l.tags

\* announcement_matches.
AnnouncementMatches(l, c) ==
  /\ Canonical(l)
  /\ l.basis = "per_person" => c.perPerson
  /\ HasPriceFilter(c) => l.monthly # Null
  /\ c.min # Null => AtLeast(l.monthly, c.min)
  /\ c.max # Null => AtMost(l.monthly, c.max)
  /\ SameFields(l, c)
  /\ c.tags \cap l.excludedTags = {}

\* AsyncpgSearchRepository, _where.
AsyncpgWhere(l, c) ==
  /\ l.status = "active" /\ ~l.child /\ l.period \in {"daily", "monthly"}
  /\ c.perPerson \/ l.basis = "total"
  /\ c.min # Null => AtLeast(l.monthly, c.min)
  /\ c.max # Null => AtMost(l.monthly, c.max)
  /\ SameFields(l, c)
  /\ c.tags \cap l.excludedTags = {}

\* A bug in the query: it forgets the listings that are part of another.
SqlAlchemyWhereWithChildren(l, c) ==
  /\ l.status = "active" /\ l.period # "one_time"
  /\ c.perPerson \/ l.basis = "total"
  /\ c.min # Null => l.monthly = Null \/ AtLeast(l.monthly, c.min)
  /\ c.max # Null => l.monthly = Null \/ AtMost(l.monthly, c.max)
  /\ SameFields(l, c)

\* SQLAlchemySearchRepository.search.
SqlAlchemyWhere(l, c) ==
  /\ Canonical(l)
  /\ c.perPerson \/ l.basis = "total"
  /\ c.min # Null => l.monthly = Null \/ AtLeast(l.monthly, c.min)
  /\ c.max # Null => l.monthly = Null \/ AtMost(l.monthly, c.max)
  /\ SameFields(l, c)

\* The order of two listings [monthly, created]; created stands for created_at and,
\* when that is the same, the id, which goes the same way in each.
\* InMemorySearchRepository sorts by _sort_key, in reverse unless the cheapest come first.
InMemoryBefore(a, b, sort) ==
  LET Flag(l) == IF l.monthly = Null THEN 1 ELSE 0
      Price(l) == Or(l.monthly, 0)
  IN CASE sort = "newest" -> a.created > b.created
       [] sort = "cheapest" ->
            \/ Flag(a) < Flag(b)
            \/ Flag(a) = Flag(b) /\ Price(a) < Price(b)
            \/ Flag(a) = Flag(b) /\ Price(a) = Price(b) /\ a.created < b.created
       [] sort = "price_desc" ->
            \/ Flag(a) < Flag(b)
            \/ Flag(a) = Flag(b) /\ Price(a) > Price(b)
            \/ Flag(a) = Flag(b) /\ Price(a) = Price(b) /\ a.created > b.created

\* SQLAlchemySearchRepository.search, order_by: false sorts before true.
SqlAlchemyBefore(a, b, sort) ==
  LET Priced(l) == IF l.monthly = Null THEN 0 ELSE 1
  IN CASE sort = "newest" -> a.created > b.created
       [] sort = "cheapest" -> InMemoryBefore(a, b, sort)
       [] sort = "price_desc" ->
            \/ Priced(a) < Priced(b)
            \/ Priced(a) = Priced(b) /\ Or(a.monthly, 0) > Or(b.monthly, 0)
            \/ Priced(a) = Priced(b) /\ a.monthly = b.monthly /\ a.created > b.created

\* AsyncpgSearchRepository, SORT_SQL: the newer one first at one price.
AsyncpgBefore(a, b, sort) ==
  IF sort # "cheapest" THEN InMemoryBefore(a, b, sort)
  ELSE IF a.monthly = b.monthly THEN a.created > b.created
  ELSE b.monthly = Null \/ (a.monthly # Null /\ a.monthly < b.monthly)

-----------------------------------------------------------------------------
(* Properties                                                              *)

\* What a saved filter's search returns and what the filter is notified of are
\* the same listings, except those without a price when the filter has a price
\* bound and those that exclude the audience asked for: the query of
\* SQLAlchemySearchRepository returns both, announcement_matches neither.  The
\* asyncpg query agrees with announcement_matches.
MatchGapsKnown ==
  criteria # Null =>
    /\ AsyncpgWhere(listing, criteria) = AnnouncementMatches(listing, criteria)
    /\ AnnouncementMatches(listing, criteria) => SqlAlchemyWhere(listing, criteria)
    /\ (SqlAlchemyWhere(listing, criteria) /\ ~AnnouncementMatches(listing, criteria)) =>
         \/ HasPriceFilter(criteria) /\ listing.monthly = Null
         \/ criteria.tags \cap listing.excludedTags # {}

\* The three searches put the listing and any other in the same order, except
\* that the runtime's query puts the unpriced ones first when the dearest are asked
\* for, and that the asyncpg query puts the newer of two with one price, or with
\* none, first when the cheapest are.
OrderGapsKnown ==
  listing # Null =>
    \A other \in [monthly: Prices \cup {Null}, created: {1, 3}], sort \in Sorts :
      LET this == [monthly |-> listing.monthly, created |-> 2] IN
      /\ SqlAlchemyBefore(this, other, sort) # InMemoryBefore(this, other, sort) =>
           sort = "price_desc" /\ (this.monthly = Null) # (other.monthly = Null)
      /\ AsyncpgBefore(this, other, sort) # InMemoryBefore(this, other, sort) =>
           sort = "cheapest" /\ this.monthly = other.monthly

\* What district a word means.
DistrictOf(written) ==
  CASE written \in {"chilanazar", "cyr chilonzor"} -> "chilonzor"
    [] written = "cyr yashnabad" -> "yashnobod"
    [] OTHER -> ListingDistrict(written)

\* However the district of a listing and that of a query are written, a query
\* narrows to the listing's district only when they mean the same one; and when
\* they do, it does, unless
\*  - the extraction left the listing's word as it was written, though a query's
\*    table knows it;
\*  - the wizard and the free-text search name Mirzo Ulug'bek otherwise;
\*  - the free-text search does not know the word, and asks for every district;
\*  - the API was given another word than the name.
DistrictMeets ==
  (criteria # Null /\ query.district # Null /\ raw.district # Null) =>
    LET same == DistrictOf(query.district) = DistrictOf(raw.district) IN
    /\ criteria.districts = {listing.district} => same
    /\ (same /\ criteria.districts # {listing.district}) =>
         \/ raw.district \in {"chilanazar", "cyr yashnabad"}
         \/ listing.district = "mirzo ulug'bek" /\ query.from # "api"
         \/ query.from = "nlp" /\ criteria.districts = {}
         \/ query.from = "api" /\ query.district # DistrictOf(query.district)

\* The searches differ in what they return, in its order and in the districts
\* they understand only where it is known that they do.
SearchGapsKnown == MatchGapsKnown /\ OrderGapsKnown /\ DistrictMeets

\* The answer's metadata says that a search with a price bound leaves out the
\* listings without a price (null_price_included).
NullPriceExcluded ==
  (criteria # Null /\ HasPriceFilter(criteria) /\ SqlAlchemyWhere(listing, criteria)) =>
    listing.monthly # Null

=============================================================================
