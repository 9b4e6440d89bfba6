---------------------------- MODULE MeetingMatcher ----------------------------
(***************************************************************************)
(* The matcher that suggests a deal, a contact or a company for a meeting: *)
(* what it reads of the CRM, decideMatch, and the link status the decision *)
(* is stored as.  A title is the set of its words of more than three       *)
(* letters.                                                                *)
(***************************************************************************)
EXTENDS Integers, FiniteSets

CONSTANTS
    People,        \* contacts
    Firms,         \* companies
    OpenDeals,     \* deals, open unless they are closed in a state
    TitleWords,    \* words of each deal's title
    None           \* no contact, company or deal

ASSUME MatcherAssumption ==
    /\ IsFiniteSet(People) /\ IsFiniteSet(Firms) /\ IsFiniteSet(OpenDeals)
    /\ \A d \in OpenDeals : IsFiniteSet(TitleWords[d])

VARIABLES
    employer,      \* companyId of a contact
    deal,          \* primaryContactId, companyId and openness of a deal
    attendees,     \* contacts with an external attendee's e-mail
    domainFirms,   \* companies with an external attendee's domain
    eventTitle,    \* words of the event
    decision       \* the matcher's decision, None before it

matchVars == <<employer, deal, attendees, domainFirms, eventTitle, decision>>

Words == UNION {TitleWords[d] : d \in OpenDeals}

DealRows == [contact : People \cup {None}, firm : Firms \cup {None}, open : BOOLEAN]

\* A deal hangs on a contact or on a company, or is closed.
MatchInit ==
    /\ employer \in [People -> Firms \cup {None}]
    /\ deal \in [OpenDeals -> {r \in DealRows :
                   (r.contact = None) # (r.firm = None) /\ (r.contact # None => r.open)}]
    /\ attendees \in SUBSET People
    /\ domainFirms \in SUBSET Firms
    /\ eventTitle \in SUBSET Words
    /\ decision = None

\* openDealsByContact: a deal is its primary contact's and that of every
\* matched contact of its company.
DealsOf(c) ==
    {d \in OpenDeals : deal[d].open /\
        (deal[d].contact = c \/ (employer[c] # None /\ employer[c] = deal[d].firm))}

\* Words every candidate shares tell nothing.
Distinctive(d, deals) == {w \in TitleWords[d] : \E e \in deals : w \notin TitleWords[e]}

Hits(d, deals) == Cardinality(Distinctive(d, deals) \cap eventTitle)

\* Mutant: on a tie the first of the best is taken.
Outscores_OrTies(d, deals) ==
    Hits(d, deals) > 0 /\ \A e \in deals \ {d} : Hits(d, deals) >= Hits(e, deals)

Outscores(d, deals) ==
    Hits(d, deals) > 0 /\ \A e \in deals \ {d} : Hits(d, deals) > Hits(e, deals)

Decision(c, d, firm, score, method, outcome) ==
    [contact |-> c, deal |-> d, firm |-> firm, score |-> score, method |-> method,
     outcome |-> outcome]

\* Mutant: any open deal of the contact is taken for its only one.
DecideContact_AnyDeal(c) ==
    LET deals == DealsOf(c)
    IN  IF deals = {} THEN Decision(c, None, employer[c], 70, "email_match", "suggested")
        ELSE Decision(c, CHOOSE d \in deals : TRUE, employer[c], 100, "email_match",
                      "auto_confirmed")

DecideContact(c) ==
    LET deals == DealsOf(c)
        ahead == {d \in deals : Outscores(d, deals)}
    IN  CASE Cardinality(deals) = 1 ->
               Decision(c, CHOOSE d \in deals : TRUE, employer[c], 100, "email_match",
                        "auto_confirmed")
          [] Cardinality(deals) > 1 /\ ahead # {} ->
               Decision(c, CHOOSE d \in ahead : TRUE, employer[c], 85, "title_match", "suggested")
          [] OTHER -> Decision(c, None, employer[c], 70, "email_match", "suggested")

\* One contact decides; else one company does; else nothing is linked.
DecideMatch ==
    CASE Cardinality(attendees) = 1 -> DecideContact(CHOOSE c \in attendees : TRUE)
      [] Cardinality(attendees) # 1 /\ Cardinality(domainFirms) = 1 ->
           Decision(None, None, CHOOSE k \in domainFirms : TRUE, 50, "domain_match", "suggested")
      [] OTHER -> Decision(None, None, None, 0, None, "unlinked")

RunMatcher ==
    /\ decision = None
    /\ decision' = DecideMatch
    /\ UNCHANGED <<employer, deal, attendees, domainFirms, eventTitle>>

MatchNext == RunMatcher

MatchSpec == MatchInit /\ [][MatchNext]_matchVars

-----------------------------------------------------------------------------
Rivals == IF decision = None \/ decision.contact = None THEN {} ELSE DealsOf(decision.contact)

\* A link is confirmed without a user only to the one open deal of the one
\* contact, or of that contact's company, among the attendees.
ConfirmedIsUnambiguous ==
    decision # None /\ decision.outcome = "auto_confirmed" =>
      /\ attendees = {decision.contact}
      /\ \A d \in OpenDeals :
           d = decision.deal <=> deal[d].open /\
             (deal[d].contact \in attendees \/
              (deal[d].firm # None /\ \E c \in attendees : employer[c] = deal[d].firm))

\* The deal a title picks has more of its words in the event's title than any
\* other candidate, words they share included: the order in which the
\* database returns the deals decides nothing.
TitlePicksTheLeader ==
    decision # None /\ decision.method = "title_match" =>
      \A e \in Rivals \ {decision.deal} :
        Cardinality(eventTitle \cap TitleWords[decision.deal])
          > Cardinality(eventTitle \cap TitleWords[e])

\* What the matcher decides follows from what it read.
DecisionSound == ConfirmedIsUnambiguous /\ TitlePicksTheLeader
=============================================================================
