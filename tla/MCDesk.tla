------------------------------- MODULE MCDesk -------------------------------
(* What people do: an admin who takes a match over from the robot, the       *)
(* editors of the posts and the categories, the admins and the owners of the *)
(* accounts, the people in a chat, whoever runs the scripts that lay a       *)
(* season out.  The components share no state, so each behaviour is one of   *)
(* them, chosen at the start, and the others stand still.                    *)
EXTENDS MatchControl, Posts, Categories, Accounts, Chat, SeasonFrame, CupSeed, TLC

\* one person with two tabs, and a device nobody is logged in on
MCPersonOf == ("t1" :> "ana") @@ ("t2" :> "ana") @@ ("t3" :> "phone")

\* a script that gains a round and changes another; a club that changes groups
FrameRound(name, legs, order) == [name |-> name, legs |-> legs, order |-> order]
MCVersions == << << FrameRound("oitavas", 2, 1), FrameRound("final", 2, 2) >>,
                 << FrameRound("preliminar", 2, 1), FrameRound("oitavas", 2, 2), FrameRound("final", 1, 3) >> >>
MCGroups == { ("A" :> {"c1", "c2"}) @@ ("B" :> {"c3"}), ("A" :> {"c1"}) @@ ("B" :> {"c3", "c2"}) }

\* a semifinal of two legs, one of a single match, no final yet
MCFixture == << [round |-> "semi", home |-> "A", away |-> "B"],
                [round |-> "semi", home |-> "B", away |-> "A"],
                [round |-> "semi", home |-> "C", away |-> "D"] >>
MCRounds == << [slug |-> "semi", ties |-> 2], [slug |-> "final", ties |-> 1] >>

VARIABLE part

InitDesk ==
    /\ part \in {"match", "posts", "categories", "accounts", "chat", "frame", "cup"}
    \* what a component chooses at its start, it chooses in its own part
    /\ MatchInit
    /\ part # "match" => row.status = "SCHEDULED" /\ row.kickoff = 1 /\ row.auto /\ row.teams
    /\ PostsInit /\ CategoriesInit
    /\ AccountsInit
    /\ ChatInit
    /\ FrameInit
    /\ part # "frame" =>
         /\ edition = "serie_a" /\ source.days = FrameDays /\ catalogue = AllClubs
         /\ source.announced = Span(FrameDays)
         /\ source.groups = CHOOSE table \in FrameGroups : TRUE
    /\ CupInit
    /\ part # "cup" =>
         /\ cup = "libertadores" /\ listed = [e \in CupEvents |-> None] /\ clubs = {}

InPart(p, others) == part = p /\ UNCHANGED <<others, part>>

OfPosts == <<postsVars, categoriesVars>>
OfPeople == <<accountsVars, chatVars>>
OfScripts == <<frameVars, cupVars>>

NextDesk ==
    \/ InPart("match", <<OfPosts, OfPeople, OfScripts>>) /\ MatchNext
    \/ InPart("posts", <<matchVars, categoriesVars, OfPeople, OfScripts>>) /\ PostsNext
    \/ InPart("categories", <<matchVars, postsVars, OfPeople, OfScripts>>) /\ CategoriesNext
    \/ InPart("accounts", <<matchVars, OfPosts, chatVars, OfScripts>>) /\ AccountsNext
    \/ InPart("chat", <<matchVars, OfPosts, accountsVars, OfScripts>>) /\ ChatNext
    \/ InPart("frame", <<matchVars, OfPosts, OfPeople, cupVars>>) /\ FrameNext
    \/ InPart("cup", <<matchVars, OfPosts, OfPeople, frameVars>>) /\ CupNext

SpecDesk ==
    /\ InitDesk
    /\ [][NextDesk]_<<part, matchVars, OfPosts, OfPeople, OfScripts>>

\* The accounts are alike.
AlikeUsers == Permutations(Users)
=============================================================================
