--------------------------- MODULE MCLegacyImport ---------------------------
(* A small instance of LegacyImport for TLC: dumps of two users, two posts    *)
(* and four comments, and one dump without content.                           *)
EXTENDS LegacyImport, TLC

MCFolded == [n \in {"Noodle", "noodle", "rice"} |-> IF n = "Noodle" THEN "noodle" ELSE n]
MCCanteenID == "east" :> 1
MCSeedCuisine == <<"western", "other">>
MCCuisineAlias == ("steak" :> "western") @@ ("fast" :> "other")
MCOldCuisines == <<"yunnan", "taiwan">>
MCSeedFlavor == <<"light", "hot">>
MCFlavorAlias == (<<"prefer", "light">> :> "light") @@ (<<"avoid", "hot">> :> "hot")
MCOldFlavors == <<"salty">>

Users == <<[role |-> "user", active |-> TRUE, avatar |-> "url1"],
           [role |-> "admin", active |-> FALSE, avatar |-> Fake]>>

Images == <<[url |-> "url1", ready |-> TRUE, purpose |-> "avatar", uploader |-> 1],
            [url |-> "", ready |-> FALSE, purpose |-> "post", uploader |-> 1],
            [url |-> "url3", ready |-> TRUE, purpose |-> "post", uploader |-> 2]>>

Posts == <<[type |-> "share", author |-> 1, canteen |-> "east", cuisine |-> "taiwan",
            tags |-> <<"Noodle", "rice">>, images |-> <<Placeholder, "url3">>,
            flavors |-> {<<"has", "salty">>}],
           [type |-> "companion", author |-> 2, canteen |-> None, cuisine |-> "steak",
            tags |-> <<"noodle">>, images |-> <<>>, flavors |-> {<<"prefer", "light">>, <<"avoid", "hot">>}]>>

Without == [users |-> Users, images |-> Images, posts |-> <<>>, comments |-> <<>>, likes |-> <<>>,
            favorites |-> <<>>, follows |-> << <<1, 2>> >>, notifications |-> <<>>]

(* The second and the third comment answer an earlier comment or none, the    *)
(* third, on whose parent the owner decided, perhaps one of another post; the  *)
(* fourth answers the third, names either user and may be as old.             *)
Comment(post, author, parent, to, at) ==
    [post |-> post, author |-> author, parent |-> parent, to |-> to, at |-> at]

Threads ==
    {<<Comment(1, 1, 0, 0, 1), Comment(1, 2, par[1], to[1], 2), Comment(v[1], v[2], par[2], to[2], 3),
       Comment(1, 1, 3, to[3], v[3])>> :
        par \in {0, 1} \X {0, 1, 2}, to \in {0, 1} \X {0, 1, 2} \X {1, 2},
        v \in {<<1, 2, 4>>, <<1, 2, 3>>, <<2, 1, 4>>}}

With(comments) ==
    [users |-> Users, images |-> Images, posts |-> Posts, comments |-> comments,
     likes |-> <<[user |-> 1, kind |-> "comment", of |-> 2], [user |-> 2, kind |-> "post", of |-> 9]>>,
     favorites |-> << <<2, 1>> >>, follows |-> << <<1, 2>> >>,
     notifications |-> <<[user |-> 1, sender |-> 2, type |-> "like_comment", of |-> 2],
                         [user |-> 2, sender |-> 1, type |-> "follow", of |-> 0],
                         [user |-> 2, sender |-> 1, type |-> "comment", of |-> 9]>>]

MCSource == {Without} \cup {With(c) : c \in {d \in Threads : \A i \in 2..3 : (d[i].parent = 0) = (d[i].to = 0)}}

MCExpected == {[posts |-> 0, inferred |-> 0, orphans |-> 0], [posts |-> 2, inferred |-> 1, orphans |-> 2]}

Interchangeable == Permutations(Proc)
=============================================================================
