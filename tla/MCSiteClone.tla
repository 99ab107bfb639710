----------------------------- MODULE MCSiteClone -----------------------------
(* A site with a home page, a nested page reached at two URLs, a page whose  *)
(* slug is that of the nested one, a page called home, one called index, a   *)
(* picture, and a link that leaves.                                          *)
EXTENDS SiteClone

Page(path, form) == [host |-> "site", path |-> path, form |-> form, query |-> ""]

Root == Page(<<>>, "plain")
Nested == Page(<<"blog", "news">>, "plain")
NestedFile == Page(<<"blog", "news">>, "html")
Flat == Page(<<"blog_news">>, "plain")
Named == Page(<<"home">>, "plain")
Index == Page(<<"index">>, "plain")
Picture == Page(<<"a.png">>, "plain")
Elsewhere == [Root EXCEPT !.host = "other"]

MCUrls == {Root, Nested, NestedFile, Flat, Named, Index, Picture, Elsewhere}
MCHtml == {"home1", "home2", "news1", "news2", "plain"}
MCBodies == MCHtml \cup {"png"}

MCLinksOf ==
    [body \in MCHtml |->
        CASE body = "home1" -> {Flat, Elsewhere}
          [] body = "home2" -> {Nested, NestedFile, Named}
          [] body = "news1" -> {Root, Flat}
          [] body = "news2" -> {Picture}
          [] body = "plain" -> {Nested, Index}]
MCAssetsOf ==
    [body \in MCHtml |->
        IF body = "news1" THEN {Picture} ELSE IF body = "plain" THEN {Root} ELSE {}]

MCVersions ==
    [url \in MCUrls |->
        CASE url = Root -> {"home1", "home2"}
          [] url = Nested -> {"news1", "news2"}
          [] url = NestedFile -> {"news1"}
          [] url = Flat -> {"plain", Nothing}
          [] url = Named -> {"plain"}
          [] url = Index -> {"plain"}
          [] url = Picture -> {"png"}
          [] url = Elsewhere -> {"home1"}]

MCRank ==
    [url \in MCUrls |->
        CASE url = Elsewhere -> 0 [] url = Root -> 1 [] url = Picture -> 2 [] url = Nested -> 3
          [] url = NestedFile -> 4 [] url = Flat -> 5 [] url = Named -> 6
          [] url = Index -> 7]
=============================================================================
