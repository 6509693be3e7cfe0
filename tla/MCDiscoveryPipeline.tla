------------------------ MODULE MCDiscoveryPipeline ------------------------
(* Instances of DiscoveryPipeline for TLC.                                 *)
EXTENDS DiscoveryPipeline, TLC

MCAliases == "service" :> "services"

Index(names) == [kind |-> "index", files |-> names, pages |-> {}]
PagesOf(pages) == [kind |-> "pages", pages |-> pages]

\* Two index files that refer to each other, one index that is too deep, whose one
\* file could be a page, and a file beyond the limit; links that repeat what the
\* sitemaps say, more and less prominently.
Circular ==
    [files |-> ("root" :> Index(<<"other", "posts", "authors", "offers">>)) @@
               ("other" :> Index(<<"root", "more", "late">>)) @@
               ("more" :> [Index(<<"deep">>) EXCEPT !.pages = {<<"sitemap">>}]) @@
               ("late" :> PagesOf({<<"blog">>})) @@
               ("posts" :> PagesOf({<<"blog", "x">>, <<"x", "1">>})) @@
               ("offers" :> PagesOf({<<"service">>, <<"product", "x", "1">>})) @@
               ("authors" :> PagesOf({<<"x">>})),
     usual |-> <<"root", "missing">>, declared |-> <<"posts">>, ignored |-> {"authors"},
     links |-> {<< <<"blog">>, 3>>, << <<"x">>, 0>>, << <<"x">>, 2>>,
                << <<"tag", "x">>, 0>>}]

\* One large file with pages of every scope.
Large ==
    [files |-> "root" :> PagesOf({<<"en", "blog", "x">>, <<"item", "x">>, <<"x", "1", "1">>,
                                  <<"x", "x">>, <<"x">>, <<"x", "1">>}),
     usual |-> <<"root">>, declared |-> <<>>, ignored |-> {},
     links |-> {<< <<"x", "1", "1">>, 1>>, << <<"en", "blog">>, 1>>, << <<"x">>, 3>>}]

MCWebsites == {Circular, Large}
=============================================================================
