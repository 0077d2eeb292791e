----------------------------- MODULE MCDelivery -----------------------------
(* A small instance of Delivery for TLC. *)
EXTENDS Delivery

CONSTANTS media, tv, x, y,   \* items of the drive
          plex, emby, jellyfin, remote

At1(p, n) == [parent |-> p, name |-> n, trashed |-> FALSE]

\* /media/tv/e1 or /tv/media/e1 and, later, another file; x may take two names.
Tree(outer, inner) ==
  [i \in {media, tv, x, y} |->
     CASE i = media -> At1(outer, "media") [] i = tv -> At1(inner, "tv")
       [] i = x -> At1(IF inner = media THEN tv ELSE media, "e1") [] OTHER -> NoItem]
TwoTrees == {Tree(Top, media), Tree(tv, Top)}
Names == {"media", "m", "tv", "show", "s1", "old", "nowhere", "e1", "e2", "e3"}
MayTake ==
  [i \in {media, tv, x, y} |->
     CASE i = media -> {"media"} [] i = tv -> {"tv"} [] i = x -> {"e1", "e2"} [] OTHER -> {"e3"}]

From(a, b) == [from |-> a, to |-> b]
MediaRules == <<From(<<"media">>, <<"m">>)>>
ShowRules == <<From(<<"tv">>, <<"m", "tv">>), From(<<"tv", "show">>, <<"nowhere">>)>>
RulesOfTrigger(e) ==
  IF e.hook = "sonarr" THEN ShowRules
  ELSE IF e.hook = "a-train" THEN ATrainRules("disk" :> MediaRules, ShowRules, e.drive)
  ELSE <<>>

NoRules == <<>>
\* A folder of the drive that is moved out of media is not wanted, but one below tv is.
TvRules == MediaRules \o <<From(<<"tv", "media">>, <<"m", "tv">>)>>
Seen == {<<"m">>, <<"tv">>}
Hidden == {<<"tv">>}

Show == <<"tv", "show">>
LocalShow == <<"m", "tv", "show">>
Season == LocalShow \o <<"s1">>

Arr(hook, type, parent, file) ==
  [hook |-> hook, type |-> type, parent |-> parent, file |-> file, renamed |-> <<>>]

Track(hook, type, files) == [hook |-> hook, type |-> type, files |-> files]

SomeEvents ==
  {Arr("sonarr", "Download", Show, <<"s1", "e1">>),
   Arr("sonarr", "Download", Show, <<"s1", "e2">>),
   Arr("sonarr", "EpisodeFileDelete", Show, <<>>),
   Arr("sonarr", "SeriesDelete", Show, <<>>),
   Arr("sonarr", "Grab", Show, <<>>),
   [Arr("sonarr", "Rename", Show, <<>>) EXCEPT
      !.renamed = <<[previous |-> <<"tv", "old", "e1">>, current |-> <<"s1", "e1">>],
                    [previous |-> <<"tv", "old", "e2">>, current |-> <<"e2">>]>>],
   [Arr("sonarr", "Rename", Show, <<>>) EXCEPT
      !.renamed = <<[previous |-> Show \o <<"s1", "e1">>, current |-> <<"s1", "e2">>]>>],
   Arr("radarr", "MovieFileDelete", <<"m">>, <<"e3">>),
   Arr("radarr", "MovieDelete", LocalShow, <<>>),
   Arr("radarr", "Grab", LocalShow, <<>>),
   Track("lidarr", "Download", <<Season \o <<"e1">>, LocalShow \o <<"e1">>, Season \o <<"e2">>>>),
   Track("readarr", "Test", <<>>),
   Track("readarr", "Download", <<Season \o <<"e1">>>>),
   [hook |-> "manual", type |-> "POST", dirs |-> <<<<"m", "tv">>>>, paths |-> <<Season \o <<"e2">>>>],
   [hook |-> "manual", type |-> "POST", dirs |-> <<>>, paths |-> <<>>],
   [hook |-> "a-train", type |-> "Changes", drive |-> "disk",
    created |-> <<<<"media", "tv">>>>, deleted |-> <<<<"media", "tv", "show">>>>],
   [hook |-> "a-train", type |-> "Changes", drive |-> "other",
    created |-> <<>>, deleted |-> <<Show>>]}

Folders ==
  {<<>>, <<"m">>, <<"m", "tv">>, LocalShow, Season, <<"m", "tv", "old">>, Nowhere,
   <<"m", "media">>, <<"m", "media", "media">>, <<"m", "media", "tv">>, <<"m", "tv", "media">>,
   <<"m", "tv", "tv">>, <<"tv">>, <<"tv", "tv">>, <<"tv", "tv", "media">>, <<"tv", "tv", "tv">>}
RelPaths == {NoFile, "e1", "e2", "e3"}
OnlyPriority == {0}

Servers == {plex, emby, jellyfin, remote}
Kinds == [t \in Servers |->
            CASE t = plex -> "plex" [] t = emby -> "emby" [] t = jellyfin -> "jellyfin"
              [] OTHER -> "autoscan"]
RulesOfTarget == [t \in Servers |->
  CASE t = plex -> <<From(<<"m">>, <<"media">>)>> [] t \in {emby, jellyfin} -> <<>>
    [] OTHER -> <<From(<<"m", "tv">>, <<"tv">>)>>]
First == [t \in Servers |->
  CASE t = plex -> {<<"media", "tv">>} [] t = emby -> {<<"m", "tv">>}
    [] t = jellyfin -> {<<"m">>, <<"m", "tv", "show">>} [] OTHER -> {<<>>}]
Later == [t \in Servers |-> IF t = plex THEN {<<"media", "tv", "show">>} ELSE {}]
=============================================================================
