-------------------------------- MODULE Portal --------------------------------
(* PortalAccess, TenantSettings and LiveFeed, side by side.  They share no *)
(* state, so to interleave them would show nothing: part says which of     *)
(* them a behaviour is of, the others stay as they were at first.          *)
EXTENDS PortalAccess, Integers, Sequences

CONSTANTS Desks, Bodies, Seeds, Recorders, LogCap, PriceIds, PriceInputs,
          PlaceInputs, Looks, TitleMax, ImageMax, DefaultName, MaxChanges, MaxFaults,
          Sockets, Channels, ChannelsOf, MaxMessages

VARIABLES part, row, desk, past, log, recorder, since, prices, places, page, answer,
          changes, faults,
          clients, socket, sender, queue, got, bridge, published, due

Tenant == INSTANCE TenantSettings
Feed == INSTANCE LiveFeed

tenant == <<row, desk, past, log, recorder, since, prices, places, page, answer,
            changes, faults>>

feed == <<clients, socket, sender, queue, got, bridge, published, due>>

PortalInit ==
    /\ part \in {"access", "tenant", "feed"}
    /\ Init /\ Tenant!Init /\ Feed!Init
    /\ part # "tenant" => row = None

PortalNext ==
    /\ part' = part
    /\ \/ part = "access" /\ Next /\ UNCHANGED <<tenant, feed>>
       \/ part = "tenant" /\ Tenant!Next /\ UNCHANGED <<vars, feed>>
       \/ part = "feed" /\ Feed!Next /\ UNCHANGED <<vars, tenant>>

PortalSpec == PortalInit /\ [][PortalNext]_<<part, vars, tenant, feed>>

-----------------------------------------------------------------------------
(* Properties of TenantSettings and LiveFeed *)

\* A greeted socket misses nothing, whoever comes and goes (hub.rs).
FeedIsWhole == Feed!FeedIsWhole

\* However saves overlap, the row of the bot settings is of one piece, and
\* its key the last one given unless a save without one wrote an older back
\* (routes/bot.rs).
SettingsHold == Tenant!SettingsHold

\* The log shows its newest entries, newest first, or none if its command
\* fails, and does not grow (bot_log.rs).
LogShowsNewest == Tenant!LogShowsNewest

\* The public page has one price per code, and its editors meet an internal
\* error only if the database fails or cannot hold their text
\* (routes/prices.rs, locations.rs, branding.rs).
PublicPageIsSound == Tenant!PublicPageIsSound
=============================================================================
