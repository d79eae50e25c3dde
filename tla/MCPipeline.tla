----------------------------- MODULE MCPipeline -----------------------------
(* Pipeline on a handful of configurations.  The hashes of different engines  *)
(* are different things even when they are the same model value here.         *)
EXTENDS Pipeline

CONSTANTS h1, h2, h3, boot, none

Config(pe, ph, le, lh, run) ==
    [pe |-> pe, ph |-> ph, le |-> le, lh |-> lh, run |-> run, th |-> h1, tun |-> FALSE]

\* The hosts and the backends change, and the tunnel with them,
Published(h) == [Config("nginx", h, "haproxy", h, TRUE) EXCEPT !.th = h, !.tun = TRUE]

\* or the tunnel is published and not, next to them,
Publishes == { Config("nginx", h1, "haproxy", h1, TRUE), Published(h2) }

\* or both engines switch as well;
Mixed == { Published(h1), Published(h2),
           [Config("edge", h2, "balancer", h1, TRUE) EXCEPT !.tun = TRUE] }

\* the backends change, with or without the hosts,
LbOnly == { Config("nginx", h1, "haproxy", h, TRUE) : h \in {h1, h2} } \cup
          { Config("nginx", h3, "haproxy", h3, TRUE) }

\* and the proxy engine alone switches.
ProxySwitch == { Config(pe, h1, "haproxy", h1, TRUE) : pe \in Proxies }
=============================================================================
