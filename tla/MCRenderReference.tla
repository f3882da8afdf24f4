--------------------------- MODULE MCRenderReference ---------------------------
(* The engine with renderers used again under tight limits, beside its reference. *)
EXTENDS MCRenderer, RenderReference

MCLimits == Exact \cup Tight
\* Templates that call lambdas or are malformed are rendered once, under the tight limits.
\* A resolver is set, or the partials are taken away, for the template whose partials every
\* source has.
RootsWithin(lim) == IF lim \in Exact THEN Referenced ELSE (Roots \ Referenced) \cup {"indented"}
LimitedNext ==
    \/ Render
    \/ (config.node \notin Referenced => renders = 0) /\ StartRender
    \/ RejectRender
    \/ \E n \in RootsWithin(limits), d \in Inputs, p \in Externals, s \in Outputs : InitRenderer(n, d, p, <<s>>, limits)
    \/ config.node = "nested" /\ \E r \in Resolvers : Configure("resolver", r)
    \/ config.node = "nested" /\ config.resolver = NoPartials /\ Configure("partials", NoPartials)
ReferenceSpec == Init /\ before = <<>> /\ [][LimitedNext /\ Remember]_<<vars, before>>

=============================================================================
