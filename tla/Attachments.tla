------------------------------ MODULE Attachments ------------------------------
(***************************************************************************)
(* Which attachment of a render pass plays which part: render pass objects *)
(* (src/src/objects/render_pass.c), framebuffers                           *)
(* (src/src/objects/framebuffer.c), and the render pass that               *)
(* vkCmdBeginRenderPass begins with one of each                            *)
(* (src/src/commands/render_pass.c).                                       *)
(*                                                                         *)
(* These objects do not change after their creation, so they are values    *)
(* here.  A view is a WebGPU view, or NULL if WebGPU gave none.  How long  *)
(* they live is SharedObjects.                                             *)
(***************************************************************************)
EXTENDS Selection, SequencesExt

CONSTANTS
  MaxColorAttachments,  \* WGVK_MAX_COLOR_ATTACHMENTS
  DepthFormats,         \* VK_FORMAT_D16_UNORM to VK_FORMAT_D32_SFLOAT_S8_UINT
  NULL                  \* also 0 and UINT32_MAX, where there is no depth

-----------------------------------------------------------------------------
(* What plausible mistakes in the code below would do instead.             *)

\* All attachments are taken for colours.
NoneSetAside(rp, fb) == fb.attachment_count

-----------------------------------------------------------------------------
FirstFew(s, n) == SubSeq(s, 1, IF n < Len(s) THEN n ELSE Len(s))

\* vkCreateRenderPass, from the formats of its attachments.  The last depth
\* attachment counts.
RenderPass(formats) ==
  LET depths == {i \in DOMAIN formats : formats[i] \in DepthFormats}
      last == IF depths = {} THEN NULL
              ELSE CHOOSE i \in depths : \A j \in depths : j <= i
  IN [attachment_count     |-> Len(formats),
      color_formats        |-> FirstFew(Picked(formats, DOMAIN formats \ depths),
                                        MaxColorAttachments),
      depth_stencil_format |-> IF last = NULL THEN NULL ELSE formats[last],
      depth_stencil_index  |-> last]

\* vkCreateFramebuffer: all views are counted, and as many kept as there is
\* room for.
Framebuffer(views) ==
  [attachment_count |-> Len(views),
   attachments      |-> FirstFew(views, MaxColorAttachments + 1)]

\* How many attachments are taken for colours: one less, if there is a depth.
ColorAttachCount(rp, fb) ==
  IF rp.depth_stencil_format # NULL /\ fb.attachment_count > 0
  THEN fb.attachment_count - 1 ELSE fb.attachment_count

\* What vkCmdBeginRenderPass hands to WebGPU: the first views, and the one at
\* the depth's index, as far as WebGPU has them.
BegunPass(rp, fb) ==
  LET n == IF ColorAttachCount(rp, fb) < MaxColorAttachments
           THEN ColorAttachCount(rp, fb) ELSE MaxColorAttachments
      views == FirstFew(fb.attachments, n)
  IN [colors |-> Picked(views, {i \in DOMAIN views : views[i] # NULL}),
      depth  |-> IF /\ rp.depth_stencil_format # NULL
                    /\ rp.depth_stencil_index <= fb.attachment_count
                 THEN fb.attachments[rp.depth_stencil_index] ELSE NULL]

=============================================================================
