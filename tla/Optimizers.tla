----------------------------- MODULE Optimizers ----------------------------
(***************************************************************************)
(* From a rule to a picture: what the media queue asks of an optimizer     *)
(* (shared/files/mediaQueue.ts, mediaMasterOptimize.ts), and how the local *)
(* optimizer (m4k, or Bun's own encoder where that can do it) and the      *)
(* remote one carry it out and label what they made.                       *)
(*                                                                         *)
(* Options are functions from keys to values, None where one is not set    *)
(* and Zero for 0, an empty text and false.  A picture is the set of the   *)
(* settings in effect for it, the extension of its name left out; those of  *)
(* m4k and of Bun are external and taken as the code takes them: equal for  *)
(* what both can do.                                                        *)
(***************************************************************************)
EXTENDS Integers, Sequences, SequencesExt, FiniteSets, TLC

CONSTANTS None, Zero

Truthy(v) == v \notin {None, Zero}
Or(v, w) == IF v # None THEN v ELSE w
Setting(key, v) == IF Truthy(v) THEN {<<key, v>>} ELSE {}
Settings(opts) == UNION {Setting(k, opts[k]) : k \in DOMAIN opts}

BaseKeys == {"rotate", "crop", "keepMetadata"}   \* and keepExif, keepIcc, colorspace
NoBase == [k \in BaseKeys |-> None]
ResizeKeys == {"width", "height", "fit"}

-----------------------------------------------------------------------------
(* The requests: a picture for each entry [format, width, height, quality],  *)
(* grouped by format in the order in which the formats come up.             *)

Entry(format, opts) ==
  [format |-> format, width |-> opts.width, height |-> opts.height, quality |-> opts.quality]
Grouped(entries) ==
  LET formats == FoldLeft(LAMBDA seen, e : IF Contains(seen, e.format) THEN seen
                                           ELSE Append(seen, e.format), <<>>, entries)
  IN FlattenSeq([i \in DOMAIN formats |-> SelectSeq(entries, LAMBDA e : e.format = formats[i])])

Base(opts) == [k \in BaseKeys |-> opts[k]]

(* Faulty variant: the presets come first.                                  *)
PresetsFirst(rule, presets) ==
  LET format == Or(rule.format, "avif")
      entries == [i \in DOMAIN presets |-> Entry(Or(presets[i].format, format), presets[i])]
                   \o <<Entry(format, rule)>>
  IN [entries |-> Grouped(entries), base |-> Base(rule)]

(* The rule's own picture first: it becomes the file.                       *)
ImageRequest(rule, presets) ==
  LET format == Or(rule.format, "avif")
      entries == <<Entry(format, rule)>>
                   \o [i \in DOMAIN presets |-> Entry(Or(presets[i].format, format), presets[i])]
  IN [entries |-> Grouped(entries), base |-> Base(rule)]

(* A request for one variant of a file, or for its master.                  *)
OnDemandRequest(ext, opts) == [entries |-> <<Entry(ext, opts)>>, base |-> Base(opts)]

-----------------------------------------------------------------------------
(* The encoders.                                                            *)

M4k(opts) == Settings(opts)
Sized(width, height, fit) ==
  IF Truthy(width) \/ Truthy(height)
  THEN [width |-> width, height |-> height, fit |-> fit] ELSE <<>>
M4kImage(e, base) ==
  M4k([format |-> e.format, quality |-> e.quality] @@ base
        @@ Sized(e.width, e.height, "inside"))

BunFormats == {"jpeg", "png", "webp"}
(* Faulty variant: an early guard, without the options of the base.         *)
AnyBase(bun, input, format, width, height, fit, base) ==
  /\ bun # "absent"
  /\ input \in BunFormats \cup {"gif", "bmp"} /\ format \in BunFormats
  /\ Truthy(height) => Truthy(width)
  /\ Truthy(fit) => fit = "inside"

CanUseBunImage(bun, input, format, width, height, fit, base) ==
  /\ bun # "absent"
  /\ input \in BunFormats \cup {"gif", "bmp"} /\ format \in BunFormats
  /\ \A k \in BaseKeys : ~Truthy(base[k])
  /\ Truthy(height) => Truthy(width)
  /\ Truthy(fit) => fit = "inside"

BunImage(format, width, height, quality) ==
  Settings([format |-> format, quality |-> quality]
             @@ Sized(width, height, "inside"))

-----------------------------------------------------------------------------
(* The local optimizer: bun is "absent", "works" or "fails", which leaves   *)
(* the picture to m4k; m4k makes none of the entries in lost (full queue).  *)

Result(e, picture) ==
  [width |-> e.width, height |-> e.height, quality |-> e.quality, ext |-> e.format,
   data |-> picture]
Pictured(e, i, base, bun, input, lost) ==
  IF bun = "works" /\ CanUseBunImage(bun, input, e.format, e.width, e.height, "inside", base)
  THEN BunImage(e.format, e.width, e.height, e.quality)
  ELSE IF i \in lost THEN {} ELSE M4kImage(e, base)

LocalImages(request, bun, input, lost) ==
  LET all == [i \in DOMAIN request.entries |->
                LET e == request.entries[i]
                IN Result(e, Pictured(e, i, request.base, bun, input, lost))]
  IN SelectSeq(all, LAMBDA r : r.data # {})

(* The remote one sends all entries at once and labels the outputs in order.*)
RemoteImages(request) ==
  LET outputs == [i \in DOMAIN request.entries |->
                    M4kImage(request.entries[i], request.base)]
  IN [i \in DOMAIN outputs |-> Result(request.entries[i], outputs[i])]

(* createTransform: one picture, with all the options of the request.       *)
LocalOptions(img) ==
  [format |-> img.format, quality |-> img.quality]
    @@ Base(img) @@ Sized(img.width, img.height, Or(img.fit, "inside"))
LocalTransform(img, bun, input) ==
  IF bun = "works"
       /\ CanUseBunImage(bun, input, img.format, img.width, img.height, img.fit, Base(img))
  THEN BunImage(img.format, img.width, img.height, img.quality)
  ELSE M4k(LocalOptions(img))

RemoteOptions(img) ==
  [format |-> img.format, quality |-> img.quality]
    @@ Base(img) @@ Sized(img.width, img.height, img.fit)
RemoteTransform(img) == M4k(RemoteOptions(img))

-----------------------------------------------------------------------------
(* Videos and sounds: copied key by key, zero only where it has a meaning.  *)

CopyDefinedOptions(source, target, truthyKeys, nullableKeys) ==
  LET copied == {k \in truthyKeys : Truthy(source[k])} \cup {k \in nullableKeys : source[k] # None}
  IN [k \in copied |-> source[k]] @@ target

VideoTruthyKeys == {"format", "size", "fps"}   \* and the codecs, rates and filters
VideoNullableKeys == {"seek"}                  \* and aspect, frames, duration
FormatSize(width, height) ==
  <<IF Truthy(width) THEN width ELSE -1, IF Truthy(height) THEN height ELSE -1>>

VideoRequest(rule) == [k \in VideoTruthyKeys \cup VideoNullableKeys \cup {"width", "height"} |-> rule[k]]
VideoOptions(video) ==
  LET size == IF Truthy(video.width) \/ Truthy(video.height)
              THEN [size |-> FormatSize(video.width, video.height)] ELSE <<>>
  IN CopyDefinedOptions(video, size, VideoTruthyKeys, VideoNullableKeys)
RemoteVideoOptions(video) == VideoOptions(video)   \* the same text in the other package

AudioRequest(rule) == [k \in {"format", "bitrate", "seek"} |-> rule[k]]
AudioOptions(audio) == CopyDefinedOptions(audio, <<>>, {"format", "bitrate"}, {"seek"})
RemoteAudioOptions(audio) == AudioOptions(audio)

-----------------------------------------------------------------------------
(* The queue: what a download is, by its headers, its row and its URL.      *)

Generic == {None, "octet-stream"}
Usable(ext) == ext \notin {None, "bin"}
(* [kind, ext]: the class of a content type and the extension it implies.   *)
OriginalExt(type, disposition, known, url) ==
  IF type.kind \notin Generic /\ type.ext # None THEN type.ext
  ELSE LET named == SelectSeq(<<disposition, known, url>>, Usable)
       IN IF named = <<>> THEN "bin" ELSE named[1]

Media == {"image", "video", "audio"}
KindOf(ext) == CASE ext \in {"avif", "png", "jpeg"} -> "image"
                 [] ext = "mp4" -> "video"
                 [] ext = "mp3" -> "audio"
                 [] OTHER -> None
MediaTypeOf(type, ext, fallback) ==
  CASE type.kind \in Media -> type.kind
    [] KindOf(ext) \in Media -> KindOf(ext)
    [] type.kind # None -> "file"
    [] OTHER -> fallback

IsExtensionAllowed(ext, rule) ==
  IF rule.include # None THEN ext \in rule.include
  ELSE IF rule.exclude # None THEN ext \notin rule.exclude ELSE TRUE

Applies(rule, mediaType, collection) ==
  rule.mediaType = mediaType /\ (rule.collections = None \/ collection \in rule.collections)
RuleFor(rules, mediaType, collection) ==
  LET found == SelectSeq(rules, LAMBDA r : Applies(r, mediaType, collection))
  IN IF found = <<>> THEN None ELSE found[1]

(* createOrUpdateMediaMaster for an image: the download by the master's      *)
(* configuration, or as it came where no picture is made; None without one. *)
MediaMaster(config, input, bun, lost) ==
  IF config = None THEN None
  ELSE LET ext == Or(config.format, input.ext)
           made == LocalImages(OnDemandRequest(ext, config), bun, input.ext, lost)
       IN IF made = <<>> THEN input ELSE [data |-> made[1].data, ext |-> made[1].ext]

(* optimizeFile for an image: the first picture is the file; without one it *)
(* stays what it was made from.  The rule is asked about the extension of    *)
(* the download, the pictures are made from the master where there is one.  *)
NoRule == [k \in {"format", "quality"} \cup BaseKeys \cup ResizeKeys |-> None]
OptimizeImage(rules, presets, collection, source, originalExt, bun, lost) ==
  LET rule == RuleFor(rules, "image", collection)
      own == IF rule = None THEN NoRule ELSE rule.opts
      variants == LocalImages(ImageRequest(own, presets), bun, source.ext, lost)
      first == variants # <<>>
  IN IF rule # None /\ ~IsExtensionAllowed(originalExt, rule)
     THEN [data |-> source.data, ext |-> originalExt, variants |-> <<>>]
     ELSE [data |-> IF first THEN variants[1].data ELSE source.data,
           ext |-> Or(own.format, IF first THEN variants[1].ext ELSE "avif"),
           variants |-> variants]

(* processFile: what becomes of a download.                                 *)
ProcessImage(c, download) ==
  OptimizeImage(c.rules, c.presets, "c",
                Or(MediaMaster(c.config, download, c.bun, c.lost), download),
                download.ext, c.bun, c.lost)

(* storeVariantRecords: by extension and the hash of the options.           *)
VariantKey(r) == <<r.ext, r.width, r.height, r.quality>>
VariantRecords(variants) ==
  FoldLeft(LAMBDA stored, r : (VariantKey(r) :> r.data) @@ stored, <<>>, variants)

-----------------------------------------------------------------------------
(* What the pictures should be.                                             *)

Asked(opts, format, base) ==
  Settings([format |-> format, quality |-> opts.quality] @@ base)
    \cup (IF Truthy(opts.width) \/ Truthy(opts.height)
          THEN Setting("width", opts.width) \cup Setting("height", opts.height)
                 \cup {<<"fit", Or(opts.fit, "inside")>>}
          ELSE {})

Downloaded(ext) == [data |-> {<<"downloaded", ext>>}, ext |-> ext]
Matched(c) == LET rule == RuleFor(c.rules, "image", "c")
              IN IF rule # None /\ IsExtensionAllowed(c.ext, rule) THEN rule ELSE None

(* With a rule that matches, both optimizers make the same variants,         *)
(* whichever encoder made them and whatever they are made from; each stored *)
(* variant is the picture its row names, whatever the local one loses; and  *)
(* the file is the rule's own picture.                                      *)
ImagesAgree(c) ==
  LET own == Matched(c).opts
      request == ImageRequest(own, c.presets)
      source == Or(MediaMaster(c.config, Downloaded(c.ext), c.bun, c.lost), Downloaded(c.ext))
      done == ProcessImage(c, Downloaded(c.ext))
      stored == VariantRecords(done.variants)
      format == Or(own.format, "avif")
  IN /\ \A k \in DOMAIN stored :
          stored[k] = Asked([width |-> k[2], height |-> k[3], quality |-> k[4], fit |-> None],
                            k[1], Base(own))
     /\ c.lost = {} =>
          /\ LocalImages(request, c.bun, source.ext, {}) = RemoteImages(request)
          /\ done.data = Asked([own EXCEPT !.fit = None], format, Base(own)) /\ done.ext = format
          /\ \A i \in DOMAIN c.presets :
               VariantKey(Result(Entry(Or(c.presets[i].format, format), c.presets[i]), {})) \in DOMAIN stored

(* A file that matches no rule stays what was downloaded.                   *)
PassesThrough(c) == ProcessImage(c, Downloaded(c.ext)).data = Downloaded(c.ext).data

(* A preset that is made ahead, or a picture asked for by its URL, has the   *)
(* fit that was asked for.                                                  *)
Fits(opts, picture) == LET fits == {s \in picture : s[1] = "fit"}
                       IN Truthy(opts.fit) /\ fits # {} => fits = {<<"fit", opts.fit>>}
FitIsKept(img, bun, ext) ==
  \A r \in Range(LocalImages(OnDemandRequest(img.format, img), bun, ext, {})) : Fits(img, r.data)

(* A variant made on demand is the same picture by either way, local or      *)
(* remote, where its fit is given; without one only the local ways agree.   *)
TransformsAgree(img, bun, ext) ==
  LET local == LocalTransform(img, bun, ext)
      made == LocalImages(OnDemandRequest(img.format, img), bun, ext, {})[1].data
      sized == Truthy(img.width) \/ Truthy(img.height)
  IN /\ img.fit \in {None, "inside"} => local = made
     /\ ~sized \/ img.fit # None => local = RemoteTransform(img)

(* The encoder of a video gets each option the rule means, an explicit size *)
(* before width and height, and a zero where that is one.                   *)
VideosAgree(rule) ==
  LET sent == VideoOptions(VideoRequest(rule))
      sound == AudioOptions(AudioRequest(rule))
  IN /\ sent = RemoteVideoOptions(rule) /\ sound = RemoteAudioOptions(rule)
     /\ \A k \in {"format", "fps", "size"} : Truthy(rule[k]) => sent[k] = rule[k]
     /\ ~Truthy(rule.size) /\ Truthy(rule.width) =>
          sent.size = <<rule.width, IF Truthy(rule.height) THEN rule.height ELSE -1>>
     /\ \A o \in {sent, sound} : ("seek" \in DOMAIN o <=> rule.seek # None)
     /\ \A k \in DOMAIN sent : sent[k] # None

(* A download is processed as what its content type says; one that says     *)
(* nothing, as what its name says.                                          *)
DownloadsAreRecognised(type, disposition, known, url, fallback) ==
  LET ext == OriginalExt(type, disposition, known, url)
      mediaType == MediaTypeOf(type, ext, fallback)
  IN /\ type.kind \in Media => mediaType = type.kind
     /\ type.kind \in Generic /\ KindOf(ext) # None => mediaType = KindOf(ext)
     /\ mediaType \in Media \ {fallback} => type.kind = mediaType \/ KindOf(ext) = mediaType
=============================================================================
