# DVR_IView: a verification development in TLA+

DVR_IView is an Android app for a car DVR. It shows the DVR's live MJPEG stream,
lists and plays its recordings, saves them to the phone or to an OTG device, and
changes its settings, all over HTTP; a native library (`ImageProc.c` over libjpeg 8d)
decodes the frames. These modules model the app's state machines and their
interleavings, the way of a frame from the stream to the bitmap, and the codecs of
libjpeg. TLC checks them on small instances; TLAPS proves theorems about them for all
instances.

Paths are relative to `src/src/com/liteon/iview/` unless they start with `src/`.

## Inventory

| Component | State | Operations | Hard part | What makes it correct |
|---|---|---|---|---|
| Live preview: `Preview`, `src/src/com/camera/simplemjpeg/MjpegView.java`, `ReadDVR` | `mIsSuspend`, `mRun`, `suspending`, `surfaceDone`, `mIn`, `thread`, tasks, open streams | activity and surface callbacks, `stopPlayback`, `setSource`, `doInBackground`, `onPostExecute`, `MjpegViewThread.run` | UI thread, serial executor and render threads interleave; results come late; the UI thread joins a thread that reads the network | no crash by ordering, one connection and one render thread per view, nothing closed under its reader, the preview comes back |
| System mode: `Preview`, `Records`, `MainActivity`, `service/DvrInfoService`, `util/DVRClient` | `SP_SYSTEM_MODE`, intents, broadcasts, the DVR's mode | `checkSystemMode`, SET_SYS_MODE, GET_ALL_INFO, the receivers | broadcasts lost while paused, failures reported as success, preference written late, process kills | the page gets the mode it needs; the preference is the DVR's mode |
| Preview camera: `Preview`, `service/DvrInfoService`, `util/DVRClient` | `SP_PREVIEW_CAMERA`, the icon, POST threads | camera click, SET_CAM_MODE, receiver, `getCameraSetting` | answer sent before the request, unordered threads | preference and DVR agree; the icon comes back |
| Recordings and saves: `Records`, `util/VideoItemAdapter`, `VideoPlayEX`, SaveToPhone, SaveToOTG, `downloadFileFromURL` | the list and its selection, tool bar, running jobs, OTG device | list download, selection, save, replies, attach, detach, permission | replies name clips by their position in a list that was replaced; early failures without arrays; silent failures | the list shown is the stored one; buttons and indicator tell what is possible and under way |
| Settings: `Settings`, `settings/*`, the SET_* actions of `service/DvrInfoService` | the fragment's fields, confirm icon, preferences, requests | open, edit, confirm, cancel, the requests and their outcomes | order of fragment callbacks, several POSTs for one page, answers misread, process kills | the DVR gets what was confirmed and nothing else; the preferences are the DVR's settings |
| Menu of preview and player: `Preview`, `VideoPlayEX` | `mShowingMenu`, visibilities, posted callbacks, animations | touch, click, `HideUIControl`, animation callbacks, activity callbacks | a timer, an animation and touches interleave | the next touch does what the screen suggests; the menu hides itself |
| Video player: `VideoPlayEX` | player, timer, item, progress view | play, skip, seek, pause, save, the player's reports | the player reports and goes on by itself; timers | title and save are about the item that plays; nothing ticks off screen; the progress view ends |
| Frame reader: `src/src/com/camera/simplemjpeg/MjpegInputStream.java` | mark, `mContentLength`, `headerLen` | `readMjpegFrame` and the marker scans | missing or wrong lengths, mark limit, a shadowed field, exceptions | it returns the frames of the stream, or ends |
| Native decoder: `src/jni/ImageProc/ImageProc.c` and libjpeg's control | `rgb`, `IMG_HEIGHT`, the decompression object | `pixeltobmp`, `processimage`, `freeCameraMemory` | results of suspended calls are not looked at; one buffer for all frames | a complete frame is what is shown; every failure has a known reason; no memory leaks |
| Scan decoding: `jdhuff.c`, `jdmarker.c`, `jdcoefct.c`, `jdmainct.c`, `jdsample.c` under `src/jni/jpeg8d/` | position in the scan, restart counters, coefficient, main and upsampling buffers | `decode_mcu`, `jpeg_resync_to_restart`, `decompress_onepass`, `sep_upsample` | suspension at any point, damaged streams, sampling factors, the last rows | every line shows its own samples; damage does not spread |
| Virtual arrays: `src/jni/jpeg8d/jmemmgr.c` | window, dirty flag, first undefined row, backing store | `access_virt_barray`, `do_barray_io` | a moving window on a larger array | a caller gets the rows it asked for |
| DCTs: `jidctint.c`, `jfdctint.c`, `jddctmgr.c`, `jcdctmgr.c` under `src/jni/jpeg8d/` | the workspace between two passes | 32 inverse and 32 forward transforms, quantization | integer arithmetic with several hundred constants and scalings; corrupt coefficients | the samples or coefficients of the exact transform, in range |
| Entropy coders: `jchuff.c`, `jdhuff.c`, `jcarith.c`, `jdarith.c`, `jaricom.c` under `src/jni/jpeg8d/` | bit buffers, predictions, EOB runs, held-back bits and bytes, statistics | `encode_mcu_*`, `decode_mcu_*`, `start_pass`, `finish_pass` | a carry over bytes held back, suspension inside an MCU, limits of counters, tables made from counts | what is written is read back |
| Lossless transformations: `src/jni/jpeg8d/transupp.c` | options, workspace arrays, destination parameters | request, adjust, execute | partial iMCUs at the edges, crop offsets, sampling factors | every sample is where it belongs |
| Start page, host selection: `MainActivity`, `util/Def` | `IS_VPN_MODE` | GET_ALL_INFO | set once, never cleared | the page for the DVR that answered |

The pages start services (intents), the service answers with broadcasts, and both
share the preferences. The render thread of the preview takes a frame from the frame
reader and gives it to the native decoder; libjpeg takes the scan from there to the
lines of the image: entropy decoder, inverse DCT, upsampling. The encoders and the
forward DCTs are built with it; `transupp.c` belongs to the tools beside it (`cjpeg`,
`jpegtran`). No page of the app calls any of them. `PROJECT.json` lists every hazard at its line.

## Modules

| Module | Models |
|---|---|
| `MjpegPlayback`, `MCMjpegPlayback` | the live preview: UI thread, serial executor, render threads |
| `PreviewStreams` | abstract: the life of the DVR's streams as a preview uses them |
| `MjpegPlayback_proofs` | theorems about `MjpegPlayback` and its refinement of `PreviewStreams` |
| `SystemMode`, `SystemMode_proofs` | the DVR's mode, the pages that need it and the service that sets it |
| `CameraMode`, `CameraMode_proofs` | the camera of the preview |
| `Recordings`, `Recordings_proofs` | the list of recordings, its selection and tool bar, the save jobs, the OTG device |
| `SettingsPage` | any settings page, its requests, the preferences and the DVR's settings |
| `ScreenMenu` | the self-hiding menu of the preview and of the player |
| `Pages_proofs` | theorems about `SettingsPage` and `ScreenMenu` |
| `VideoPlayer`, `VideoPlayer_proofs` | the player's item, timers and progress view |
| `FrameReader` | the frames of a stream, byte by byte |
| `JpegDecoder` | one frame after the other through `pixeltobmp` and libjpeg's states |
| `FramePath`, `MCFramePath` | the two as the render thread calls them |
| `FramePath_proofs` | theorems about the reader and the decoder of `FramePath`, and about `JpegVirtualArray` |
| `JpegEntropy` | MCUs, restart markers and resynchronisation |
| `JpegScan` | from the MCUs of one scan to the lines of the image; EXTENDS `JpegEntropy` |
| `JpegVirtualArray` | a virtual array of the memory manager |
| `JpegCoef` | the coefficient controller: one scan (`JpegScan`) or a virtual array |
| `JpegDCT`, `JpegIDCT`, `JpegFDCT` | the integer DCTs of all sizes: what they share, the inverse, the forward ones |
| `JpegTransform` | the lossless transformations of `transupp.c` |
| `JpegCodec_proofs` | theorems about `JpegScan` and `JpegTransform` |
| `JpegPhoto` | an image that is coded scan by scan, as both entropy coders see it |
| `JpegArith` | the arithmetic encoder and decoder |
| `JpegHuffTables`, `JpegHuff` | the making of Huffman tables; the Huffman encoder and decoder |
| `JpegCodec`, `MCJpegCodec` | the parts of libjpeg above, one at a time |
| `MCJpegBlocks`, `MCJpegFDCT` | blocks for the DCTs; the forward DCTs by themselves |

A definition whose name begins with `Fault` is the definition below it with a
seeded bug (a dropped guard, a missing reset); no other definition refers to it.
Each property fails when the real definition is replaced by one of these.

### MjpegPlayback

* State. One record per preview instance of its activity (`life`, `finishing`,
  `mIsSuspend`) and of its view (`surfaceDone`, `mRun`, `suspending`, `mIn`,
  `thread`). A `ReadDVR` execution `t` names the stream it opens and the render
  thread that `setSource` creates for it; the thread of the view's constructor is
  named by the instance. `rpc` is where a render thread is in `run()`.
* The UI thread. Its callbacks are atomic but for `stopPlayback`, which blocks in
  `join`: `BeginStop` does what comes before, `JoinReturns` what comes after,
  including the rest of the caller (`then`: `onPause`, a camera click or
  `surfaceDestroyed`). In between no UI action is enabled.
* The executor takes one task at a time in the order of `execute`; results are
  delivered in the order they were posted, whatever became of the activity. A task
  that delivers to an activity not on screen ends as `"late"`, else as `"played"`.
* Render threads read `mRun` and `surfaceDone` without synchronization: `BeginRead`
  may act on the old value of either. The surface is valid until `surfaceDestroyed`
  returns; that is Android's contract, and the one used. A thread may fail to read,
  reach the end of the stream, find no end of the frame (an exception that ends the
  process), decode, find a bitmap of another size, and draw. `rpc` is `"ended"` when
  `run()` returned with `mRun` TRUE, `"dead"` when it read the FALSE.
* The native buffer `rgb` is never allocated, allocated or freed. A frame that the
  decoder gives up leaves it as it is; copying from a freed one ends the process.
* Left out: `surfaceChanged` (a size), the FPS overlay, the icons, the mode and
  camera requests (the other two modules).
* Android's contracts used: one activity on screen, `onPause` before `onStop`
  before `onDestroy`; a page that starts another finishes itself, so an instance
  is launched only when the others are on their way out; `AsyncTask` is serial
  (the target SDK is above 12).

### SystemMode

* `page` and `resumed`: the activity on top, and whether its receiver is
  registered. `queue`, `pc`, `mode`: the intents and the one handler thread of the
  `IntentService`. `dvr` and `pref` survive a `Kill`.
* `CheckSystemMode` compares what the page needs with the preference, with the
  page's own default when it was never written. `OnResume`, and `ReceiveSysMode` of
  Preview, which recreates the activity, call it; Records does not check again.
* `Post` has the four outcomes of `setSystemMode`: the code does not look at the
  response, so a refusal is saved as a success; the answer may be lost after the DVR
  switched. `Notify` broadcasts after each of them.
* `Probe`, `GetRecordingList`, `Store`: GET_ALL_INFO broadcasts before it writes the
  preference. Which host answers is left out (host selection).
* A broadcast goes to the receiver registered when it is sent. Left out: the broadcasts
  and intents of the list of recordings, which change no mode.
* A behaviour begins with the app just installed: no preference, a DVR in either mode.
  `Kill` makes every later start. Another client that switches the DVR is left out.
* `doubt` and `missed` are history: why the preference may not be the DVR's mode (it was
  never written; a refusal was saved as a success; the answer, or the process before it
  committed, was lost), and why the page on screen may never ask for its mode.

### CameraMode

* `icon` is the icon shown (of the camera to switch to), `queue`/`pc` the service,
  `call` the threads that POST, `last` the history of the last request.
* `TakeSetCam` starts the thread and broadcasts at once; `Post` and `Save` are the
  thread; `ReceiveCamMode` saves what it is sent. An unset preference is the front
  camera for its one reader, so it is not distinguished.
* Constants of the model: the recording channel is front and rear (else both icons
  are disabled), GET_ALL_INFO is queued once at a time.

### Recordings

* `pref` is the stored list; `lister` are the threads that download one
  (`GetRecordingList`, `Download`, `StoreList`, `NotifyRecordingListChange`: of the page
  itself and of GET_ALL_INFO). Clips are numbers, so that a position in a list is what
  `indexOf` makes of it.
* `page` is where the user is. `OpenRecords` is `onResume` up to the registration of the
  receiver, `RegisterReceiver` the rest, with the mode request (answered by
  `ModeAnswer`); in between a broadcast is lost. `VideoResume` is that of the player.
* `shown`, `selected`, `saveOn`, `otgOn`, `allOn` and the waiting `message` are the list
  and its tool bar: `ToggleItem`, `SelectAll`, `UpdateToolBar` (the handler's message).
* A `job` is a thread that saves: `SaveSelected`, `SaveCurrent` start one, `StartSave` is
  what it checks before it copies (early answers name no clips), `Progress` and `Answer`
  tell of each clip and of the end. `Receive` is what the page on screen does with an
  answer: it looks the clips up, by position, in the list it has by then.
* `Attach`, `Detach`, `Permission` are the OTG device. `missed`, `refreshed`, `silent`
  are history: why flag, buttons and indicator may be wrong.

### SettingsPage

* `fragment` is one of the five pages; a behaviour is about one, as they share only the
  icon (which every page resets) and the service's thread. `RequestsOf` has the fields of
  each of its requests.
* `loaded`, `current` are the fields `m...` and `current...` of the fragment, `enabled`
  the confirm icon. `Select` is `onSettingSelected` with the `onResume` that the
  transaction ends in; `Edit`, `Confirm`, `Cancel`, `Leave` are the user, `Start` a new
  GET_ALL_INFO, `Kill` the system.
* `queue` is the `IntentService`: `Get` reads a page of the DVR into `prefs`, `Set` sends
  one request, with one of the outcomes of `Outcome`; `Accepted` is when the code then
  saves the preferences.
* `wanted`, `unsure`, `touched`, `stale`, `leftover` are history: what the user
  confirmed, which preferences the code cannot know, and which fields a confirm sends
  although nobody edited them.

### ScreenMenu and VideoPlayer

* `ScreenMenu`: `mShowingMenu`, the three groups of views, `posts` (callbacks in the
  looper, which `postDelayed` adds and `removeCallbacks` removes), `animation` (asked
  for, then running, and ending by itself even after the menu is shown again). `Click` is
  any click on a button, which posts the callback anew; `StartTracking`, `StopTracking`
  are the seek bar's.
* `VideoPlayer`: ExoPlayer is external. `window`, `playWhenReady`, `playbackState` and
  `seeking` are what it plays, is told and has reported; `EndOfItem` is its going on by
  itself. `StartUITimer` loses the running timer when it is called twice. `Save`,
  `Progress`, `Answer`, `EarlyFailure` are the saves as the page sees them; the last ends
  the process, also for the service, which is why it clears `saves`.

### FrameReader

One action, `ReadMjpegFrame`, is one call of the method; its operators are the methods
and scans below it. A byte is one of the four the code tells apart, a Content-Length
line is one token. `FindLength` keeps what the code does with a mark: a reset beyond the
limit is an `IOException`, after which `run()` goes on at the place it had come to; the
`headerLen` of `Simplified` is the field that the local variable of `readMjpegFrame`
hides, so it stays -1. `got` is history: where each frame that was returned lies in the
stream.

### JpegDecoder

* A file is a sequence of tokens: markers, and one token for the data of an iMCU row.
  `cinfo` has libjpeg's `global_state` and what the marker reader, the input controller
  and the coefficient controller keep; `pools` the memory that is held.
* `ReadHeader`, `StartDecompress`, `Absorb` (the input of a file with several scans),
  `OutputPassSetup`, `AllocBuffers`, `ReadScanline`, `FinishDecompress`, `CopyPixels` are
  the calls of `processimage` and `pixeltobmp` in order, each with its errors (`setjmp`)
  and suspensions; the return values that the code does not look at are not looked at.
  `LoadDht` is `my_jpeg_load_dht`, which replaces the file's tables.
* `rgb`, `IMG_HEIGHT` and `outside` are the image buffer and what is written behind it.

### JpegEntropy, JpegScan, JpegVirtualArray, JpegCoef

* `JpegEntropy`: `DecodeMCU` with `ProcessRestart`, `ReadRestartMarker`, `NextMarker` and
  `ResyncToRestart`. An MCU comes out right if its bits and, for the DC differences, the
  MCU before it in the interval do.
* `JpegScan` EXTENDS it: `ReadSuspended`, `ReadFilling` and `ReadBuffered` are the ways a
  call of `jpeg_read_scanlines` may take through `process_data_simple_main`,
  `decompress_onepass` and `sep_upsample`. The layouts are vertical sampling factors,
  with the scaled IDCT that `jpeg_calc_output_dimensions` chooses; `StreamOf` cuts, repeats
  or tears a stream at interval boundaries and fills in junk.
* `JpegVirtualArray`: `Access` is `access_virt_barray`, whole, with the flush and load of
  the window (`do_barray_io`) and the pre-zeroing; `Write` is the caller's.
* `JpegCoef` composes both as the coefficient controller does: the whole image in an
  array, or one iMCU row after the other.

### FramePath

The composition of `FrameReader` and `JpegDecoder`, whose variables and actions it takes
over (EXTENDS). All that passes from the one to the
other is the bytes of a frame, and the decoder has to cope with any, so that a behaviour
is of the reader, for any stream, or of the decoder, for any frames.

### JpegDCT, JpegIDCT, JpegFDCT

* A routine `jpeg_idct_WxH` is `Passes`: a kernel on the columns, a kernel on the rows, in
  two steps with the workspace between them. A kernel (`Idct8`) is the even and odd part
  of the code with its constants, in integers; the sizes that the code writes out for
  columns and again for rows share one, except where the code differs (`Idct4Columns`,
  `Sum2`). `IDCT_range_limit` is the table of `prepare_range_limit_table`, `RANGE_MASK`
  the wrap before it. The short cut for columns of zeros has the same result.
* `JpegFDCT` is laid out alike, with the ratio by which the second pass scales its
  constants; `Fdct12Rows` and `Fdct14Rows` are the first passes that lack a shift.
  `Quantize` is the rest of `forward_DCT`.
* The reference, `Waves`, is a table of cosines made by their series.

### JpegTransform

`RequestWorkspace`, `AdjustParameters` and the `do_...` actions are the three calls of
`jpegtran`, with the errors and the refusal of an imperfect transformation. Blocks have
2 x 2 samples: the routines treat waves by parity only, and two of each suffice. A sample
is a number that says where it comes from; the reference is in samples
(`SamplesInPlace`), the code works on coefficients.

### JpegPhoto, JpegArith, JpegHuff

* A behaviour goes through the script of scans: each one is encoded, MCU by MCU, then
  decoded. Coefficients are integers in zigzag order; the bytes between encoder and
  decoder are those of the code, with stuffing and restart markers.
* `JpegArith`: `ArithEncode` has the registers of `arith_encode` (`a`, `c`, `sc`, `zc`,
  `ct`, `buffer`); the statistics are the bins of the code, by the offsets it uses. What is
  emitted for an MCU is a sequence of decisions, `ACDecisions` and the like.
* `JpegHuff`: a first pass counts symbols, `finish_pass_gather` makes the tables
  (`GenOptimalTable` of `JpegHuffTables`), a second pass writes. `RefineCoef`, `CountEOB`
  and `EmitEOBRUN` are the refinement scans with the correction bits held back. The
  decoder's source has any of `Portions` bytes at a time (`FillInput`); an MCU that
  suspends is decoded again, after `Undone`. Sequential decoding has the variant for
  scaled images, which skips coefficients (`coef_limit`).
* For some of the images of `MCJpegCodec`, sequential and progressive, the bytes that
  these two encoders make were compared with those of the compiled `jcarith.c` and
  `jchuff.c`: they agree.

### JpegCodec

`unit` names the part at work; the variables of the others are at rest. The coefficient
controller brings `LinesExact` and `Coherent`.

## Runs

| Run | Question | Bounds |
|---|---|---|
| `playback` | the safety of the preview | 2 instances, 3 connections, symmetric instances |
| `playback_live` | does it implement `PreviewStreams`; does the UI thread come back from `join`; does every queued `ReadDVR` end? | 1 instance, 3 connections |
| `system_mode` | the mode and its preference; does the page get its mode, is the start page left? | 3 intents waiting |
| `camera_mode` | preference, DVR and icon | 2 requests at a time |
| `camera_mode_comment` | what the comment at `Preview.java:403` says | 2 requests at a time |
| `recordings` | list, buttons, indicator, device, positions | 1 clip, 1 save, 2 list downloads |
| `settings` | what the DVR gets, what the preferences say, the confirm icon | 2 values, 1 edited field per visit, 2 confirms, 1 fault, 1 page of requests waiting |
| `screen_menu` | is the menu what the next touch assumes; does it hide itself? | 3 posted callbacks |
| `video_player` | item, timers, progress view | 3 items, 2 saves, 2 stray timers |
| `frame_path` | are the frames found, does the reader end; what does the bitmap show, why does decoding fail, does it return? | streams of 3 parts, 5 frames and 2 headers, mark limit 13, 0, 1 or 7 bytes missing; 2 frames of 111, 3 heights, iMCU rows of 2 lines |
| `jpeg_codec` | are rows of an array and lines of a scan the ones asked for; do the DCTs compute the transform; are transformations lossless; do the decoders read what the encoders write? | arrays of 4 rows, accesses of 2; 6 layouts, heights 1 to 17, 3 MCUs per row, blocks of 2 lines, up to 4 intervals lost or repeated; 64 DCTs, single waves and lines; 9 pictures, 416 requests; 12 MCUs, up to 8 scans |
| `jpeg_fdct_comment` | what the comments of `jfdctint.c` say of each routine | as the DCTs above |

Why the bounds are enough.

* Preview. Two instances are a preview on its way out and its successor, the most that
  share the native buffer at a time; three connections let one preview be interrupted and
  reconnect, late, while the other has one. A join depends on the thread of its own view
  alone, so its liveness needs one instance; the executor's queue and a camera switch,
  the step of `PreviewStreams` that relates two streams, need two tasks.
* Mode and camera. Three waiting intents hold opposite switches and GET_ALL_INFO. Two
  camera requests are enough for their threads to overtake each other.
* Recordings. One clip makes lists of no and one row, and with the sample clip of the
  player another one: shorter, longer, and different. Two threads store lists in another
  order than they downloaded them. (The theorems hold for any numbers.)
* Settings. Two confirms let the second be made from a page that was opened while the
  first one's requests wait; one edited field leaves the rest of the page unedited; one
  fault is a lost request, answer or process. (Proved for any numbers.)
* Menu: one callback that is due, one that a touch adds and one of `onStart`. Player:
  three items tell a wrap from a step back; two stray timers tell one from many.
* Frames. Three parts are one before, one of, and one after a frame of another length;
  with a limit of 13 bytes the mark is lost within a frame, a header and a scan.
* Decoder. Everything that outlives a frame (`rgb`, its height, the bitmap) is seen by
  the next one, so two frames do; every file is cut after every token.
* Scan. Up to nine iMCU rows of two lines pass the first, the inner and the last ones of
  each layout, with and without dummy block rows; markers are numbered modulo 8, and up
  to 4 lost or repeated ones are more than `jpeg_resync_to_restart` can tell.

* DCTs. They are linear but for rounding: every wave of the inverse, every row and column
  of the forward ones show a wrong constant or sign. Sums beyond the range, on both sides
  and beyond the table's wrap, are made by large DC coefficients.
* Transformations. Pictures with and without a partial iMCU, in each direction, for each
  sampling that changes the block order; crops from either side, by both or one axis,
  in, at and across the last whole iMCU.
* Coders. The MCUs have all lengths of a coefficient up to eleven bits with either sign,
  runs beyond 16 zeros, blocks of corrections up to the limit (`MAX_CORR_BITS` 26 for
  bands of 24; `MaxEOBRUN` 3), restarts inside and at the end of a row, a carry over a
  stacked 0xFF; code lengths are limited to 6 bits, so that the limiting is needed, and
  the lookahead to 3, so that longer codes take the slow path.

Deadlock is not checked: a process that ended, a scan that is read or a bound stops the
models.

What is shown beyond the plain cases:

* Preview. The suspend flags lose no reconnection: a preview on screen without a render
  thread at work has its last request to thank for it (`PreviewLossExplained`), which is
  under way or one of three. It was refused. Its result came while the preview was not on
  screen: the stream plays off screen, `surfaceDestroyed` stops it without setting
  `mIsSuspend`, and nothing reconnects. Or its stream is over: at the end of it, or at a
  frame for another bitmap, `run()` returns with `mRun` TRUE, and the picture stays frozen
  on screen. Nothing reconnects by itself: the first two last until the page is left, the
  third until a click on the camera icon or a pause, which find `isStreaming()` TRUE.
  A late stream is the only way for two decoders to share the native buffer
  (`DecodersExclusive`), for it to be freed under a view (`FreedOnlyByLatePlayback`),
  and so for a frame to be copied without it (`NoLifecycleCrash`).
* Mode. A preview repeats a switch that did not reach the DVR, or whose answer was lost,
  for ever. It does not when it believes to have its mode, and the DVR then stays in the
  other one for good: a refused POST is saved as a success; a preference that was never
  written counts as the mode of whoever reads it; the switch of another page to "msdc" was
  done but its answer lost. `PreviewReachesMode` is about the DVR's mode and names these.
  A list of recordings never asks again (`missed` says why). The
  preference that GET_ALL_INFO writes after it started the page can leave either page
  without its mode (`"startup"`).
* Camera. After a refused or lost POST, or overlapping requests, `SP_PREVIEW_CAMERA` can
  stay different from the DVR's camera; `camera_mode_comment` is the shortest way, one
  click.
* Recordings. Answers name clips by position: with a list that got shorter meanwhile the
  receiver takes a row that is not there. A click on the footer opens the player for one
  too. The answer of a save that fails early has no array of results, and both receivers
  read its length: the process ends (`Receive`, `EarlyFailure`). A save to OTG without a
  device answers nothing, and the indicator stays.
* Settings. `InternetSetting` loads dial number, user name and password from each other's
  preferences, so that every confirm rotates them, and it does not disable the icon. What
  a picker shows is not set by `onResume`: a page sends null, or a pick that was
  cancelled. A page that is opened while requests wait shows the old values, and its
  confirm undoes what they did. The passphrase of an open network is saved and not sent.
  404 and, for recordings, 400 count as success. A killed process loses its requests.
* Menu. A menu that is shown while an animation hides it keeps its tool bar until the
  next touch; the player's buttons stay hidden after a resume; a pause without a stop
  leaves the menu without the callback that hides it.
* Player. When the player goes on by itself the title, the saves and the skips stay with
  the old item. A READY report, and a play after it, start a timer over the running one.
* Frames (`FramesFound`). Declared lengths are honoured exactly if headers and frames are
  as a camera sends them (`Proper`). Without them the scan from the mark counts the header as part of the frame, so a frame comes out whole, with bytes of the
  next header, if the stream is regular (`Regular`); the last part ends in an
  `EOFException` whose null message ends the process in `Log.d`.
* Decoder. A complete frame (`Complete`) has its markers in the order that the reader
  needs: one SOI first, one EOI last, one SOF and the quantization tables before the first
  scan. Without that `FrameShown` is false: with tables that come late the decoder ends in
  an error, although no data is missing. The files of the run are all in order; the proof
  for any file showed it. Tables of a frame that come before its first scan are overwritten by
  `my_jpeg_load_dht`. A suspended header or scan of several ends in BAD_STATE and the
  `longjmp`; one of a single scan in a loop that copies the last line past `rgb`. A frame
  that is taller than the first is written past it, a lower one leaves the old bottom.
* Scan. Up to two lost or repeated restart markers spoil their intervals only; three
  displace everything behind them.
* DCTs. The inverse ones are within one of the exact sample wherever the sum is in range
  or a table's length beyond it, and in range everywhere. Of the forward ones those with
  rows of 12 samples compute a third coefficient, and of 14 a second one, that is wrong:
  one product is added to a term that is not shifted (`jfdctint.c:1472`, `:1874`, `:2770`
  and `jpeg_fdct_14x7`). `jpeg_fdct_comment` finds it.
* Transformations. Trimming drops exactly the partial iMCUs that would not be mirrored, of
  cropped regions too.
* Coders. A refinement MCU that suspends and is decoded again ends as if it had not; the
  encoder never holds more correction bits than it has room for.

### Fairness

* `MjpegPlayback!FairSpec`. The serial executor and the looper are FIFO queues, so a
  queued execution and a posted result are taken. Strong fairness for `PostExecute`, as
  the looper is busy again and again, but not for ever. Render threads are scheduled; one
  that is at the head of its loop again and again reads the FALSE of `mRun` in the end
  (strong fairness of `Exit`; the loop body makes calls, so the read is not hoisted out
  of it); `JoinReturns` is taken.
* `SystemMode`, `CameraMode`: the handler thread and the looper run.
* `ScreenMenu`: the looper runs what is due, and an animation starts. Strong fairness of
  `AnimationEnd`: it takes 0.5 s, and the user, who may interrupt it, pauses for that
  long again and again.
* `VideoPlayer`: ExoPlayer reports a seek and, in the end, that it is ready; the service
  answers. Strong fairness, as the user may seek meanwhile.
* `FramePath`: the render thread runs.
* Nothing is assumed of the network (`Connected`, the reads, `Post`, `Probe`,
  `GetRecordingList`, `ReadCamera`), of the decoder seen from the preview, of the user or
  of the system. The liveness properties name what may then hang.

## Proofs

TLAPS proves the following for all values of the constants. The properties are not
inductive by themselves; each module strengthens them to an invariant `IInv` that TLC
checked first, and proves that every action preserves it.

* `MjpegPlayback_proofs`, from `NameAssumption` (tasks are numbers, names are apart):
  every safety invariant and action property of run `playback`, that a view has one
  render thread (`OneRenderThread`), that a preview has one stream or request at a time
  and drops none, and the refinement of `PreviewStreams`.
  That a started thread is never started again depends on what each flag says of the
  others:
  * `ViewInv`: while `mRun` is set there is a stream, a started thread and no suspend
    flag; once it is clear and the join over, no stream and no thread but an unstarted
    one;
  * `ThreadInv`: a running thread is the one its view refers to, and past the head of
    its loop the surface is valid;
  * `TaskInv`: a request is in flight only for a view that holds nothing and awaits
    nothing else, and streams are open only on their way to a view or in one;
  * `LifeInv`, `ScreenInv`: the activity's state limits what its view does, and one
    preview at most is on screen or may return to it.

  `BufferInv` (a freed buffer had a late stream) follows from these step by step, and so
  does `LossInv`, for `PreviewLossExplained`: requests are made in order, a view holds the
  stream of its last one, and a view that lost its stream while `mIsSuspend` is clear has
  a last request that is in flight, refused or late.
* `SystemMode_proofs`, from `QueueAssumption`: the three invariants of run
  `system_mode`. `ServiceInv`: the mode in the handler thread is the DVR's, as the one
  thread is the only one to change it; `LastInv`: for a list of recordings that missed
  nothing, every opposite switch in the queue is followed by its own.
* `CameraMode_proofs`, for any number of requests: `CameraPrefExplained`, and that a hidden
  icon has a request or a broadcast on its way (`IconComing`).
  `AloneInv`: while the last request ran alone it is the only one under way, and its
  broadcast and its thread carry the same camera.
* `Recordings_proofs`, for any finite set of clips and any numbers of threads: the
  invariants of `recordings`, why the save buttons are enabled (`SaveEnabledExplained`) and
  when the OTG device is ready (`OtgReadyExplained`). They rest on the types (a selection is part of the list, a
  save of the list it was made from) and on `MessageInv`: a message of a selection is
  handled before its page is left.
* `Pages_proofs`, for any values and any numbers of edits, confirms, faults and
  waiting requests: the three invariants of `settings`. `DvrAsWanted` needs three more:
  * `QueueInv`: what a waiting request sends along unedited is what the DVR has, and no
    request before it sends the same setting;
  * `PageInv`: so is what the page shows, if it was not stale when it was opened;
  * `PickerInv`: a picker has the value that was last confirmed.

  A page that is opened while requests wait breaks these, and that is where `stale` and
  `leftover`, the exceptions of the property, come from.
* `Pages_proofs` also has `MenuAgrees` of `ScreenMenu`, from what holds while an animation runs.
  `VideoPlayer_proofs`: `ItemPlayed` and `NoStrayTimer`, for any number of items.
* `FramePath_proofs`, from `JpegDecoderAssumption` (frames are sequences of tokens, of one
  or two components, of a height above zero): the three safety invariants of the decoder,
  for any set of frames, however long, high and many, and for any sizes of an iMCU row and
  of the bitmap. The frames are in no order and need not end; the invariant `DInv` is in
  four parts:
  * `DecoderTypes`: among them, that the position in the file stays in reach and that the
    coefficients are those of the file's rows;
  * `Mixing`: `rgb` and the bitmap have at most one seam, above it lines of the frame
    that is decoded, below it of one that was; line `l` is at place `l`. It needs `Stuck`,
    the loop that copies the last line past `rgb`, as an exception: the process ends there;
  * `Failing`: a call that comes in a state that libjpeg refuses comes after a suspension,
    and an error leaves `processimage` at once;
  * `Showing`: of a complete frame, what was read up to the marker that is next, and that
    the coefficients of the rows before the one that is read are there and right. From one
    call to the next it says which rows are still to come (`RowsComing`), so that no
    suspension can happen. It is the one part that looks at where the markers are.

  The next marker is the least position that holds one, so the lemmas about reading rest
  on the well-founded order of the numbers (`MinExists`).
* `FramePath_proofs`, from `FrameReaderAssumption` (streams are sequences of parts, a part
  bytes and a declared length or none): `FramesFound`, for any streams, cut off by any
  number of bytes, and any mark limit. `ReaderInv` is in three parts:
  * `Placed`: the bytes are what is left of the parts, one after the other, and frame `k`
    lies from `FrameStart(k)` to `FrameEnd(k)`;
  * `DeclaredSoFar`: with lengths, the reader is where the last frame ended;
  * `WholeSoFar`: without, it is there or at the end of the header that follows, and the
    length it remembers is that of the last frame, perhaps with a header. By `Regular` the
    next search then begins in the next frame and reaches its end, but not the end after.

  `EndOfSequence` and `FlattenSeq` are recursive functions of numbers. `Recursion` unrolls
  one of them, by an induction over a set of numbers (`Induction`) instead of over an
  operator; from there on a search is described by where the markers are (`MarkerFound`,
  `NoMarker`) and the bytes by where the parts are (`PartsPlaced`).
* `FramePath_proofs` also has `Coherent` of `JpegVirtualArray`, for any heights of the
  array, the buffer and the accesses: defined rows are in the buffer or the store,
  undefined ones are zero.
* `JpegCodec_proofs`, from `ScanAssumption` (an image has a height, its components sampling
  factors of 1 to 4 that divide the largest; what a tear leaves is junk): `LinesExact`, for
  images of any height, width and restart interval, whole or torn, any portions of the
  source and any number of lines asked for at a time. `ScanInv` is in three layers:
  * the entropy decoder is on its way to the next MCU (`Coming`). An intact
    stream has the MCUs and the markers where it looks for them (`IntactLaid`); so has a torn
    one before and after the tear if no more than two markers are lost or repeated
    (`NearTear`), otherwise what follows is damaged and nothing is promised of it
    (`FarTear`). `RestartProcessed` and `BitsDecoded` say what a restart and an MCU make of
    the decoder; from these, by the numbers of the markers modulo 8, it stays on its way and
    an MCU is its own or damaged;
  * while the iMCU row is read (`Filling`), the buffer has the MCUs before the one that is
    next (`RowDecoded`, an induction over the MCUs of a call, and `FilledRight`), as far as
    their block rows are in the image;
  * while it goes out (`Emitting`), `rowgroup_ctr`, `next_row_out` and the number of lines
    returned agree (`AtLine`), and the line of a component that a line of the image is
    upsampled from is the one at that place of the buffer (`LineInBuffer`, `UpsampleEmits`).

  A call decodes its MCUs as a fold of the library, which is unrolled by an induction over a
  set of numbers.
* `JpegCodec_proofs`, from `TransformAssumption` (pictures have a size and sampling factors
  of 1 to 4, the options are of their types): `TransformExact`, for pictures of any size and
  any crop region. `TransformInv` says what each of the three calls leaves to the next;
  before the last one, `Ready`:
  * the output lies in the transformed image and ends where the crop region, or the last
    whole iMCU of it, does (`Framed`). `AxisFramed` proves it for one axis, from the division
    of the offset and the size by the iMCU, and it is used for both;
  * the arrays of the source are padded to whole iMCUs, and the workspace, if one is needed,
    has the size of the output.

  From there a sample of the output is followed to the image: it is in a block of the
  output (`OutputBlocks`), which is made of a block of the source (`Inside`, `Places`), whose
  waves, negated or transposed, decode to the mirrored or transposed samples
  (`BlockTransformed`, a sum of four terms). The sum is a fold of the library over the
  waves; `TotalOfCorners` unrolls it.

Only model-checked:

* liveness (`UIUnblocked`, `ReadDVRCompletes`, `PreviewReachesMode`, `StartupEnds`,
  `IconReturns`, `MenuHides`, `ProgressEnds`, `ReaderEnds`, `DecodeReturns`), which is out
  of the prover's reach;
* `ArithmeticExact`, `HuffmanExact`: the entropy coders are recursive operators, and what
  they yield is an induction over their input;
* `SamplesExact`, `CoefficientsExplained`: that the integer DCTs stay within a bound of a
  table of cosines is a computation over the blocks.

## Plan

Done, in this order: `MjpegPlayback` with `PreviewStreams`, `SystemMode`, `CameraMode`;
`Recordings`; `FrameReader`; `JpegDecoder`, the parts of libjpeg below it;
`SettingsPage`, `ScreenMenu`, `VideoPlayer`; proofs about each that allows one; the DCTs,
the transformations and the entropy coders.

Left: the compressor's own controllers (`jccoefct.c`, `jcprepct.c`, `jcmainct.c`) and
marker writer; the switch to the remote host (`IS_VPN_MODE`) with repeated GET_ALL_INFO;
the snapshot thread of the preview.

## Not modelled

* `util/StatusDialog`, `util/ExtendNumberPicker`, layouts, the logger: no state that
  anything depends on. `util/MjpegView` and `util/MjpegInputStream`: nothing refers to
  them.
* Of the settings pages: APN, PIN, the VPN's password, BSSID (treated like modelled
  fields), the VPN's client IP (never sent), the "" that a page of the DVR without a
  value leaves in a preference, the cipher of TKIPAES (sent as that of AES), the missing
  header of an empty password. The commit of a fragment transaction is merged into
  `Select`.
* Of libjpeg: the compressor but for its forward DCTs and entropy encoders (colour
  conversion, downsampling, main, prep and coefficient controllers, marker writing, the
  suspension of the encoders); the float and the fast DCTs, which the app does not select;
  colour conversion, a table per sample without control; the quantizers `jquant*`, merged
  upsampling and the other memory managers, which are not built or not called; the tools'
  reading and writing of files (`cdjpeg`, `rd*`, `wr*`), the parsing of crop
  specifications, the copying of markers and the adjustment of Exif data; the context rows
  of `jdmainct.c`, as no upsampler of this version asks for them. Marker segments are
  tokens in `JpegDecoder`, their contents are not parsed.
